--------------------------- MODULE ForkChoiceProofs ---------------------------
(*****************************************************************************)
(* Proofs about the chain store: types, one chain in six trees, undo records *)
(* and pruning, the weight a reorg gains. Alone names when the apply worker  *)
(* and the miner do not meet; where they do, the store is not one chain (the *)
(* fork_miner_race run).                                                     *)
(*****************************************************************************)
EXTENDS ForkChoice, DataLemmas

-----------------------------------------------------------------------------
(* Chains of the tree of blocks.                                             *)

\* The blocks from a head down to the first.
ChainOf(x) == IF x = Genesis THEN {} ELSE Chain[x]
\* What a chain may end at.
Heads == Blocks \cup {Genesis}
\* A chain holds its head, has one block at a height, and holds the parents of its
\* blocks.
Descends(b) ==
    /\ b \in Chain[b] /\ Chain[b] \subseteq Blocks
    /\ \A c \in Chain[b] : HeightOf[c] <= HeightOf[b] /\ (c # b => HeightOf[c] < HeightOf[b])
    /\ \A c, d \in Chain[b] : HeightOf[c] = HeightOf[d] => c = d
    /\ \A c \in Chain[b] : Parent[c] \in Chain[b] \cup {Genesis}

\* Heights are naturals, and a block is one above its parent.
LEMMA HeightFacts ==
    /\ \A x \in Heads : HeightOf[x] \in Nat
    /\ \A b \in Blocks : /\ HeightOf[b] \in Nat /\ HeightOf[b] > 0 /\ HeightOf[b] \in Heights
                         /\ Parent[b] \in Heads /\ HeightOf[b] = HeightOf[Parent[b]] + 1
    /\ Genesis \in Heads /\ HeightOf[Genesis] = 0
    /\ \A h \in Heights : h \in Nat /\ h > 0 
<1>1. \A x \in Heads : HeightOf[x] \in Nat
  BY ForkChoiceAssumption DEF Heads
<1>2. \A b \in Blocks : Parent[b] \in Heads /\ HeightOf[b] = HeightOf[Parent[b]] + 1 /\ HeightOf[b] \in Nat
  BY ForkChoiceAssumption, <1>1 DEF Heads
<1>3. \A b \in Blocks : HeightOf[b] > 0 /\ HeightOf[b] \in Heights
  BY <1>1, <1>2 DEF Heights
<1> QED BY <1>1, <1>2, <1>3, ForkChoiceAssumption DEF Heads, Heights

\* Every chain of the tree descends to genesis, by induction on the height of its head.
LEMMA ChainFacts == \A b \in Blocks : Descends(b)
<1> DEFINE N == {n \in Nat : \A b \in Blocks : HeightOf[b] <= n => Descends(b)}
<1>1. 0 \in N
  BY HeightFacts
<1>2. ASSUME NEW n \in N PROVE n + 1 \in N
  <2> SUFFICES ASSUME NEW b \in Blocks, HeightOf[b] <= n + 1 PROVE Descends(b)
    BY <1>2
  <2>0. n \in Nat /\ HeightOf[b] \in Nat
    BY <1>2, HeightFacts
  <2>1. CASE Parent[b] = Genesis
    <3>1. Chain[b] = {b}
      BY <2>1, ForkChoiceAssumption
    <3> QED BY <3>1, <2>1, <2>0 DEF Descends
  <2>2. CASE Parent[b] # Genesis
    <3> DEFINE p == Parent[b]
    <3>1. p \in Blocks /\ HeightOf[b] = HeightOf[p] + 1 /\ HeightOf[p] \in Nat
      BY <2>2, HeightFacts DEF Heads
    <3>2. Chain[b] = {b} \cup Chain[p]
      BY <2>2, ForkChoiceAssumption
    <3>3. Descends(p)
      BY <1>2, <2>0, <3>1
    <3>4. \A c \in Chain[p] : c \in Blocks /\ HeightOf[c] \in Nat /\ HeightOf[c] <= HeightOf[p]
      BY <3>3, HeightFacts DEF Descends
    <3>5. p \in Chain[p] /\ p = Parent[b]
      BY <3>3 DEF Descends
    <3> HIDE DEF p
    <3>6. \A c \in Chain[b] : HeightOf[c] <= HeightOf[b] /\ (c # b => HeightOf[c] < HeightOf[b])
      BY <3>1, <3>2, <3>4, <2>0
    <3>7. \A c, d \in Chain[b] : HeightOf[c] = HeightOf[d] => c = d
      <4> SUFFICES ASSUME NEW c \in Chain[b], NEW d \in Chain[b], HeightOf[c] = HeightOf[d] PROVE c = d
        OBVIOUS
      <4>1. (c = b \/ c \in Chain[p]) /\ (d = b \/ d \in Chain[p])
        BY <3>2
      <4> QED BY <4>1, <3>4, <3>1, <3>3, <2>0 DEF Descends
    <3>8. \A c \in Chain[b] : Parent[c] \in Chain[b] \cup {Genesis}
      BY <3>2, <3>3, <3>5 DEF Descends
    <3>9. b \in Chain[b] /\ Chain[b] \subseteq Blocks
      BY <3>2, <3>4
    <3> QED BY <3>6, <3>7, <3>8, <3>9 DEF Descends
  <2> QED BY <2>1, <2>2
<1>3. N = Nat
  <2> HIDE DEF N
  <2>1. N \subseteq Nat BY DEF N
  <2> QED BY <1>1, <1>2, <2>1, NatSetInduction
<1> SUFFICES ASSUME NEW b \in Blocks PROVE Descends(b)
  OBVIOUS
<1>4. HeightOf[b] \in N
  BY <1>3, HeightFacts
<1> QED BY <1>4, HeightFacts

\* What canonical_by_height and the summaries hold when they hold the chain of x.
IndexOf(x) ==
    [h \in Heights |-> IF \E b \in ChainOf(x) : HeightOf[b] = h
                       THEN CHOOSE b \in ChainOf(x) : HeightOf[b] = h ELSE None]
\* The block chain_tip names then.
TipOf(x) == IF x = Genesis THEN None ELSE x

\* A block's chain is its parent's with the block on top.
LEMMA ChainNext ==
    ASSUME NEW b \in Blocks
    PROVE  /\ ChainOf(b) = Chain[b] /\ ChainOf(b) = {b} \cup ChainOf(Parent[b])
           /\ ChainOf(Parent[b]) \subseteq Blocks
           /\ \A c \in ChainOf(Parent[b]) : HeightOf[c] < HeightOf[b]
           /\ \A c, d \in ChainOf(b) : HeightOf[c] = HeightOf[d] => c = d
<1>1. b # Genesis /\ ChainOf(b) = Chain[b]
  BY ForkChoiceAssumption DEF ChainOf
<1>2. ChainOf(b) = {b} \cup ChainOf(Parent[b])
  BY <1>1, ForkChoiceAssumption DEF ChainOf
<1>3. CASE Parent[b] = Genesis
  BY <1>1, <1>2, <1>3, ChainFacts DEF ChainOf, Descends
<1>4. CASE Parent[b] # Genesis
  <2>1. Parent[b] \in Blocks /\ HeightOf[b] = HeightOf[Parent[b]] + 1 /\ HeightOf[Parent[b]] \in Nat
    BY <1>4, HeightFacts DEF Heads
  <2>2. ChainOf(Parent[b]) = Chain[Parent[b]] /\ Descends(Parent[b])
    BY <1>4, <2>1, ChainFacts DEF ChainOf
  <2>3. \A c \in Chain[Parent[b]] : c \in Blocks /\ HeightOf[c] \in Nat /\ HeightOf[c] <= HeightOf[Parent[b]]
    BY <2>2, HeightFacts DEF Descends
  <2> QED BY <1>1, <1>2, <2>1, <2>2, <2>3, ChainFacts DEF Descends
<1> QED BY <1>3, <1>4

\* Writing a block at its height turns its parent's index into its own, and clearing the
\* entry turns it back.
LEMMA IndexNext ==
    ASSUME NEW b \in Blocks
    PROVE  /\ IndexOf(b) = [IndexOf(Parent[b]) EXCEPT ![HeightOf[b]] = b]
           /\ IndexOf(Parent[b])[HeightOf[b]] = None
           /\ IndexOf(Parent[b]) = [IndexOf(b) EXCEPT ![HeightOf[b]] = None]
<1> DEFINE C == ChainOf(b)  P == ChainOf(Parent[b])  n == HeightOf[b]
<1>1. /\ C = {b} \cup P /\ P \subseteq Blocks /\ \A c \in P : HeightOf[c] < n
      /\ \A c, d \in C : HeightOf[c] = HeightOf[d] => c = d
  BY ChainNext
<1>2. n \in Heights /\ n \in Nat /\ \A c \in Blocks : HeightOf[c] \in Nat
  BY HeightFacts
<1>3. IndexOf(b) = [h \in Heights |-> IF \E c \in C : HeightOf[c] = h THEN CHOOSE c \in C : HeightOf[c] = h ELSE None]
  BY DEF IndexOf
<1>4. IndexOf(Parent[b]) = [h \in Heights |-> IF \E c \in P : HeightOf[c] = h THEN CHOOSE c \in P : HeightOf[c] = h ELSE None]
  BY DEF IndexOf
<1>4a. HeightOf[b] = n OBVIOUS
<1> HIDE DEF C, P, n
<1>5. ~\E c \in P : HeightOf[c] = n
  BY <1>1, <1>2
<1>6. IndexOf(Parent[b])[n] = None
  BY <1>2, <1>4, <1>5
<1>7. IndexOf(b)[n] = b
  <2>1. b \in C /\ \A c \in C : HeightOf[c] = n => c = b
    BY <1>1, <1>4a
  <2>2. (CHOOSE c \in C : HeightOf[c] = n) = b
    BY <2>1, <1>4a
  <2>3. IndexOf(b)[n] = IF \E c \in C : HeightOf[c] = n THEN CHOOSE c \in C : HeightOf[c] = n ELSE None
    BY <1>3, <1>2
  <2> QED BY <2>1, <2>2, <2>3, <1>4a
<1>8. ASSUME NEW h \in Heights, h # n PROVE IndexOf(b)[h] = IndexOf(Parent[b])[h]
  <2>1. (\E c \in C : HeightOf[c] = h) <=> (\E c \in P : HeightOf[c] = h)
    BY <1>1, <1>8, <1>4a
  <2>2. CASE \E c \in P : HeightOf[c] = h
    <3>1. PICK c \in P : HeightOf[c] = h BY <2>2
    <3>2. \A d \in C : HeightOf[d] = h => d = c
      BY <1>1, <3>1
    <3>3. (CHOOSE d \in C : HeightOf[d] = h) = c
      BY <3>1, <3>2, <1>1
    <3>4. (CHOOSE d \in P : HeightOf[d] = h) = c
      BY <3>1, <3>2, <1>1
    <3>5. IndexOf(b)[h] = (CHOOSE d \in C : HeightOf[d] = h) /\ IndexOf(Parent[b])[h] = (CHOOSE d \in P : HeightOf[d] = h)
      BY <1>3, <1>4, <2>1, <2>2
    <3> QED BY <3>3, <3>4, <3>5
  <2>3. CASE ~ \E c \in P : HeightOf[c] = h
    BY <2>1, <2>3, <1>3, <1>4
  <2> QED BY <2>2, <2>3
<1>9. DOMAIN IndexOf(b) = Heights /\ DOMAIN IndexOf(Parent[b]) = Heights
  BY <1>3, <1>4
<1>10. IndexOf(b) = [h \in Heights |-> IndexOf(b)[h]] /\ IndexOf(Parent[b]) = [h \in Heights |-> IndexOf(Parent[b])[h]]
  BY <1>3, <1>4
<1> DEFINE F == IndexOf(b) G == IndexOf(Parent[b])
<1> HIDE DEF F, G
<1>11. /\ F = [h \in Heights |-> F[h]] /\ G = [h \in Heights |-> G[h]]
       /\ F[n] = b /\ G[n] = None /\ \A h \in Heights : h # n => F[h] = G[h]
  BY <1>6, <1>7, <1>8, <1>10 DEF F, G
<1>12. F = [G EXCEPT ![n] = b] /\ G = [F EXCEPT ![n] = None]
  BY <1>11, <1>2
<1> QED BY <1>12, <1>6 DEF F, G, n

-----------------------------------------------------------------------------
(* Types and the shape of the tasks.                                         *)

\* The steps of apply_block_undo.
Undoing == {"u_blocks", "u_canon", "u_tip", "u_meta", "u_balances", "u_flag"}
\* The steps of a task.
Pcs == {"idle", "reweigh"} \cup Applying \cup Reorging

\* A reorg on its way up the branch.
Forward(j) == j.mode = "reorg" /\ j.pc \in Applying \cup {"replay"}
\* Which locals of a task mean something at which step.
JobShape(j) ==
    /\ j.pc \in Applying => j.block \in Blocks /\ j.mode \in {"remote", "mine", "reorg"}
    /\ j.pc \in {"choose", "reweigh"} => j.target \in Blocks /\ j.mode = "none"
    /\ j.pc \in {"unwind", "replay"} \cup Undoing => j.mode = "reorg"
    /\ j.mode = "reorg" => j.target \in Blocks /\ j.ancestor \in ChainOf(j.target) \cup {Genesis}
    /\ j.pc \in Undoing \cup {"unwind"} => j.block \in Heads /\ j.ancestor \in ChainOf(j.block) \cup {Genesis}
    /\ j.pc \in Undoing => j.block \in Blocks /\ j.block # j.ancestor
    /\ Forward(j) => /\ j.block \in ChainOf(j.target) \cup {Genesis}
                     /\ HeightOf[j.block] >= HeightOf[j.ancestor]

\* The worker never mines, the miner never reorgs.
JobsShape ==
    /\ \A t \in Tasks : JobShape(job[t])
    /\ job["worker"].mode # "mine"
    /\ job["miner"].pc \in {"idle"} \cup Applying /\ job["miner"].tips = <<>>
    /\ job["miner"].mode \in {"none", "mine"}

\* A queued block is a block, a queued reorg has a tip to try.
QueueShape(q) ==
    \A i \in 1..Len(q) : /\ q[i].kind = "block" => q[i].block \in Blocks
                         /\ q[i].kind = "reorg" => q[i].tips # <<>>

\* The types with the shape of the tasks' locals: what is inductive.
TypeInv == TypeOK /\ JobsShape /\ QueueShape(queue)

\* The empty records have their types.
LEMMA NoUndoType == NoUndo \in Undos /\ NoTip \in Tips
BY ForkChoiceAssumption, HeightFacts DEF NoUndo, NoTip, Undos, Tips, States

\* A task with nothing to do.
LEMMA IdleType ==
    /\ IdleJob \in JobRecords /\ IdleJob.pc = "idle" /\ IdleJob.mode = "none" /\ IdleJob.tips = <<>>
    /\ JobShape(IdleJob)
<1> DEFINE z == [b \in Blocks |-> 0]  u == NoUndo
<1>1. z \in [Blocks -> Nat] /\ u \in Undos BY NoUndoType
<1>2. IdleJob = [pc |-> "idle", mode |-> "none", block |-> None, base |-> None,
            same |-> TRUE, weight |-> 0, target |-> None, ancestor |-> Genesis,
            old |-> 0, branch |-> z, undo |-> u, tips |-> <<>>, backfill |-> FALSE]
  BY DEF IdleJob
<1> HIDE DEF z, u
<1>3. IdleJob \in JobRecords
  BY <1>1, <1>2 DEF JobRecords
<1>4. IdleJob.pc = "idle" /\ IdleJob.mode = "none" /\ IdleJob.tips = <<>>
  BY <1>2
<1> QED BY <1>3, <1>4 DEF JobShape, Forward, Applying, Undoing

\* A task that starts on the next tip.
LEMMA TipJobType ==
    ASSUME NEW tips \in Seq(Blocks), tips # <<>>, NEW j, j = TipJob(tips)
    PROVE  j \in JobRecords /\ j.pc = "reweigh" /\ j.mode = "none" /\ JobShape(j)
<1>1. Head(tips) \in Blocks /\ Tail(tips) \in Seq(Blocks)
  OBVIOUS
<1>2. PICK i : i = IdleJob OBVIOUS
<1>3. i \in JobRecords /\ i.mode = "none"
  BY <1>2, IdleType
<1>4. j = [i EXCEPT !.pc = "reweigh", !.backfill = TRUE, !.target = Head(tips), !.tips = Tail(tips)]
  BY <1>2, Zenon DEF TipJob
<1>5. PICK h, r : h = Head(tips) /\ r = Tail(tips) OBVIOUS
<1>6. j = [i EXCEPT !.pc = "reweigh", !.backfill = TRUE, !.target = h, !.tips = r]
  BY <1>4, <1>5
<1>7. j \in JobRecords
  BY <1>6, <1>5, <1>1, <1>3 DEF JobRecords
<1>8. j.pc = "reweigh" /\ j.mode = "none" /\ j.target \in Blocks
  BY <1>6, <1>5, <1>1, <1>3 DEF JobRecords
<1> QED BY <1>7, <1>8 DEF JobShape, Forward, Applying, Undoing

\* What Done leaves a task with.
NextJob(j) == IF j.tips = <<>> THEN IdleJob ELSE TipJob(j.tips)

\* Done leaves a well-shaped task.
LEMMA NextJobType ==
    ASSUME NEW j \in JobRecords, NEW k, k = NextJob(j)
    PROVE  /\ k \in JobRecords /\ JobShape(k) /\ k.mode = "none" /\ k.pc \in {"idle", "reweigh"}
           /\ j.tips = <<>> => k.pc = "idle" /\ k.tips = <<>>
<1>1. CASE j.tips = <<>>
  BY <1>1, IdleType DEF NextJob
<1>2. CASE j.tips # <<>>
  <2>1. j.tips \in Seq(Blocks) /\ k = TipJob(j.tips)
    BY <1>2 DEF NextJob, JobRecords
  <2>2. PICK s : s = j.tips OBVIOUS
  <2> QED BY <1>2, <2>1, <2>2, TipJobType
<1> QED BY <1>1, <1>2

\* Moving on changes nothing but the step.
LEMMA JobPc ==
    ASSUME NEW j \in JobRecords, NEW p \in Pcs, NEW k, k = [j EXCEPT !.pc = p]
    PROVE  /\ k \in JobRecords /\ k.pc = p /\ k.mode = j.mode /\ k.block = j.block /\ k.same = j.same
           /\ k.weight = j.weight /\ k.target = j.target /\ k.ancestor = j.ancestor /\ k.old = j.old
           /\ k.branch = j.branch /\ k.undo = j.undo /\ k.tips = j.tips /\ k.backfill = j.backfill /\ k.base = j.base
BY DEF JobRecords, Pcs

\* A new job of one task leaves the shape of all jobs.
LEMMA SetJobType ==
    ASSUME job \in [Tasks -> JobRecords], JobsShape, NEW t \in Tasks, NEW k \in JobRecords, JobShape(k),
           job' = [job EXCEPT ![t] = k],
           t = "worker" => k.mode # "mine",
           t = "miner" => k.pc \in {"idle"} \cup Applying /\ k.tips = <<>> /\ k.mode \in {"none", "mine"}
    PROVE  job' \in [Tasks -> JobRecords] /\ JobsShape' /\ job'[t] = k /\ \A u \in Tasks : u # t => job'[u] = job[u]
<1>1. job' \in [Tasks -> JobRecords] /\ job'[t] = k /\ \A u \in Tasks : u # t => job'[u] = job[u]
  OBVIOUS
<1>2. "worker" \in Tasks /\ "miner" \in Tasks /\ t \in {"worker", "miner"} /\ "worker" # "miner"
  BY DEF Tasks
<1>3. \A u \in Tasks : JobShape(job'[u])
  BY <1>1 DEF JobsShape
<1>4. job'["worker"].mode # "mine"
  BY <1>1, <1>2 DEF JobsShape
<1>5. job'["miner"].pc \in {"idle"} \cup Applying /\ job'["miner"].tips = <<>> /\ job'["miner"].mode \in {"none", "mine"}
  BY <1>1, <1>2 DEF JobsShape
<1>6. JobsShape'
  BY <1>3, <1>4, <1>5 DEF JobsShape, JobShape, Forward
<1> QED BY <1>1, <1>6

\* What the types say of a task, a row, an undo record and an index entry.
LEMMA TypeFacts ==
    ASSUME TypeInv
    PROVE  /\ job \in [Tasks -> JobRecords] /\ JobsShape /\ "worker" \in Tasks /\ "miner" \in Tasks
           /\ \A t \in Tasks : job[t] \in JobRecords /\ JobShape(job[t])
           /\ \A b \in Blocks : rows[b].weight \in Nat /\ rows[b].known \in BOOLEAN /\ undo[b] \in Undos
           /\ \A b \in Blocks : caac[Producer[b]] \in Nat
           /\ \A h \in Heights : summary[h] \in Blocks \cup {None} /\ canon[h] \in Blocks \cup {None}
BY ForkChoiceAssumption DEF TypeInv, TypeOK, JobsShape, Tasks

\* A cumulative weight is a natural.
LEMMA WeightType ==
    ASSUME TypeInv, NEW b \in Blocks
    PROVE  CumulativeWeight(b) \in Nat
<1>1. Parent[b] # Genesis => Parent[b] \in Blocks
  BY HeightFacts DEF Heads
<1> QED BY <1>1, TypeFacts DEF CumulativeWeight

\* store_block_undo writes one record.
LEMMA StoreUndoType ==
    ASSUME TypeInv, NEW b \in Blocks, StoreUndo(b)
    PROVE  /\ undo' \in [Blocks -> Undos]
           /\ undo'[b] = [kept |-> TRUE, state |-> state, height |-> height, summary |-> summary[HeightOf[b]],
                          canon |-> canon[HeightOf[b]], tip |-> tip]
           /\ \A c \in Blocks : c # b => undo'[c] = undo[c]
<1> DEFINE r == [kept |-> TRUE, state |-> state, height |-> height, summary |-> summary[HeightOf[b]],
                          canon |-> canon[HeightOf[b]], tip |-> tip]
<1>1. HeightOf[b] \in Heights BY HeightFacts
<1>2. r \in Undos
  BY <1>1, TypeFacts DEF TypeInv, TypeOK, Undos
<1>3. undo' = [undo EXCEPT ![b] = r] /\ undo \in [Blocks -> Undos]
  BY DEF StoreUndo, TypeInv, TypeOK
<1> HIDE DEF r
<1>4. undo' \in [Blocks -> Undos] /\ undo'[b] = r /\ \A c \in Blocks : c # b => undo'[c] = undo[c]
  BY <1>2, <1>3
<1> QED BY <1>4 DEF r

\* Recording a candidate makes one block known and forgets none.
LEMMA CandidateType ==
    ASSUME TypeInv, NEW b \in Blocks, RecordCandidate(b)
    PROVE  /\ rows' \in [Blocks -> [known : BOOLEAN, canonical : BOOLEAN, weight : Nat]]
           /\ \A c \in Blocks : rows'[c].known = (rows[c].known \/ c = b)
<1>1. PICK w : w = CumulativeWeight(b) /\ w \in Nat BY WeightType
<1>2. PICK r : r = [known |-> TRUE, canonical |-> FALSE, weight |-> w] OBVIOUS
<1>3. r \in [known : BOOLEAN, canonical : BOOLEAN, weight : Nat] /\ r.known = TRUE BY <1>1, <1>2
<1>4. rows' = [rows EXCEPT ![b] = r] BY <1>1, <1>2 DEF RecordCandidate
<1>5. rows \in [Blocks -> [known : BOOLEAN, canonical : BOOLEAN, weight : Nat]] BY DEF TypeInv, TypeOK
<1>6. rows'[b] = r /\ \A c \in Blocks : c # b => rows'[c] = rows[c] BY <1>4, <1>5
<1>7. \A c \in Blocks : rows[c].known \in BOOLEAN BY <1>5
<1> QED BY <1>3, <1>4, <1>5, <1>6, <1>7

\* Writing the balances keeps the types.
LEMMA TypeApplyBalances ==
    ASSUME TypeInv, NEW t \in Tasks, ApplyBalances(t)
    PROVE  TypeInv'
<1> DEFINE j == job[t]  b == j.block
           s == IF j.mode = "mine" THEN state = j.base ELSE state = Parent[b] /\ b \notin BadRoots
           k == [j EXCEPT !.pc = "meta", !.same = s]
<1>1. j \in JobRecords /\ JobShape(j) /\ j.pc = "balances" BY TypeFacts DEF ApplyBalances
<1>2. b \in Blocks BY <1>1 DEF JobShape, Applying
<1>3. job' = [job EXCEPT ![t] = k] /\ state' \in {b, Junk}
  BY Zenon DEF ApplyBalances, SetJob
<1>4. s \in BOOLEAN OBVIOUS
<1> HIDE DEF s
<1>5. k \in JobRecords /\ k.pc = "meta" /\ k.mode = j.mode /\ k.block = j.block /\ k.target = j.target
      /\ k.ancestor = j.ancestor /\ k.tips = j.tips
  <2> HIDE DEF j, b
  <2>1. k = [j EXCEPT !.pc = "meta", !.same = s] OBVIOUS
  <2> HIDE DEF k
  <2> QED BY <1>1, <1>4, <2>1 DEF JobRecords, Applying
<1>6. JobShape(k)
  <2> HIDE DEF k
  <2> QED BY <1>5, <1>1 DEF JobShape, Forward, Applying, Undoing
<1>7. job' \in [Tasks -> JobRecords] /\ JobsShape'
  <2>1. /\ t = "worker" => k.mode # "mine"
        /\ t = "miner" => k.pc \in {"idle"} \cup Applying /\ k.tips = <<>> /\ k.mode \in {"none", "mine"}
    <3> HIDE DEF k
    <3> QED BY <1>5, TypeFacts DEF JobsShape, Applying
  <2> HIDE DEF k, j
  <2> QED BY <1>3, <1>5, <1>6, <2>1, TypeFacts, SetJobType
<1>8. state' \in States BY <1>2, <1>3 DEF States
<1> QED BY <1>7, <1>8 DEF TypeInv, TypeOK, ApplyBalances, QueueShape, loop, history

\* The job a task goes on with.
LEMMA GotoType ==
    ASSUME TypeInv, NEW t \in Tasks, NEW p \in Pcs, Goto(t, p), JobShape([job[t] EXCEPT !.pc = p]),
           t = "miner" => p \in {"idle"} \cup Applying
    PROVE  /\ job' \in [Tasks -> JobRecords] /\ JobsShape'
           /\ job'[t] = [job[t] EXCEPT !.pc = p]
           /\ \A u \in Tasks : u # t => job'[u] = job[u]
<1> DEFINE j == job[t] k == [j EXCEPT !.pc = p]
<1>1. j \in JobRecords BY TypeFacts
<1>2. job' = [job EXCEPT ![t] = k] BY Zenon DEF Goto
<1>3. k \in JobRecords /\ k.pc = p /\ k.mode = j.mode /\ k.tips = j.tips
  BY <1>1, JobPc
<1>4. /\ t = "worker" => k.mode # "mine"
      /\ t = "miner" => k.pc \in {"idle"} \cup Applying /\ k.tips = <<>> /\ k.mode \in {"none", "mine"}
  <2> HIDE DEF k
  <2> QED BY <1>3, TypeFacts DEF JobsShape
<1>5. JobShape(k) OBVIOUS
<1> HIDE DEF k, j
<1>6. job' \in [Tasks -> JobRecords] /\ JobsShape' /\ job'[t] = k /\ \A u \in Tasks : u # t => job'[u] = job[u]
  BY <1>2, <1>3, <1>4, <1>5, TypeFacts, SetJobType
<1> QED BY <1>6 DEF k, j

\* A task that is done goes on with its next tip or rests.
LEMMA DoneType ==
    ASSUME TypeInv, NEW t \in Tasks, Done(t)
    PROVE  /\ job' \in [Tasks -> JobRecords] /\ JobsShape'
           /\ job'[t] \in {IdleJob, TipJob(job[t].tips)}
           /\ job'[t].pc \in {"idle", "reweigh"} /\ job'[t].mode = "none"
           /\ \A u \in Tasks : u # t => job'[u] = job[u]
<1> DEFINE j == job[t] k == NextJob(j)
<1>1. j \in JobRecords BY TypeFacts
<1>2. job' = [job EXCEPT ![t] = k] BY Zenon DEF Done, SetJob, NextJob
<1>3. k \in JobRecords /\ JobShape(k) /\ k.mode = "none" /\ k.pc \in {"idle", "reweigh"}
      /\ (j.tips = <<>> => k.pc = "idle" /\ k.tips = <<>>)
  BY <1>1, NextJobType
<1>4. t = "miner" => k.pc \in {"idle"} \cup Applying /\ k.tips = <<>>
  <2> HIDE DEF k
  <2> QED BY <1>3, TypeFacts DEF JobsShape
<1>5. k \in {IdleJob, TipJob(job[t].tips)} BY Zenon DEF NextJob
<1> HIDE DEF k, j
<1> QED BY <1>2, <1>3, <1>4, <1>5, TypeFacts, SetJobType

\* Writing the height keeps the types.
LEMMA TypeApplyMeta ==
    ASSUME TypeInv, NEW t \in Tasks, ApplyMeta(t)
    PROVE  TypeInv'
<1> DEFINE j == job[t]
<1>1. j \in JobRecords /\ JobShape(j) /\ j.pc = "meta" BY TypeFacts DEF ApplyMeta
<1>2. j.block \in Blocks BY <1>1 DEF JobShape, Applying
<1>3. job' \in [Tasks -> JobRecords] /\ JobsShape' /\ barred' \in BOOLEAN
  <2>1. CASE Goto(t, "summary") /\ UNCHANGED barred
    <3> DEFINE k == [j EXCEPT !.pc = "summary"]
    <3>1. "summary" \in Pcs /\ "summary" \in Applying BY DEF Pcs, Applying
    <3>2. k \in JobRecords /\ k.pc = "summary" /\ k.mode = j.mode /\ k.block = j.block /\ k.target = j.target
      /\ k.ancestor = j.ancestor /\ k.tips = j.tips
      BY <1>1, <3>1, JobPc
    <3>3. JobShape(k)
      <4> HIDE DEF k
      <4> QED BY <3>2, <1>1 DEF JobShape, Forward, Applying, Undoing
    <3> QED BY <2>1, <3>1, <3>3, GotoType DEF TypeInv, TypeOK
  <2>2. CASE Done(t) /\ barred' = (barred \/ job[t].backfill)
    BY <2>2, DoneType
  <2> QED BY <2>1, <2>2 DEF ApplyMeta
<1>4. height' \in Heights BY <1>2, HeightFacts DEF ApplyMeta
<1> QED BY <1>3, <1>4 DEF TypeInv, TypeOK, ApplyMeta, QueueShape, history

\* The writes of an apply keep the shape of the task.
LEMMA NextApplying ==
    ASSUME NEW j \in JobRecords, JobShape(j), j.pc \in Applying, NEW p \in Applying
    PROVE  JobShape([j EXCEPT !.pc = p]) /\ p \in Pcs
<1> DEFINE k == [j EXCEPT !.pc = p]
<1>1. p \in Pcs BY DEF Pcs
<1>2. k \in JobRecords /\ k.pc = p /\ k.mode = j.mode /\ k.block = j.block /\ k.target = j.target
      /\ k.ancestor = j.ancestor /\ k.tips = j.tips
  BY <1>1, JobPc
<1> HIDE DEF k
<1>3. JobShape(k)
  BY <1>2 DEF JobShape, Forward, Applying, Undoing
<1> QED BY <1>1, <1>3 DEF k

\* Writing the summary keeps the types.
LEMMA TypeRecordSummary ==
    ASSUME TypeInv, NEW t \in Tasks, RecordSummary(t)
    PROVE  TypeInv'
<1>1. job[t] \in JobRecords /\ JobShape(job[t]) /\ job[t].pc = "summary" BY TypeFacts DEF RecordSummary
<1>2. job[t].block \in Blocks BY <1>1 DEF JobShape, Applying
<1>3. job' \in [Tasks -> JobRecords] /\ JobsShape'
  <2>1. "row" \in Applying /\ job[t].pc \in Applying BY <1>1 DEF Applying
  <2>2. JobShape([job[t] EXCEPT !.pc = "row"]) /\ "row" \in Pcs BY <1>1, <2>1, NextApplying
  <2> QED BY <2>1, <2>2, GotoType DEF RecordSummary
<1>4. summary' \in [Heights -> Blocks \cup {None}]
  BY <1>2, HeightFacts DEF RecordSummary, TypeInv, TypeOK
<1> QED BY <1>3, <1>4 DEF TypeInv, TypeOK, RecordSummary, QueueShape, loop, history

\* Writing the canonical index keeps the types.
LEMMA TypeRecordCanonical ==
    ASSUME TypeInv, NEW t \in Tasks, RecordCanonical(t)
    PROVE  TypeInv'
<1>1. job[t] \in JobRecords /\ JobShape(job[t]) /\ job[t].pc = "canon" BY TypeFacts DEF RecordCanonical
<1>2. job[t].block \in Blocks BY <1>1 DEF JobShape, Applying
<1>3. job' \in [Tasks -> JobRecords] /\ JobsShape'
  <2>1. "tip" \in Applying /\ job[t].pc \in Applying BY <1>1 DEF Applying
  <2>2. JobShape([job[t] EXCEPT !.pc = "tip"]) /\ "tip" \in Pcs BY <1>1, <2>1, NextApplying
  <2> QED BY <2>1, <2>2, GotoType DEF RecordCanonical
<1>4. canon' \in [Heights -> Blocks \cup {None}]
  BY <1>2, HeightFacts DEF RecordCanonical, TypeInv, TypeOK
<1> QED BY <1>3, <1>4 DEF TypeInv, TypeOK, RecordCanonical, QueueShape, loop, history

\* The weight an applied block is recorded with.
RowWeight(j) == IF j.mode = "reorg" THEN j.branch[j.block] ELSE CumulativeWeight(j.block)

\* Recording the row of an applied block.
LEMMA RecordRowFacts ==
    ASSUME TypeInv, NEW t \in Tasks, RecordRow(t)
    PROVE  /\ job' \in [Tasks -> JobRecords] /\ JobsShape'
           /\ job[t].block \in Blocks
           /\ rows' \in [Blocks -> [known : BOOLEAN, canonical : BOOLEAN, weight : Nat]]
           /\ \A c \in Blocks : rows'[c].known = (rows[c].known \/ c = job[t].block)
           /\ \A u \in Tasks : u # t => job'[u] = job[u]
           /\ job'[t] = [job[t] EXCEPT !.pc = "canon", !.weight = RowWeight(job[t])]
           /\ RowWeight(job[t]) \in Nat
<1> DEFINE j == job[t] w == RowWeight(j) b == j.block k == [j EXCEPT !.pc = "canon", !.weight = w]
<1>1. j \in JobRecords /\ JobShape(j) /\ j.pc = "row" BY TypeFacts DEF RecordRow
<1>2. b \in Blocks BY <1>1 DEF JobShape, Applying
<1>3. w \in Nat
  <2>1. j.branch \in [Blocks -> Nat] BY <1>1 DEF JobRecords
  <2> QED BY <1>2, <2>1, WeightType DEF RowWeight
<1>4. job' = [job EXCEPT ![t] = k] /\ rows' = [rows EXCEPT ![b] = [known |-> TRUE, canonical |-> TRUE, weight |-> w]]
  BY Zenon DEF RecordRow, SetJob, RowWeight
<1>5. b = j.block OBVIOUS
<1> HIDE DEF w, b
<1>6. k \in JobRecords /\ k.pc = "canon" /\ k.mode = j.mode /\ k.block = j.block /\ k.target = j.target
      /\ k.ancestor = j.ancestor /\ k.tips = j.tips
  <2> HIDE DEF j
  <2> QED BY <1>1, <1>3 DEF JobRecords, Applying
<1>7. JobShape(k)
  <2> HIDE DEF k
  <2> QED BY <1>6, <1>1 DEF JobShape, Forward, Applying, Undoing
<1>8. job' \in [Tasks -> JobRecords] /\ JobsShape' /\ job'[t] = k /\ \A u \in Tasks : u # t => job'[u] = job[u]
  <2>1. /\ t = "worker" => k.mode # "mine"
        /\ t = "miner" => k.pc \in {"idle"} \cup Applying /\ k.tips = <<>> /\ k.mode \in {"none", "mine"}
    <3> HIDE DEF k
    <3> QED BY <1>6, TypeFacts DEF JobsShape, Applying
  <2> HIDE DEF k, j
  <2> QED BY <1>4, <1>6, <1>7, <2>1, TypeFacts, SetJobType
<1>9. PICK r : r = [known |-> TRUE, canonical |-> TRUE, weight |-> w] OBVIOUS
<1>10. r \in [known : BOOLEAN, canonical : BOOLEAN, weight : Nat] /\ r.known = TRUE BY <1>3, <1>9
<1>11. rows' = [rows EXCEPT ![b] = r] BY <1>4, <1>9
<1>12. rows \in [Blocks -> [known : BOOLEAN, canonical : BOOLEAN, weight : Nat]] BY DEF TypeInv, TypeOK
<1>13. rows'[b] = r /\ \A c \in Blocks : c # b => rows'[c] = rows[c] BY <1>11, <1>12, <1>2
<1>14. \A c \in Blocks : rows[c].known \in BOOLEAN BY <1>12
<1>15. rows' \in [Blocks -> [known : BOOLEAN, canonical : BOOLEAN, weight : Nat]] BY <1>10, <1>11, <1>12
<1>16. \A c \in Blocks : rows'[c].known = (rows[c].known \/ c = b) BY <1>10, <1>13, <1>14
<1> QED BY <1>2, <1>3, <1>8, <1>15, <1>16 DEF w, b

\* Recording the row keeps the types.
LEMMA TypeRecordRow ==
    ASSUME TypeInv, NEW t \in Tasks, RecordRow(t)
    PROVE  TypeInv'
<1> job' \in [Tasks -> JobRecords] /\ JobsShape' /\ rows' \in [Blocks -> [known : BOOLEAN, canonical : BOOLEAN, weight : Nat]]
  BY RecordRowFacts
<1> QED BY DEF TypeInv, TypeOK, RecordRow, QueueShape, loop, history

\* Writing the tip keeps the types.
LEMMA TypeRecordTip ==
    ASSUME TypeInv, NEW t \in Tasks, RecordTip(t)
    PROVE  TypeInv'
<1>1. job[t] \in JobRecords /\ JobShape(job[t]) /\ job[t].pc = "tip" BY TypeFacts DEF RecordTip
<1>2. job[t].block \in Blocks /\ job[t].weight \in Nat BY <1>1 DEF JobShape, Applying, JobRecords
<1>3. job' \in [Tasks -> JobRecords] /\ JobsShape' /\ prunes' \subseteq Heights
  <2>1. CASE job[t].mode = "reorg"
    <3>1. Goto(t, "replay") /\ UNCHANGED prunes BY <2>1 DEF RecordTip
    <3>2. t # "miner" BY <2>1, TypeFacts DEF JobsShape
    <3> DEFINE j == job[t] k == [j EXCEPT !.pc = "replay"]
    <3>3. "replay" \in Pcs BY DEF Pcs, Reorging
    <3>4. k.pc = "replay" /\ k.mode = j.mode /\ k.block = j.block /\ k.target = j.target /\ k.ancestor = j.ancestor
      BY <1>1, <3>3, JobPc
    <3>5. JobShape(k)
      <4> HIDE DEF k
      <4> QED BY <3>4, <1>1, <2>1 DEF JobShape, Forward, Applying, Undoing
    <3> QED BY <3>1, <3>2, <3>3, <3>5, GotoType DEF TypeInv, TypeOK
  <2>2. CASE job[t].mode # "reorg"
    <3>1. Done(t) /\ prunes' \in {prunes, prunes \cup {HeightOf[job[t].block]}} BY <2>2 DEF RecordTip
    <3>2. HeightOf[job[t].block] \in Heights BY <1>2, HeightFacts
    <3> QED BY <3>1, <3>2, DoneType DEF TypeInv, TypeOK
  <2> QED BY <2>1, <2>2
<1>4. tip' \in Tips BY <1>2 DEF RecordTip, Tips
<1> QED BY <1>3, <1>4 DEF TypeInv, TypeOK, RecordTip, QueueShape, loop, history

\* Pruning keeps the types.
LEMMA PruneType ==
    ASSUME TypeInv, NEW h \in prunes, PruneHistory(h)
    PROVE  TypeInv'
<1>1. undo' \in [Blocks -> Undos]
  BY NoUndoType, TypeFacts DEF PruneHistory
<1> QED BY <1>1 DEF TypeInv, TypeOK, PruneHistory, QueueShape, JobsShape, JobShape, Forward, loop, history

\* Taking a job from the queue.
LEMMA QueueTail ==
    ASSUME TypeInv, queue # <<>>, queue' = Tail(queue)
    PROVE  /\ queue' \in Seq(QueueJobs) /\ QueueShape(queue') /\ Head(queue) \in QueueJobs
           /\ Head(queue).kind = "block" => Head(queue).block \in Blocks
           /\ Head(queue).kind = "reorg" => Head(queue).tips \in Seq(Blocks) /\ Head(queue).tips # <<>>
<1>1. queue \in Seq(QueueJobs) /\ QueueShape(queue) BY DEF TypeInv, TypeOK
<1>2. Head(queue) = queue[1] /\ 1 \in 1..Len(queue) /\ Head(queue) \in QueueJobs BY <1>1
<1>3. queue' \in Seq(QueueJobs) /\ Len(queue') = Len(queue) - 1 /\ \A i \in 1..Len(queue') : queue'[i] = queue[i + 1] /\ i + 1 \in 1..Len(queue)
  BY <1>1
<1>4. QueueShape(queue') BY <1>1, <1>3 DEF QueueShape
<1>5. /\ Head(queue).kind = "block" => Head(queue).block \in Blocks
      /\ Head(queue).kind = "reorg" => Head(queue).tips # <<>>
  BY <1>1, <1>2 DEF QueueShape
<1>6. Head(queue).tips \in Seq(Blocks) BY <1>2 DEF QueueJobs
<1> QED BY <1>2, <1>3, <1>4, <1>5, <1>6

\* Offering a job to the queue.
LEMMA QueueAppend ==
    ASSUME TypeInv, NEW q \in QueueJobs, q.kind = "block" => q.block \in Blocks, q.kind = "reorg" => q.tips # <<>>
    PROVE  Append(queue, q) \in Seq(QueueJobs) /\ QueueShape(Append(queue, q))
<1>1. queue \in Seq(QueueJobs) /\ QueueShape(queue) BY DEF TypeInv, TypeOK
<1>2. PICK r : r = Append(queue, q) OBVIOUS
<1>3. r \in Seq(QueueJobs) /\ Len(r) = Len(queue) + 1 /\ r[Len(queue) + 1] = q /\ \A i \in 1..Len(queue) : r[i] = queue[i]
  BY <1>1, <1>2
<1>4. \A i \in 1..Len(r) : i \in 1..Len(queue) \/ i = Len(queue) + 1 BY <1>3, <1>1
<1>5. QueueShape(r) BY <1>1, <1>3, <1>4 DEF QueueShape
<1> QED BY <1>2, <1>3, <1>5

\* What the worker starts when it takes a block, and the miner when it prepares one.
StartedJob(m, b, s) == [IdleJob EXCEPT !.pc = "balances", !.mode = m, !.block = b, !.base = s]

\* A task that starts a block.
LEMMA StartJob ==
    ASSUME NEW b \in Blocks, NEW m \in {"remote", "mine"}, NEW s \in States,
           NEW k, k = StartedJob(m, b, s)
    PROVE  /\ k \in JobRecords /\ JobShape(k) /\ k.pc = "balances" /\ k.mode = m /\ k.block = b /\ k.base = s
           /\ k.tips = <<>>
<1>1. PICK i : i = IdleJob OBVIOUS
<1>2. i \in JobRecords /\ i.tips = <<>> BY <1>1, IdleType
<1>3. k = [i EXCEPT !.pc = "balances", !.mode = m, !.block = b, !.base = s] BY <1>1 DEF StartedJob
<1>4. k \in JobRecords /\ k.pc = "balances" /\ k.mode = m /\ k.block = b /\ k.base = s /\ k.tips = <<>>
  BY <1>2, <1>3 DEF JobRecords, Applying
<1> QED BY <1>4 DEF JobShape, Forward, Applying, Undoing

\* Skipping or rejecting a block keeps the types.
LEMMA TypeSkip ==
    ASSUME TypeInv, NEW b \in Blocks, SkipBlock(b) \/ RejectBlock(b)
    PROVE  TypeInv'
<1>1. queue # <<>> /\ queue' = Tail(queue) BY DEF SkipBlock, RejectBlock, TakeBlock
<1>2. queue' \in Seq(QueueJobs) /\ QueueShape(queue') BY <1>1, QueueTail
<1>3. UNCHANGED <<trees, caac, job, loop, prunes, history>> BY DEF SkipBlock, RejectBlock
<1> QED BY <1>2, <1>3 DEF TypeInv, TypeOK, JobsShape, JobShape, Forward, trees, loop, history

\* Taking the next block keeps the types.
LEMMA TypeApplyNext ==
    ASSUME TypeInv, NEW b \in Blocks, ApplyNext(b)
    PROVE  TypeInv' /\ job'["worker"] = StartedJob("remote", b, state)
           /\ job'["miner"] = job["miner"]
<1>1. queue' \in Seq(QueueJobs) /\ QueueShape(queue')
  BY QueueTail DEF ApplyNext, TakeBlock
<1> DEFINE k == StartedJob("remote", b, state)
<1>2. state \in States BY DEF TypeInv, TypeOK
<1>3. k \in JobRecords /\ JobShape(k) /\ k.mode = "remote"
  BY <1>2, StartJob
<1>4. job' = [job EXCEPT !["worker"] = k] BY DEF ApplyNext, SetJob, StartedJob
<1> HIDE DEF k
<1>5. job' \in [Tasks -> JobRecords] /\ JobsShape' /\ job'["worker"] = k /\ job'["miner"] = job["miner"]
  BY <1>3, <1>4, TypeFacts, SetJobType
<1>6. undo' \in [Blocks -> Undos] BY StoreUndoType DEF ApplyNext
<1>7. TypeInv' BY <1>1, <1>5, <1>6 DEF TypeInv, TypeOK, ApplyNext, loop, history
<1> QED BY <1>5, <1>7 DEF k

\* Recording a block of the local height keeps the types.
LEMMA TypeSameHeightFork ==
    ASSUME TypeInv, NEW b \in Blocks, SameHeightFork(b)
    PROVE  TypeInv' /\ job'["worker"].pc = "choose" /\ job'["worker"].mode = "none" /\ job'["miner"] = job["miner"]
<1>1. queue' \in Seq(QueueJobs) /\ QueueShape(queue')
  BY QueueTail DEF SameHeightFork, TakeBlock
<1> DEFINE k == [IdleJob EXCEPT !.pc = "choose", !.target = b]
<1>3. k \in JobRecords /\ k.mode = "none" /\ k.pc = "choose" /\ k.target = b
  <2>1. PICK i : i = IdleJob OBVIOUS
  <2>2. i \in JobRecords /\ i.mode = "none" BY <2>1, IdleType
  <2>3. k = [i EXCEPT !.pc = "choose", !.target = b] BY <2>1
  <2> HIDE DEF k
  <2> QED BY <2>2, <2>3 DEF JobRecords, Reorging
<1>4. job' = [job EXCEPT !["worker"] = k] BY DEF SameHeightFork, SetJob
<1> HIDE DEF k
<1>4a. JobShape(k) BY <1>3 DEF JobShape, Forward, Applying, Undoing
<1>5. job' \in [Tasks -> JobRecords] /\ JobsShape' /\ job'["worker"] = k /\ job'["miner"] = job["miner"]
  BY <1>3, <1>4, <1>4a, TypeFacts, SetJobType
<1>6. rows' \in [Blocks -> [known : BOOLEAN, canonical : BOOLEAN, weight : Nat]] BY CandidateType DEF SameHeightFork
<1>7. TypeInv' BY <1>1, <1>5, <1>6 DEF TypeInv, TypeOK, SameHeightFork, loop, history
<1> QED BY <1>3, <1>5, <1>7

\* Taking a reorg job keeps the types.
LEMMA TypeTakeReorg ==
    ASSUME TypeInv, TakeReorg
    PROVE  TypeInv' /\ job'["worker"].pc = "reweigh" /\ job'["worker"].mode = "none" /\ job'["miner"] = job["miner"]
<1>1. /\ queue' \in Seq(QueueJobs) /\ QueueShape(queue')
      /\ Head(queue).tips \in Seq(Blocks) /\ Head(queue).tips # <<>>
  BY QueueTail DEF TakeReorg
<1> DEFINE s == Head(queue).tips k == TipJob(s)
<1>4. job' = [job EXCEPT !["worker"] = k] BY DEF TakeReorg, SetJob
<1> HIDE DEF s
<1>3. k \in JobRecords /\ JobShape(k) /\ k.mode = "none" /\ k.pc = "reweigh"
  BY <1>1, TipJobType DEF s
<1> HIDE DEF k
<1>5. job' \in [Tasks -> JobRecords] /\ JobsShape' /\ job'["worker"] = k /\ job'["miner"] = job["miner"]
  BY <1>3, <1>4, TypeFacts, SetJobType
<1>7. TypeInv' BY <1>1, <1>5 DEF TypeInv, TypeOK, TakeReorg, trees, loop, history
<1> QED BY <1>3, <1>5, <1>7

\* A step that only ends a task keeps the types.
LEMMA TypeDone ==
    ASSUME TypeInv, Done("worker"), barred' \in BOOLEAN,
           UNCHANGED <<trees, caac, queue, orphans, requests, prunes, history>>
    PROVE  /\ TypeInv' /\ job'["worker"].pc \in {"idle", "reweigh"} /\ job'["worker"].mode = "none" /\ job'["miner"] = job["miner"]
<1>1. "worker" \in Tasks /\ "miner" \in Tasks BY DEF Tasks
<1>2. /\ job' \in [Tasks -> JobRecords] /\ JobsShape' /\ job'["worker"].pc \in {"idle", "reweigh"} /\ job'["worker"].mode = "none"
      /\ job'["miner"] = job["miner"]
  BY <1>1, DoneType
<1> QED BY <1>2 DEF TypeInv, TypeOK, QueueShape, trees, loop, history

\* The common ancestor is an ancestor of both branches, or genesis.
LEMMA CommonAncestorIn ==
    ASSUME TypeInv, NEW b \in Blocks, tip.block \in Blocks
    PROVE  /\ CommonAncestor(b) \in Blocks \cup {Genesis}
           /\ CommonAncestor(b) \in ChainOf(b) \cup {Genesis}
           /\ CommonAncestor(b) \in ChainOf(tip.block) \cup {Genesis}
<1> DEFINE both == AncestorIds(b) \cap AncestorIds(tip.block)
<1>1. AncestorIds(b) \subseteq Chain[b] /\ AncestorIds(tip.block) \subseteq Chain[tip.block] BY DEF AncestorIds
<1>2. ChainOf(b) = Chain[b] /\ ChainOf(tip.block) = Chain[tip.block] /\ Chain[b] \subseteq Blocks
  BY ChainNext, ChainFacts DEF Descends
<1>3. CommonAncestor(b) = IF both = {} THEN Genesis ELSE CHOOSE a \in both : \A c \in both : HeightOf[c] <= HeightOf[a]
  BY DEF CommonAncestor
<1>4. CASE both = {} BY <1>3, <1>4
<1>5. CASE both # {}
  <2>0. both \subseteq Chain[b] /\ both \subseteq Chain[tip.block] BY <1>1
  <2>1. \E a \in both : \A c \in both : HeightOf[c] <= HeightOf[a]
    <3> DEFINE n == HeightOf[b] S == {m \in Nat : \E a \in both : m = n - HeightOf[a]}
    <3>1. \A a \in both : HeightOf[a] \in Nat /\ HeightOf[a] <= n /\ n \in Nat
      BY <2>0, ChainFacts, HeightFacts, <1>2 DEF Descends
    <3>2. S # {} /\ S \subseteq Nat
      <4>1. PICK a \in both : TRUE BY <1>5
      <4>2. n - HeightOf[a] \in Nat BY <4>1, <3>1
      <4>3. n - HeightOf[a] \in S BY <4>1, <4>2
      <4> QED BY <4>3
    <3> HIDE DEF both, n
    <3>3. \E m \in S : \A x \in S : m <= x
      <4> HIDE DEF S
      <4> QED BY <3>2, Least
    <3>4. PICK m \in S : \A x \in S : m <= x BY <3>3
    <3>5. PICK a \in both : m = n - HeightOf[a] BY <3>4
    <3>6. ASSUME NEW c \in both PROVE HeightOf[c] <= HeightOf[a]
      <4>1. n - HeightOf[c] \in Nat BY <3>1
      <4>2. n - HeightOf[c] \in S BY <4>1
      <4>3. m <= n - HeightOf[c] BY <4>2, <3>4
      <4> QED BY <4>3, <3>5, <3>1
    <3> QED BY <3>6
  <2> HIDE DEF both
  <2>2. CommonAncestor(b) \in both BY <2>1, <1>3, <1>5
  <2> QED BY <2>2, <2>0, <1>2
<1> QED BY <1>4, <1>5

\* The locals of reorg_to_branch once the branch was chosen.
ChosenJob(j) == [j EXCEPT !.pc = "unwind", !.mode = "reorg", !.block = tip.block,
                          !.ancestor = CommonAncestor(j.target), !.old = tip.weight,
                          !.branch = [b \in Blocks |-> rows[b].weight]]

\* Choosing a branch keeps the types.
LEMMA TypeChooseBranch ==
    ASSUME TypeInv, ChooseBranch
    PROVE  /\ TypeInv' /\ job'["miner"] = job["miner"] /\ tip.block \in Blocks /\ job["worker"].target \in Blocks
           /\ job'["worker"] \in JobRecords
           /\ LET j == job["worker"]  k == job'["worker"]
              IN  /\ k.pc = "unwind" /\ k.mode = "reorg" /\ k.block = tip.block /\ k.target = j.target
                  /\ k.ancestor = CommonAncestor(j.target) /\ k.old = tip.weight
                  /\ k.branch = [b \in Blocks |-> rows[b].weight]
<1> DEFINE j == job["worker"] a == CommonAncestor(j.target) z == [b \in Blocks |-> rows[b].weight] k == ChosenJob(j)
<1>1. j \in JobRecords /\ JobShape(j) /\ j.pc = "choose" BY TypeFacts DEF ChooseBranch
<1>2. j.target \in Blocks /\ tip.block \in Blocks /\ tip.weight \in Nat
  BY <1>1 DEF JobShape, ChooseBranch, TypeInv, TypeOK, Tips
<1>3. a \in Blocks \cup {Genesis} /\ a \in ChainOf(j.target) \cup {Genesis} /\ a \in ChainOf(tip.block) \cup {Genesis}
  BY <1>2, CommonAncestorIn
<1>4. z \in [Blocks -> Nat] BY TypeFacts
<1>5. job' = [job EXCEPT !["worker"] = k] BY Zenon DEF ChooseBranch, SetJob, ChosenJob
<1>6. k = [j EXCEPT !.pc = "unwind", !.mode = "reorg", !.block = tip.block, !.ancestor = a, !.old = tip.weight, !.branch = z]
  BY Zenon DEF ChosenJob
<1>6a. z = [b \in Blocks |-> rows[b].weight] /\ a = CommonAncestor(j.target) OBVIOUS
<1> HIDE DEF a, z, k
<1>7. k \in JobRecords /\ k.pc = "unwind" /\ k.mode = "reorg" /\ k.block = tip.block /\ k.target = j.target /\ k.ancestor = a /\ k.old = tip.weight /\ k.branch = z
  <2> HIDE DEF j
  <2> QED BY <1>1, <1>2, <1>3, <1>4, <1>6 DEF JobRecords, Reorging
<1>8. JobShape(k)
  BY <1>7, <1>2, <1>3 DEF JobShape, Forward, Applying, Undoing, Heads
<1>9. job' \in [Tasks -> JobRecords] /\ JobsShape' /\ job'["worker"] = k /\ job'["miner"] = job["miner"]
  <2> HIDE DEF j
  <2> QED BY <1>5, <1>7, <1>8, TypeFacts, SetJobType
<1>10. TypeInv' BY <1>9 DEF TypeInv, TypeOK, ChooseBranch, QueueShape, trees, loop, history
<1> QED BY <1>2, <1>6a, <1>7, <1>9, <1>10

\* Deciding on the next block to unwind keeps the types.
LEMMA TypeUnwind ==
    ASSUME TypeInv, Unwind
    PROVE  /\ TypeInv' /\ job'["miner"] = job["miner"] /\ job["worker"].block \in Heads
           /\ LET j == job["worker"]  k == job'["worker"]
              IN  \/ j.block = j.ancestor /\ k = [j EXCEPT !.pc = "replay"]
                  \/ /\ j.block # j.ancestor /\ j.block \in Blocks /\ undo[j.block].kept
                     /\ k = [j EXCEPT !.pc = "u_blocks", !.undo = undo[j.block]]
                  \/ k.pc \in {"idle", "reweigh"} /\ k.mode = "none"
<1> DEFINE j == job["worker"]
<1>0. "worker" \in Tasks /\ "miner" \in Tasks BY DEF Tasks
<1>1. j \in JobRecords /\ JobShape(j) /\ j.pc = "unwind" BY TypeFacts DEF Unwind
<1>2. j.block \in Heads /\ j.mode = "reorg" /\ j.target \in Blocks /\ j.ancestor \in ChainOf(j.block) \cup {Genesis}
      /\ j.ancestor \in ChainOf(j.target) \cup {Genesis}
  BY <1>1 DEF JobShape, Undoing
<1>3. j.block # j.ancestor => j.block \in Blocks
  BY <1>2 DEF Heads, ChainOf
<1>4. CASE j.block = j.ancestor /\ Goto("worker", "replay") /\ UNCHANGED barred
  <2> DEFINE k == [j EXCEPT !.pc = "replay"]
  <2>1. "replay" \in Pcs BY DEF Pcs, Reorging
  <2>2. k.pc = "replay" /\ k.mode = j.mode /\ k.block = j.block /\ k.target = j.target /\ k.ancestor = j.ancestor
    BY <1>1, <2>1, JobPc
  <2>2a. HeightOf[j.block] \in Nat BY <1>2, HeightFacts
  <2>3. JobShape(k)
    <3> HIDE DEF k, j
    <3> QED BY <1>1, <1>2, <2>2, <2>2a, <1>4 DEF JobShape, Forward, Applying, Undoing
  <2>4. job' \in [Tasks -> JobRecords] /\ JobsShape' /\ job'["worker"] = k /\ job'["miner"] = job["miner"]
    BY <1>0, <1>4, <2>1, <2>3, GotoType
  <2>5. TypeInv' BY <1>4, <2>4 DEF TypeInv, TypeOK, Unwind, QueueShape, trees, loop, history
  <2> QED BY <1>2, <1>4, <2>4, <2>5
<1>5. CASE j.block # j.ancestor /\ undo[j.block].kept /\ SetJob("worker", [j EXCEPT !.pc = "u_blocks", !.undo = undo[j.block]]) /\ UNCHANGED barred
  <2> DEFINE u == undo[j.block] k == [j EXCEPT !.pc = "u_blocks", !.undo = u]
  <2>1. u \in Undos BY <1>3, <1>5, TypeFacts
  <2>2. job' = [job EXCEPT !["worker"] = k] BY <1>5 DEF SetJob
  <2> HIDE DEF u
  <2>3. k \in JobRecords /\ k.pc = "u_blocks" /\ k.mode = j.mode /\ k.block = j.block /\ k.target = j.target /\ k.ancestor = j.ancestor
    <3> HIDE DEF j
    <3> QED BY <1>1, <2>1 DEF JobRecords, Reorging
  <2>4. JobShape(k)
    <3> HIDE DEF k, j
    <3> QED BY <1>1, <1>2, <1>3, <2>3, <1>5 DEF JobShape, Forward, Applying, Undoing
  <2>5. job' \in [Tasks -> JobRecords] /\ JobsShape' /\ job'["worker"] = k /\ job'["miner"] = job["miner"]
    <3>1. k.mode # "mine" BY <2>3, <1>2
    <3> HIDE DEF k, j
    <3> QED BY <2>2, <2>3, <2>4, <3>1, TypeFacts, SetJobType
  <2>6. TypeInv' BY <1>5, <2>5 DEF TypeInv, TypeOK, Unwind, QueueShape, trees, loop, history
  <2> QED BY <1>2, <1>3, <1>5, <2>5, <2>6 DEF u
<1>6. CASE Done("worker") /\ barred' = (barred \/ j.backfill)
  <2>1. UNCHANGED <<trees, caac, queue, orphans, requests, prunes, history>> BY DEF Unwind
  <2> QED BY <2>1, <1>2, <1>6, TypeDone
<1> QED BY <1>4, <1>5, <1>6 DEF Unwind

\* The writes of an undo keep the shape of the task.
LEMMA NextUndoing ==
    ASSUME NEW j \in JobRecords, JobShape(j), j.pc \in Undoing, NEW p \in Undoing
    PROVE  JobShape([j EXCEPT !.pc = p]) /\ p \in Pcs
<1> DEFINE k == [j EXCEPT !.pc = p]
<1>1. p \in Pcs BY DEF Pcs, Undoing, Reorging
<1>2. k \in JobRecords /\ k.pc = p /\ k.mode = j.mode /\ k.block = j.block /\ k.target = j.target
      /\ k.ancestor = j.ancestor /\ k.tips = j.tips
  BY <1>1, JobPc
<1> HIDE DEF k
<1>3. JobShape(k)
  BY <1>2 DEF JobShape, Forward, Applying, Undoing
<1> QED BY <1>1, <1>3 DEF k

\* The next write of an undo.
LEMMA UndoGoto ==
    ASSUME TypeInv, job["worker"].pc \in Undoing, NEW p \in Undoing, Goto("worker", p)
    PROVE  /\ job' \in [Tasks -> JobRecords] /\ JobsShape' /\ job'["worker"] = [job["worker"] EXCEPT !.pc = p]
           /\ job'["miner"] = job["miner"] /\ job["worker"].block \in Blocks /\ job["worker"].undo \in Undos
<1>0. "worker" \in Tasks /\ "miner" \in Tasks BY DEF Tasks
<1>1. job["worker"] \in JobRecords /\ JobShape(job["worker"]) BY TypeFacts
<1>2. JobShape([job["worker"] EXCEPT !.pc = p]) /\ p \in Pcs BY <1>1, NextUndoing
<1>3. job["worker"].block \in Blocks /\ job["worker"].undo \in Undos BY <1>1 DEF JobShape, JobRecords
<1> QED BY <1>0, <1>2, <1>3, GotoType

\* The writes of apply_block_undo keep the types.
LEMMA TypeUndo ==
    ASSUME TypeInv, UndoBlocks \/ UndoCanonical \/ UndoTip \/ UndoMeta \/ UndoBalances
    PROVE  TypeInv' /\ job'["miner"] = job["miner"]
<1> DEFINE b == job["worker"].block u == job["worker"].undo
<1>1. CASE UndoBlocks
  <2>1. job' \in [Tasks -> JobRecords] /\ JobsShape' /\ job'["miner"] = job["miner"] /\ b \in Blocks /\ u \in Undos
    BY <1>1, UndoGoto DEF UndoBlocks, Undoing
  <2>2. summary' \in [Heights -> Blocks \cup {None}] BY <1>1, <2>1, HeightFacts DEF UndoBlocks, TypeInv, TypeOK, Undos
  <2> QED BY <1>1, <2>1, <2>2 DEF UndoBlocks, TypeInv, TypeOK, QueueShape, loop, history
<1>2. CASE UndoCanonical
  <2>1. job' \in [Tasks -> JobRecords] /\ JobsShape' /\ job'["miner"] = job["miner"] /\ b \in Blocks /\ u \in Undos
    BY <1>2, UndoGoto DEF UndoCanonical, Undoing
  <2>2. canon' \in [Heights -> Blocks \cup {None}] BY <1>2, <2>1, HeightFacts DEF UndoCanonical, TypeInv, TypeOK, Undos
  <2> QED BY <1>2, <2>1, <2>2 DEF UndoCanonical, TypeInv, TypeOK, QueueShape, loop, history
<1>3. CASE UndoTip
  <2>1. job' \in [Tasks -> JobRecords] /\ JobsShape' /\ job'["miner"] = job["miner"] /\ b \in Blocks /\ u \in Undos
    BY <1>3, UndoGoto DEF UndoTip, Undoing
  <2>2. tip' \in Tips BY <1>3, <2>1 DEF UndoTip, Undos
  <2> QED BY <1>3, <2>1, <2>2 DEF UndoTip, TypeInv, TypeOK, QueueShape, loop, history
<1>4. CASE UndoMeta
  <2>1. job' \in [Tasks -> JobRecords] /\ JobsShape' /\ job'["miner"] = job["miner"] /\ b \in Blocks /\ u \in Undos
    BY <1>4, UndoGoto DEF UndoMeta, Undoing
  <2>2. height' \in Heights \cup {0} BY <1>4, <2>1 DEF UndoMeta, Undos
  <2> QED BY <1>4, <2>1, <2>2 DEF UndoMeta, TypeInv, TypeOK, QueueShape, loop, history
<1>5. CASE UndoBalances
  <2>1. job' \in [Tasks -> JobRecords] /\ JobsShape' /\ job'["miner"] = job["miner"] /\ b \in Blocks /\ u \in Undos
    BY <1>5, UndoGoto DEF UndoBalances, Undoing
  <2>2. state' \in States BY <1>5, <2>1 DEF UndoBalances, Undos, States
  <2> QED BY <1>5, <2>1, <2>2 DEF UndoBalances, TypeInv, TypeOK, QueueShape, loop, history
<1> QED BY <1>1, <1>2, <1>3, <1>4, <1>5

\* The rows of blocks_by_id.
RowRecords == [known : BOOLEAN, canonical : BOOLEAN, weight : Nat]

\* Clearing the canonical flag keeps the types and steps down to the parent.
LEMMA TypeUndoFlag ==
    ASSUME TypeInv, UndoFlag
    PROVE  /\ TypeInv' /\ job'["miner"] = job["miner"] /\ job["worker"].block \in Blocks
           /\ job'["worker"] \in JobRecords
           /\ LET j == job["worker"]  k == job'["worker"]
              IN  k.pc = "unwind" /\ k.mode = "reorg" /\ k.block = Parent[j.block] /\ k.target = j.target /\ k.ancestor = j.ancestor
           /\ \A c \in Blocks : rows'[c].known = rows[c].known
<1> DEFINE j == job["worker"] b == j.block p == Parent[b] k == [j EXCEPT !.pc = "unwind", !.block = p, !.undo = NoUndo]
<1>1. j \in JobRecords /\ JobShape(j) /\ j.pc = "u_flag" BY TypeFacts DEF UndoFlag
<1>2. /\ b \in Blocks /\ b # j.ancestor /\ j.mode = "reorg" /\ j.target \in Blocks
      /\ j.ancestor \in ChainOf(b) \cup {Genesis} /\ j.ancestor \in ChainOf(j.target) \cup {Genesis}
  BY <1>1 DEF JobShape, Undoing
<1>3. p \in Heads /\ j.ancestor \in ChainOf(p) \cup {Genesis}
  BY <1>2, HeightFacts, ChainNext
<1>4. job' = [job EXCEPT !["worker"] = k] BY Zenon DEF UndoFlag, SetJob
<1>5. rows' = [rows EXCEPT ![b].canonical = FALSE] BY DEF UndoFlag
<1>6. rows \in [Blocks -> RowRecords] BY DEF TypeInv, TypeOK, RowRecords
<1>7. rows' \in [Blocks -> RowRecords] /\ \A c \in Blocks : rows'[c].known = rows[c].known
  <2> HIDE DEF b
  <2> QED BY <1>2, <1>5, <1>6 DEF RowRecords
<1>8. k \in JobRecords /\ k.pc = "unwind" /\ k.mode = j.mode /\ k.block = p /\ k.target = j.target /\ k.ancestor = j.ancestor
  <2>1. PICK u : u = NoUndo OBVIOUS
  <2>2. k = [j EXCEPT !.pc = "unwind", !.block = p, !.undo = u] /\ u \in Undos BY <2>1, NoUndoType
  <2> HIDE DEF k, j, p
  <2> QED BY <1>1, <1>3, <2>2 DEF JobRecords, Reorging, Heads
<1>9. JobShape(k)
  <2> HIDE DEF k, j, p
  <2> QED BY <1>2, <1>3, <1>8 DEF JobShape, Forward, Applying, Undoing
<1>10. job' \in [Tasks -> JobRecords] /\ JobsShape' /\ job'["worker"] = k /\ job'["miner"] = job["miner"]
  <2>1. k.mode # "mine" BY <1>2, <1>8
  <2> HIDE DEF k, j
  <2> QED BY <1>4, <1>8, <1>9, <2>1, TypeFacts, SetJobType
<1>11. TypeInv' BY <1>7, <1>10 DEF TypeInv, TypeOK, UndoFlag, QueueShape, RowRecords, loop, history
<1> HIDE DEF k
<1> QED BY <1>2, <1>7, <1>8, <1>10, <1>11

\* Replaying takes the child of the last block on the branch, or ends the reorg.
LEMMA TypeReplay ==
    ASSUME TypeInv, Replay
    PROVE  /\ TypeInv' /\ job'["miner"] = job["miner"] /\ job'["worker"] \in JobRecords
           /\ \/ job'["worker"].pc \in {"idle", "reweigh"} /\ job'["worker"].mode = "none" /\ undo' = undo
              \/ \E b \in Blocks :
                   /\ b \in Chain[job["worker"].target] /\ StoreUndo(b)
                   /\ HeightOf[b] = HeightOf[job["worker"].block] + 1
                   /\ Parent[b] = job["worker"].block
                   /\ LET j == job["worker"]  k == job'["worker"]
                      IN  k.pc = "balances" /\ k.mode = "reorg" /\ k.block = b /\ k.target = j.target /\ k.ancestor = j.ancestor
                          /\ k.branch = j.branch /\ k.old = j.old
<1> DEFINE j == job["worker"]
<1>0. "worker" \in Tasks /\ "miner" \in Tasks BY DEF Tasks
<1>1. j \in JobRecords /\ JobShape(j) /\ j.pc = "replay" BY TypeFacts DEF Replay
<1>2. j.mode = "reorg" /\ j.target \in Blocks /\ j.block \in ChainOf(j.target) \cup {Genesis} /\ HeightOf[j.block] >= HeightOf[j.ancestor]
      /\ j.ancestor \in ChainOf(j.target) \cup {Genesis}
  BY <1>1 DEF JobShape, Forward
<1>2a. ChainOf(j.target) = Chain[j.target] /\ Chain[j.target] \subseteq Blocks BY <1>2, ChainNext, ChainFacts DEF Descends
<1>3. CASE j.block = j.target
  <2>1. Done("worker") /\ orphans' \in {orphans, orphans \ {j.target}} /\ UNCHANGED undo BY <1>3 DEF Replay
  <2>2. /\ job' \in [Tasks -> JobRecords] /\ JobsShape' /\ job'["worker"].pc \in {"idle", "reweigh"} /\ job'["worker"].mode = "none"
        /\ job'["miner"] = job["miner"]
    BY <1>0, <2>1, DoneType
  <2>3. TypeInv' BY <2>1, <2>2 DEF TypeInv, TypeOK, Replay, QueueShape, history
  <2> QED BY <2>1, <2>2, <2>3, <1>0
<1>4. CASE j.block # j.target
  <2>1. PICK b \in Chain[j.target] : /\ HeightOf[b] = HeightOf[j.block] + 1 /\ StoreUndo(b)
                                     /\ SetJob("worker", [j EXCEPT !.pc = "balances", !.block = b])
                                     /\ UNCHANGED orphans
    BY <1>4 DEF Replay
  <2>2. b \in Blocks BY <2>1, <1>2a
  <2>3. Parent[b] = j.block
    <3>1. Parent[b] \in Chain[j.target] \cup {Genesis} BY <2>1, <1>2, ChainFacts DEF Descends
    <3>2. HeightOf[Parent[b]] = HeightOf[j.block] /\ j.block \in Heads /\ HeightOf[j.block] \in Nat
      BY <2>1, <2>2, <1>2, <1>2a, HeightFacts DEF Heads
    <3>3. \A c \in Blocks : HeightOf[c] # 0 BY HeightFacts
    <3>4. HeightOf[Genesis] = 0 BY HeightFacts
    <3>5. CASE j.block = Genesis \/ Parent[b] = Genesis BY <3>1, <3>2, <3>3, <3>4, <3>5, <1>2, <1>2a
    <3>6. CASE j.block # Genesis /\ Parent[b] # Genesis
      BY <3>1, <3>2, <3>6, <1>2, <1>2a, ChainFacts DEF Descends
    <3> QED BY <3>5, <3>6
  <2>4. undo' \in [Blocks -> Undos] BY <2>1, <2>2, StoreUndoType
  <2> DEFINE k == [j EXCEPT !.pc = "balances", !.block = b]
  <2>5. job' = [job EXCEPT !["worker"] = k] BY <2>1 DEF SetJob
  <2>6. k \in JobRecords /\ k.pc = "balances" /\ k.mode = j.mode /\ k.block = b /\ k.target = j.target /\ k.ancestor = j.ancestor
        /\ k.branch = j.branch /\ k.old = j.old
    <3> HIDE DEF j
    <3> QED BY <1>1, <2>2 DEF JobRecords, Applying
  <2>7. HeightOf[b] >= HeightOf[j.ancestor]
    <3>1. j.ancestor \in Heads /\ j.block \in Heads BY <1>2, <1>2a DEF Heads
    <3> QED BY <3>1, <2>1, <1>2, HeightFacts
  <2>8. JobShape(k)
    <3> HIDE DEF k, j
    <3> QED BY <1>2, <1>2a, <2>1, <2>2, <2>6, <2>7 DEF JobShape, Forward, Applying, Undoing
  <2>9. job' \in [Tasks -> JobRecords] /\ JobsShape' /\ job'["worker"] = k /\ job'["miner"] = job["miner"]
    <3>1. k.mode # "mine" BY <1>2, <2>6
    <3> HIDE DEF k, j
    <3> QED BY <2>5, <2>6, <2>8, <3>1, TypeFacts, SetJobType
  <2>10. TypeInv' BY <2>1, <2>4, <2>9 DEF TypeInv, TypeOK, Replay, QueueShape, history
  <2> HIDE DEF k
  <2>11. \E c \in Blocks :
                   /\ c \in Chain[job["worker"].target] /\ StoreUndo(c)
                   /\ HeightOf[c] = HeightOf[job["worker"].block] + 1
                   /\ Parent[c] = job["worker"].block
                   /\ k.pc = "balances" /\ k.mode = "reorg" /\ k.block = c /\ k.target = j.target /\ k.ancestor = j.ancestor
                          /\ k.branch = j.branch /\ k.old = j.old
    BY <1>2, <2>1, <2>2, <2>3, <2>6
  <2> QED BY <2>6, <2>9, <2>10, <2>11
<1> QED BY <1>3, <1>4

\* Weighing a branch again keeps the types and forgets no row.
LEMMA TypeReweigh ==
    ASSUME TypeInv, ReweighBranch
    PROVE  /\ TypeInv' /\ job'["miner"] = job["miner"] /\ job'["worker"].pc = "choose" /\ job'["worker"].mode = "none"
           /\ \A c \in Blocks : rows[c].known => rows'[c].known
<1> DEFINE j == job["worker"] a == CommonAncestor(j.target) R == Branch(a, j.target)
           f == [c \in Blocks |-> caac[Producer[c]]]
           W(b) == Reweighed(b, a, j.target)
<1>0. "worker" \in Tasks /\ "miner" \in Tasks BY DEF Tasks
<1>1. j \in JobRecords /\ JobShape(j) /\ j.pc = "reweigh" BY TypeFacts DEF ReweighBranch
<1>2. j.target \in Blocks /\ tip.block \in Blocks /\ j.mode = "none"
  BY <1>1 DEF JobShape, ReweighBranch, TypeInv, TypeOK, Tips
<1>3. a \in Blocks \cup {Genesis} BY <1>2, CommonAncestorIn
<1>4. \A c \in Blocks : f[c] \in Nat BY TypeFacts
<1>5. ASSUME NEW b \in Blocks PROVE W(b) \in Nat
  <2> DEFINE S == {c \in R : HeightOf[c] <= HeightOf[b]}
  <2>1. S \subseteq Blocks BY <1>2, ChainFacts DEF Branch, Descends
  <2>2. IsFiniteSet(S) BY <2>1, FS_Subset, ForkChoiceAssumption
  <2>3. \A c \in S : f[c] \in Nat BY <2>1, <1>4
  <2>4. W(b) = (IF a = Genesis THEN 0 ELSE rows[a].weight) + SumFunctionOnSet(f, S)
    BY DEF Reweighed
  <2> HIDE DEF S, f, a, W
  <2>5. SumFunctionOnSet(f, S) \in Nat BY <2>2, <2>3, SumNat
  <2>6. (IF a = Genesis THEN 0 ELSE rows[a].weight) \in Nat BY <1>3, TypeFacts
  <2> QED BY <2>4, <2>5, <2>6
<1>6. rows' = [b \in Blocks |-> IF b \in R THEN [known |-> TRUE, canonical |-> FALSE, weight |-> W(b)] ELSE rows[b]]
  BY DEF ReweighBranch
<1>7. rows \in [Blocks -> RowRecords] BY DEF TypeInv, TypeOK, RowRecords
<1> HIDE DEF W, R
<1>8. \A b \in Blocks : rows'[b] \in RowRecords /\ (rows[b].known => rows'[b].known)
  <2> SUFFICES ASSUME NEW b \in Blocks PROVE rows'[b] \in RowRecords /\ (rows[b].known => rows'[b].known)
    OBVIOUS
  <2>1. rows'[b] = IF b \in R THEN [known |-> TRUE, canonical |-> FALSE, weight |-> W(b)] ELSE rows[b] BY <1>6
  <2>2. PICK w : w = W(b) /\ w \in Nat BY <1>5
  <2>3. CASE b \in R
    <3>1. rows'[b] = [known |-> TRUE, canonical |-> FALSE, weight |-> w] BY <2>1, <2>2, <2>3
    <3> QED BY <3>1, <2>2 DEF RowRecords
  <2>4. CASE b \notin R BY <2>1, <2>4, <1>7
  <2> QED BY <2>3, <2>4
<1>9. rows' \in [Blocks -> RowRecords] BY <1>6, <1>8
<1> DEFINE k == [j EXCEPT !.pc = "choose"]
<1>10. "choose" \in Pcs BY DEF Pcs, Reorging
<1>11. k.pc = "choose" /\ k.mode = j.mode /\ k.target = j.target BY <1>1, <1>10, JobPc
<1>12. JobShape(k)
  <2> HIDE DEF k, j
  <2> QED BY <1>2, <1>11 DEF JobShape, Forward, Applying, Undoing
<1>13. job' \in [Tasks -> JobRecords] /\ JobsShape' /\ job'["worker"] = k /\ job'["miner"] = job["miner"]
  <2>1. Goto("worker", "choose") BY DEF ReweighBranch
  <2> QED BY <1>0, <1>10, <1>12, <2>1, GotoType
<1>14. TypeInv' BY <1>9, <1>13 DEF TypeInv, TypeOK, ReweighBranch, QueueShape, RowRecords, loop, history
<1> HIDE DEF k
<1> QED BY <1>2, <1>8, <1>11, <1>13, <1>14

\* Leaving a branch writes no tree.
LEMMA TypeStop ==
    ASSUME TypeInv, LeaveBranch \/ KeepBranch \/ ReplayRefused
    PROVE  /\ TypeInv' /\ job'["worker"].pc \in {"idle", "reweigh"} /\ job'["worker"].mode = "none" /\ job'["miner"] = job["miner"]
           /\ UNCHANGED <<trees, prunes, crashes>>
<1>1. Done("worker") /\ UNCHANGED <<trees, caac, queue, orphans, requests, prunes, history>>
  BY DEF LeaveBranch, KeepBranch, ReplayRefused
<1>2. barred' \in BOOLEAN BY DEF LeaveBranch, KeepBranch, ReplayRefused
<1> QED BY <1>1, <1>2, TypeDone DEF history

\* Preparing a block keeps the types.
LEMMA TypePrepare ==
    ASSUME TypeInv, NEW b \in Blocks, PrepareBlock(b)
    PROVE  TypeInv' /\ job'["miner"] = StartedJob("mine", b, state) /\ job'["worker"] = job["worker"]
<1> DEFINE k == StartedJob("mine", b, state)
<1>1. state \in States BY DEF TypeInv, TypeOK
<1>2. k \in JobRecords /\ JobShape(k) /\ k.mode = "mine" /\ k.tips = <<>> /\ k.pc = "balances" BY <1>1, StartJob
<1>3. job' = [job EXCEPT !["miner"] = k] BY DEF PrepareBlock, SetJob, StartedJob
<1>3a. "balances" \in Applying BY DEF Applying
<1> HIDE DEF k
<1>4. job' \in [Tasks -> JobRecords] /\ JobsShape' /\ job'["miner"] = k /\ job'["worker"] = job["worker"]
  BY <1>2, <1>3, <1>3a, TypeFacts, SetJobType
<1>5. undo' \in [Blocks -> Undos] BY StoreUndoType DEF PrepareBlock
<1>6. TypeInv' BY <1>4, <1>5 DEF TypeInv, TypeOK, PrepareBlock, QueueShape, loop, history
<1> QED BY <1>4, <1>6 DEF k

\* A completed challenge keeps the types.
LEMMA TypeCaac ==
    ASSUME TypeInv, NEW v \in Validators, NEW w \in Weights, CaacComplete(v, w)
    PROVE  TypeInv'
BY DEF TypeInv, TypeOK, CaacComplete, QueueShape, JobsShape, JobShape, Forward, trees, loop

\* A crash keeps the types.
LEMMA TypeCrash ==
    ASSUME TypeInv, CrashRestart
    PROVE  TypeInv'
<1>1. PICK i : i = IdleJob OBVIOUS
<1>2. i \in JobRecords /\ JobShape(i) /\ i.pc = "idle" /\ i.mode = "none" /\ i.tips = <<>> BY <1>1, IdleType
<1>3. job' = [t \in Tasks |-> i] BY <1>1 DEF CrashRestart
<1>4. job' \in [Tasks -> JobRecords] /\ job'["worker"] = i /\ job'["miner"] = i /\ \A t \in Tasks : job'[t] = i
  BY <1>2, <1>3 DEF Tasks
<1>5. JobsShape'
  <2>1. \A t \in Tasks : JobShape(job'[t]) BY <1>2, <1>4
  <2>2. job'["worker"].mode # "mine" /\ job'["miner"].pc \in {"idle"} \cup Applying /\ job'["miner"].tips = <<>>
        /\ job'["miner"].mode \in {"none", "mine"}
    BY <1>2, <1>4
  <2> QED BY <2>1, <2>2 DEF JobsShape, JobShape, Forward
<1>6. queue' \in Seq(QueueJobs) /\ QueueShape(queue') BY DEF CrashRestart, QueueShape
<1> QED BY <1>4, <1>5, <1>6 DEF TypeInv, TypeOK, CrashRestart, trees

\* A block offered to the worker.
LEMMA BlockJobType == ASSUME NEW b \in Blocks PROVE BlockJob(b) \in QueueJobs /\ BlockJob(b).kind = "block" /\ BlockJob(b).block = b
BY DEF BlockJob, QueueJobs

\* A gossiped or fetched block keeps the types.
LEMMA TypeGossip ==
    ASSUME TypeInv, NEW b \in Blocks, GossipBlock(b) \/ FetchedBlock(b)
    PROVE  TypeInv'
<1>1. PICK q : q = BlockJob(b) OBVIOUS
<1>2. q \in QueueJobs /\ q.kind = "block" /\ q.block \in Blocks BY <1>1, BlockJobType
<1>3. Append(queue, q) \in Seq(QueueJobs) /\ QueueShape(Append(queue, q)) BY <1>2, QueueAppend
<1>4. queue' \in {queue, Append(queue, q)} BY <1>1 DEF GossipBlock, FetchedBlock
<1>5. UNCHANGED <<trees, caac, job, loop, prunes>> BY DEF GossipBlock, FetchedBlock
<1> QED BY <1>3, <1>4, <1>5 DEF TypeInv, TypeOK, JobsShape, JobShape, Forward, trees, loop

\* Recording an orphan keeps the types.
LEMMA TypeOrphan ==
    ASSUME TypeInv, NEW b \in Blocks, GossipOrphan(b)
    PROVE  TypeInv'
<1>1. rows' \in [Blocks -> [known : BOOLEAN, canonical : BOOLEAN, weight : Nat]] BY CandidateType DEF GossipOrphan
<1>2. Parent[b] \in Blocks
  BY HeightFacts DEF GossipOrphan, Known, Heads
<1>3. requests' \subseteq [block : Blocks, depth : Nat] /\ orphans' \subseteq Blocks
  BY <1>2 DEF GossipOrphan, TypeInv, TypeOK
<1> QED BY <1>1, <1>3 DEF TypeInv, TypeOK, GossipOrphan, QueueShape, JobsShape, JobShape, Forward

\* Refusing a candidate, and expiry, keep the types.
LEMMA TypeRefuse ==
    ASSUME TypeInv, NEW b \in Blocks, RefuseCandidate(b) \/ OrphanExpires(b) \/ BarExpires
    PROVE  TypeInv'
<1>1. UNCHANGED <<trees, caac, queue, job, requests, prunes>> BY DEF RefuseCandidate, OrphanExpires, BarExpires
<1>2. barred' \in BOOLEAN /\ orphans' \subseteq Blocks
  BY DEF RefuseCandidate, OrphanExpires, BarExpires, TypeInv, TypeOK
<1> QED BY <1>1, <1>2 DEF TypeInv, TypeOK, QueueShape, JobsShape, JobShape, Forward, trees

\* A lost request keeps the types.
LEMMA TypeLost ==
    ASSUME TypeInv, NEW r \in requests, BackfillLost(r)
    PROVE  TypeInv'
<1>1. barred' \in BOOLEAN BY DEF BackfillLost, TypeInv, TypeOK
<1> QED BY <1>1 DEF BackfillLost, TypeInv, TypeOK, QueueShape, JobsShape, JobShape, Forward, trees

\* A served parent keeps the types.
LEMMA TypeServed ==
    ASSUME TypeInv, NEW r \in requests, BackfillServed(r)
    PROVE  TypeInv'
<1> DEFINE b == r.block
<1>1. b \in Blocks /\ r.depth \in Nat BY DEF TypeInv, TypeOK
<1>2. rows' \in [Blocks -> [known : BOOLEAN, canonical : BOOLEAN, weight : Nat]] BY <1>1, CandidateType DEF BackfillServed
<1>3. queue' \in Seq(QueueJobs) /\ QueueShape(queue') /\ requests' \subseteq [block : Blocks, depth : Nat] /\ barred' \in BOOLEAN
  <2>1. CASE Known(Parent[b])
    <3> DEFINE children == {o \in orphans : Parent[o] = b}
    <3>1. PICK order \in SetToSeqs(children) :
                    queue' = IF Len(queue) < QueueCap
                             THEN Append(queue, ReorgJob(Append(order, b))) ELSE queue
      BY <2>1 DEF BackfillServed
    <3>2. requests' = requests \ {r} /\ UNCHANGED barred BY <2>1 DEF BackfillServed
    <3>3. order \in Seq(Blocks)
      <4>1. order \in [1..Cardinality(children) -> children] BY <3>1 DEF SetToSeqs
      <4>2. children \subseteq Blocks /\ IsFiniteSet(children)
        BY FS_Subset, ForkChoiceAssumption DEF TypeInv, TypeOK
      <4>3. Cardinality(children) \in Nat BY <4>2, FS_CardinalityType
      <4> HIDE DEF children
      <4>4. order \in [1..Cardinality(children) -> Blocks] BY <4>1, <4>2
      <4> QED BY <4>3, <4>4
    <3> DEFINE s == Append(order, b) q == ReorgJob(s)
    <3>4. s \in Seq(Blocks) /\ Len(s) = Len(order) + 1 /\ Len(order) \in Nat BY <3>3, <1>1
    <3> HIDE DEF s
    <3>5. s # <<>>
      <4>1. Len(s) # 0 BY <3>4
      <4>2. Len(<<>>) = 0 OBVIOUS
      <4> QED BY <4>1, <4>2
    <3>6. q \in QueueJobs /\ q.kind = "reorg" /\ q.tips = s BY <3>4 DEF ReorgJob, QueueJobs
    <3>7. queue' \in {queue, Append(queue, q)} BY <3>1 DEF s
    <3> HIDE DEF q
    <3>8. Append(queue, q) \in Seq(QueueJobs) /\ QueueShape(Append(queue, q)) BY <3>5, <3>6, QueueAppend
    <3> QED BY <3>2, <3>7, <3>8 DEF TypeInv, TypeOK
  <2>2. CASE ~Known(Parent[b])
    <3>1. Parent[b] \in Blocks BY <1>1, <2>2, HeightFacts DEF Known, Heads
    <3>2. /\ requests' = (requests \ {r}) \cup
                        (IF r.depth >= MaxBackfillDepth THEN {}
                         ELSE {[block |-> Parent[b], depth |-> r.depth + 1]})
          /\ barred' = (barred \/ r.depth >= MaxBackfillDepth) /\ UNCHANGED queue
      BY <2>2 DEF BackfillServed
    <3>3. [block |-> Parent[b], depth |-> r.depth + 1] \in [block : Blocks, depth : Nat] BY <3>1, <1>1
    <3> QED BY <3>2, <3>3 DEF TypeInv, TypeOK
  <2> QED BY <2>1, <2>2
<1> QED BY <1>2, <1>3 DEF BackfillServed, TypeInv, TypeOK, JobsShape, JobShape, Forward

\* The node starts within its types.
LEMMA TypeInitial == Init => TypeInv
<1> SUFFICES ASSUME Init PROVE TypeInv OBVIOUS
<1>1. PICK i : i = IdleJob OBVIOUS
<1>2. i \in JobRecords /\ JobShape(i) /\ i.pc = "idle" /\ i.mode = "none" /\ i.tips = <<>> BY <1>1, IdleType
<1>3. job = [t \in Tasks |-> i] BY <1>1 DEF Init
<1>4. job \in [Tasks -> JobRecords] /\ job["worker"] = i /\ job["miner"] = i /\ \A t \in Tasks : job[t] = i
  BY <1>2, <1>3 DEF Tasks
<1>5. JobsShape BY <1>2, <1>4 DEF JobsShape
<1>6. PICK u, r : u = NoUndo /\ r = NoRow OBVIOUS
<1>7. u \in Undos /\ r \in [known : BOOLEAN, canonical : BOOLEAN, weight : Nat] BY <1>6, NoUndoType DEF NoRow
<1>8. undo = [b \in Blocks |-> u] /\ rows = [b \in Blocks |-> r] /\ tip = NoTip BY <1>6 DEF Init
<1>9. queue \in Seq(QueueJobs) /\ QueueShape(queue) BY DEF Init, QueueShape
<1> QED BY <1>4, <1>5, <1>7, <1>8, <1>9, NoUndoType DEF Init, TypeInv, TypeOK, States

\* Every step keeps the types and the shape of the tasks.
LEMMA TypeStep == TypeInv /\ [Next]_vars => TypeInv'
<1> SUFFICES ASSUME TypeInv, [Next]_vars PROVE TypeInv' OBVIOUS
<1>1. CASE \E t \in Tasks : ApplyStep(t)
  BY <1>1, TypeApplyBalances, TypeApplyMeta, TypeRecordSummary, TypeRecordRow, TypeRecordCanonical, TypeRecordTip DEF ApplyStep
<1>2. CASE TakeStep
  BY <1>2, TypeSkip, TypeApplyNext, TypeSameHeightFork DEF TakeStep
<1>3. CASE ReorgStep
  BY <1>3, TypeTakeReorg, TypeReweigh, TypeStop, TypeChooseBranch, TypeUnwind, TypeUndo, TypeUndoFlag, TypeReplay DEF ReorgStep
<1>4. CASE LoopStep
  <2>1. CASE BarExpires
    <3>1. UNCHANGED <<trees, caac, queue, job, orphans, requests, prunes>> /\ barred' \in BOOLEAN BY <2>1 DEF BarExpires
    <3> QED BY <3>1 DEF TypeInv, TypeOK, QueueShape, JobsShape, JobShape, Forward, trees
  <2> QED BY <1>4, <2>1, TypeGossip, TypeOrphan, TypeRefuse, TypeServed, TypeLost DEF LoopStep
<1>5. CASE \E b \in Blocks : PrepareBlock(b)
  BY <1>5, TypePrepare
<1>6. CASE \E h \in prunes : PruneHistory(h)
  BY <1>6, PruneType
<1>7. CASE \E v \in Validators, w \in Weights : CaacComplete(v, w)
  BY <1>7, TypeCaac
<1>8. CASE CrashRestart
  BY <1>8, TypeCrash
<1>9. CASE UNCHANGED vars
  BY <1>9 DEF vars, trees, loop, history, TypeInv, TypeOK, QueueShape, JobsShape, JobShape, Forward
<1> QED BY <1>1, <1>2, <1>3, <1>4, <1>5, <1>6, <1>7, <1>8, <1>9 DEF Next

\* The six trees, the queue and the tasks' locals have their types in every state,
\* miners, crashes and all, for every tree of blocks.
THEOREM StoreIsTyped == Spec => []TypeOK
<1>1. TypeInv => TypeOK BY DEF TypeInv
<1> QED BY <1>1, TypeInitial, TypeStep, PTL DEF Spec

-----------------------------------------------------------------------------
(* A node that does not mine.                                                *)

\* What a job of the apply worker says about the store it left behind, whatever a crash does.
WorkerAt(j) ==
    /\ j.pc = "balances" /\ j.mode = "remote" => state = Parent[j.block] /\ j.block \notin BadRoots
    /\ j.mode = "reorg" => j.branch[j.target] > j.old
    /\ j.mode = "reorg" /\ j.pc \in {"canon", "tip"} => j.weight = j.branch[j.block]
    /\ j.pc = "replay" => j.block = j.ancestor \/ tip = [block |-> j.block, weight |-> j.branch[j.block]]

\* What a node that does not mine knows of its worker: a previewed block still stands on
\* the balances, and a reorg carries the weight it was chosen with.
FollowerInv == job["miner"].pc = "idle" /\ WorkerAt(job["worker"])

\* The writes of an apply keep it.
LEMMA FollowerApply ==
    ASSUME TypeInv, FollowerInv, NEW t \in Tasks, ApplyStep(t)
    PROVE  FollowerInv'
<1> DEFINE j == job["worker"] k == job'["worker"]
<1>0. "worker" \in Tasks /\ "miner" \in Tasks BY DEF Tasks
<1>1. t = "worker"
  BY DEF FollowerInv, ApplyStep, ApplyBalances, ApplyMeta, RecordSummary, RecordRow, RecordCanonical, RecordTip, Tasks
<1>2. j \in JobRecords /\ job \in [Tasks -> JobRecords] /\ JobShape(j) BY TypeFacts
<1>3. CASE ApplyBalances(t)
  <2> DEFINE s == IF j.mode = "mine" THEN state = j.base ELSE state = Parent[j.block] /\ j.block \notin BadRoots
  <2>1. job' = [job EXCEPT !["worker"] = [j EXCEPT !.pc = "meta", !.same = s]] BY <1>1, <1>3, Zenon DEF ApplyBalances, SetJob
  <2>2. UNCHANGED tip BY <1>3 DEF ApplyBalances
  <2> HIDE DEF s, j
  <2>3. k = [j EXCEPT !.pc = "meta", !.same = s] /\ job'["miner"] = job["miner"] BY <2>1, <1>0, <1>2
  <2>4. k.pc = "meta" /\ k.mode = j.mode /\ k.branch = j.branch /\ k.target = j.target /\ k.old = j.old BY <2>3, <1>2 DEF JobRecords
  <2> QED BY <2>3, <2>4 DEF FollowerInv, WorkerAt, j
<1>4. CASE ApplyMeta(t)
  <2>1. CASE Goto(t, "summary")
    <3>1. job' = [job EXCEPT !["worker"].pc = "summary"] BY <1>1, <2>1 DEF Goto
    <3>2. k = [j EXCEPT !.pc = "summary"] /\ job'["miner"] = job["miner"] BY <3>1, <1>0, <1>2
    <3> HIDE DEF j, k
    <3>3. k.pc = "summary" /\ k.mode = j.mode /\ k.branch = j.branch /\ k.target = j.target /\ k.old = j.old BY <3>2, <1>2 DEF JobRecords
    <3> QED BY <3>2, <3>3 DEF FollowerInv, WorkerAt, j, k
  <2>2. CASE Done(t)
    <3>1. k.pc \in {"idle", "reweigh"} /\ k.mode = "none" /\ job'["miner"] = job["miner"] BY <2>2, <1>1, <1>0, DoneType
    <3> HIDE DEF k
    <3> QED BY <3>1 DEF FollowerInv, k, WorkerAt
  <2> QED BY <1>4, <2>1, <2>2 DEF ApplyMeta
<1>5. CASE RecordSummary(t)
  <2>1. job' = [job EXCEPT !["worker"].pc = "row"] BY <1>1, <1>5 DEF Goto, RecordSummary
  <2>2. k = [j EXCEPT !.pc = "row"] /\ job'["miner"] = job["miner"] BY <2>1, <1>0, <1>2
  <2> HIDE DEF j, k
  <2>3. k.pc = "row" /\ k.mode = j.mode /\ k.branch = j.branch /\ k.target = j.target /\ k.old = j.old BY <2>2, <1>2 DEF JobRecords
  <2> QED BY <2>2, <2>3 DEF FollowerInv, WorkerAt, j, k
<1>6. CASE RecordRow(t)
  <2> DEFINE w == RowWeight(j)
  <2>1. k = [j EXCEPT !.pc = "canon", !.weight = w] /\ job'["miner"] = job["miner"] BY <1>0, <1>1, <1>6, RecordRowFacts
  <2>2. j.mode = "reorg" => w = j.branch[j.block] BY DEF RowWeight
  <2> HIDE DEF j, k, w
  <2>3. k.pc = "canon" /\ k.mode = j.mode /\ k.branch = j.branch /\ k.target = j.target /\ k.old = j.old /\ k.weight = w /\ k.block = j.block
    BY <2>1, <1>2 DEF JobRecords
  <2> QED BY <2>1, <2>2, <2>3 DEF FollowerInv, WorkerAt, j, k
<1>7. CASE RecordCanonical(t)
  <2>1. job' = [job EXCEPT !["worker"].pc = "tip"] BY <1>1, <1>7 DEF Goto, RecordCanonical
  <2>2. k = [j EXCEPT !.pc = "tip"] /\ job'["miner"] = job["miner"] /\ j.pc = "canon" BY <2>1, <1>0, <1>2, <1>1, <1>7 DEF RecordCanonical
  <2> HIDE DEF j, k
  <2>3. k.pc = "tip" /\ k.mode = j.mode /\ k.branch = j.branch /\ k.target = j.target /\ k.old = j.old /\ k.weight = j.weight /\ k.block = j.block
    BY <2>2, <1>2 DEF JobRecords
  <2> QED BY <2>2, <2>3 DEF FollowerInv, WorkerAt, j, k
<1>8. CASE RecordTip(t)
  <2>0. tip' = [block |-> j.block, weight |-> j.weight] /\ j.pc = "tip" BY <1>1, <1>8 DEF RecordTip
  <2>1. CASE j.mode = "reorg"
    <3>1. job' = [job EXCEPT !["worker"].pc = "replay"] BY <1>1, <1>8, <2>1 DEF Goto, RecordTip
    <3>2. k = [j EXCEPT !.pc = "replay"] /\ job'["miner"] = job["miner"] BY <3>1, <1>0, <1>2
    <3> HIDE DEF j, k
    <3>3. k.pc = "replay" /\ k.mode = j.mode /\ k.branch = j.branch /\ k.target = j.target /\ k.old = j.old /\ k.block = j.block
      BY <3>2, <1>2 DEF JobRecords
    <3>4. j.weight = j.branch[j.block] /\ j.branch[j.target] > j.old BY <2>0, <2>1 DEF FollowerInv, WorkerAt, j
    <3>5. tip' = [block |-> k.block, weight |-> k.branch[k.block]] BY <3>3, <3>4, <2>0
    <3> QED BY <3>2, <3>3, <3>4, <3>5 DEF FollowerInv, WorkerAt, j, k
  <2>2. CASE j.mode # "reorg"
    <3>1. Done(t) BY <1>1, <1>8, <2>2 DEF RecordTip
    <3>2. k.pc \in {"idle", "reweigh"} /\ k.mode = "none" /\ job'["miner"] = job["miner"] BY <3>1, <1>1, <1>0, DoneType
    <3> HIDE DEF k
    <3> QED BY <3>2 DEF FollowerInv, k, WorkerAt
  <2> QED BY <2>1, <2>2
<1> QED BY <1>3, <1>4, <1>5, <1>6, <1>7, <1>8 DEF ApplyStep

\* The steps of a reorg keep it.
LEMMA FollowerReorg ==
    ASSUME TypeInv, FollowerInv, ReorgStep
    PROVE  FollowerInv'
<1> DEFINE j == job["worker"] k == job'["worker"]
<1>0. "worker" \in Tasks /\ "miner" \in Tasks BY DEF Tasks
<1>2. j \in JobRecords /\ job \in [Tasks -> JobRecords] /\ JobShape(j) BY TypeFacts
<1>3. ASSUME k.pc \in {"idle", "reweigh", "choose"}, k.mode = "none", job'["miner"] = job["miner"] PROVE FollowerInv'
  <2> HIDE DEF k
  <2> QED BY <1>3 DEF FollowerInv, k, WorkerAt
<1>4. CASE TakeReorg BY <1>3, <1>4, TypeTakeReorg
<1>5. CASE ReweighBranch BY <1>3, <1>5, TypeReweigh
<1>6. CASE LeaveBranch \/ KeepBranch \/ ReplayRefused BY <1>3, <1>6, TypeStop
<1>7. CASE ChooseBranch
  <2>1. /\ k.pc = "unwind" /\ k.mode = "reorg" /\ k.block = tip.block /\ k.target = j.target /\ k.old = tip.weight
        /\ k.branch = [b \in Blocks |-> rows[b].weight] /\ job'["miner"] = job["miner"] /\ j.target \in Blocks
    BY <1>7, TypeChooseBranch
  <2>2. rows[j.target].weight > tip.weight BY <1>7 DEF ChooseBranch, Heavier
  <2>3. k.branch[k.target] > k.old BY <2>1, <2>2
  <2> HIDE DEF k, j
  <2> QED BY <2>1, <2>3 DEF FollowerInv, WorkerAt, k
<1>8. CASE Unwind
  <2>0. UNCHANGED tip BY <1>8 DEF Unwind, trees
  <2>1. job'["miner"] = job["miner"] /\ j.mode = "reorg" /\ j.pc = "unwind" BY <1>8, <1>2, TypeUnwind DEF JobShape, Unwind
  <2>2. CASE j.block = j.ancestor /\ k = [j EXCEPT !.pc = "replay"]
    <3> HIDE DEF k, j
    <3>1. k.pc = "replay" /\ k.mode = j.mode /\ k.branch = j.branch /\ k.target = j.target /\ k.old = j.old /\ k.block = j.block /\ k.ancestor = j.ancestor
      BY <2>2, <1>2 DEF JobRecords
    <3> QED BY <2>1, <2>2, <3>1 DEF FollowerInv, WorkerAt, k, j
  <2>3. CASE k = [j EXCEPT !.pc = "u_blocks", !.undo = undo[j.block]]
    <3> HIDE DEF k, j
    <3>1. k.pc = "u_blocks" /\ k.mode = j.mode /\ k.branch = j.branch /\ k.target = j.target /\ k.old = j.old
      BY <2>3, <1>2 DEF JobRecords
    <3> QED BY <2>1, <3>1 DEF FollowerInv, WorkerAt, k, j
  <2>4. CASE k.pc \in {"idle", "reweigh"} /\ k.mode = "none" BY <1>3, <2>1, <2>4
  <2>5. \/ j.block = j.ancestor /\ k = [j EXCEPT !.pc = "replay"]
        \/ k = [j EXCEPT !.pc = "u_blocks", !.undo = undo[j.block]]
        \/ k.pc \in {"idle", "reweigh"} /\ k.mode = "none"
    <3> HIDE DEF k, j
    <3> QED BY <1>8, TypeUnwind DEF k, j
  <2> QED BY <2>2, <2>3, <2>4, <2>5
<1>9. CASE UndoBlocks \/ UndoCanonical \/ UndoTip \/ UndoMeta \/ UndoBalances
  <2>1. PICK p \in Undoing : j.pc \in Undoing /\ Goto("worker", p)
    BY <1>9 DEF UndoBlocks, UndoCanonical, UndoTip, UndoMeta, UndoBalances, Undoing
  <2>2. k = [j EXCEPT !.pc = p] /\ job'["miner"] = job["miner"] /\ j.mode = "reorg" BY <2>1, <1>2, UndoGoto DEF JobShape
  <2> HIDE DEF k, j
  <2>3. k.pc = p /\ k.mode = j.mode /\ k.branch = j.branch /\ k.target = j.target /\ k.old = j.old
    BY <2>2, <1>2 DEF JobRecords
  <2> QED BY <2>1, <2>2, <2>3 DEF FollowerInv, WorkerAt, k, j, Undoing
<1>10. CASE UndoFlag
  <2>1. job' = [job EXCEPT !["worker"] = [j EXCEPT !.pc = "unwind", !.block = Parent[j.block], !.undo = NoUndo]] BY <1>10, Zenon DEF UndoFlag, SetJob
  <2>2. job'["miner"] = job["miner"] /\ k.pc = "unwind" /\ k.mode = "reorg" /\ j.mode = "reorg" BY <1>2, <1>10, TypeUndoFlag DEF UndoFlag, JobShape, Undoing
  <2> HIDE DEF j
  <2>3. k = [j EXCEPT !.pc = "unwind", !.block = Parent[j.block], !.undo = NoUndo] BY <2>1, <1>0, <1>2
  <2> HIDE DEF k
  <2>4. k.branch = j.branch /\ k.target = j.target /\ k.old = j.old BY <2>3, <1>2 DEF JobRecords
  <2> QED BY <2>2, <2>4 DEF FollowerInv, WorkerAt, k, j
<1>11. CASE Replay
  <2>1. job'["miner"] = job["miner"] BY <1>11, TypeReplay
  <2>2. CASE k.pc \in {"idle", "reweigh"} /\ k.mode = "none" BY <1>3, <2>1, <2>2
  <2>3. CASE k.pc = "balances" /\ k.mode = "reorg" /\ k.target = j.target /\ k.branch = j.branch /\ k.old = j.old
    <3>1. j.mode = "reorg" BY <1>2, <1>11 DEF JobShape, Replay
    <3> HIDE DEF k, j
    <3> QED BY <2>1, <2>3, <3>1 DEF FollowerInv, WorkerAt, k, j
  <2> QED BY <2>2, <2>3, <1>11, TypeReplay
<1> QED BY <1>4, <1>5, <1>6, <1>7, <1>8, <1>9, <1>10, <1>11 DEF ReorgStep

\* Every step keeps it, crashes included.
LEMMA FollowerStep ==
    ASSUME Mineable = {}, TypeInv, FollowerInv, [Next]_vars
    PROVE  FollowerInv'
<1> DEFINE j == job["worker"] k == job'["worker"]
<1>1. CASE \E t \in Tasks : ApplyStep(t) BY <1>1, FollowerApply
<1>2. CASE ReorgStep BY <1>2, FollowerReorg
<1>3. CASE TakeStep
  <2>1. PICK b \in Blocks : SkipBlock(b) \/ RejectBlock(b) \/ ApplyNext(b) \/ SameHeightFork(b) BY <1>3 DEF TakeStep
  <2>2. CASE SkipBlock(b) \/ RejectBlock(b)
    <3>1. UNCHANGED <<state, tip, job>> BY <2>2 DEF SkipBlock, RejectBlock, trees
    <3> QED BY <3>1 DEF FollowerInv, WorkerAt
  <2>3. CASE ApplyNext(b)
    <3>1. k = StartedJob("remote", b, state) /\ job'["miner"] = job["miner"] BY <2>3, TypeApplyNext
    <3>2. state \in States BY DEF TypeInv, TypeOK
    <3> HIDE DEF k
    <3>3. k.pc = "balances" /\ k.mode = "remote" /\ k.block = b BY <3>1, <3>2, StartJob
    <3>4. state' = Parent[b] /\ b \notin BadRoots BY <2>3 DEF ApplyNext
    <3> QED BY <3>1, <3>3, <3>4 DEF FollowerInv, WorkerAt, k
  <2>4. CASE SameHeightFork(b)
    <3>1. k.pc = "choose" /\ k.mode = "none" /\ job'["miner"] = job["miner"] BY <2>4, TypeSameHeightFork
    <3> HIDE DEF k
    <3> QED BY <3>1 DEF FollowerInv, WorkerAt, k
  <2> QED BY <2>1, <2>2, <2>3, <2>4
<1>4. CASE LoopStep
  <2>1. UNCHANGED <<state, tip, job>>
    BY <1>4 DEF LoopStep, GossipBlock, GossipOrphan, RefuseCandidate, FetchedBlock, OrphanExpires, BackfillServed, BackfillLost, BarExpires, trees
  <2> QED BY <2>1 DEF FollowerInv, WorkerAt
<1>5. CASE \E b \in Blocks : PrepareBlock(b)
  BY <1>5 DEF PrepareBlock
<1>6. CASE \E h \in prunes : PruneHistory(h)
  <2>1. UNCHANGED <<state, tip, job>> BY <1>6 DEF PruneHistory
  <2> QED BY <2>1 DEF FollowerInv, WorkerAt
<1>7. CASE \E v \in Validators, w \in Weights : CaacComplete(v, w)
  <2>1. UNCHANGED <<state, tip, job>> BY <1>7 DEF CaacComplete, trees
  <2> QED BY <2>1 DEF FollowerInv, WorkerAt
<1>8. CASE CrashRestart
  <2>1. PICK i : i = IdleJob OBVIOUS
  <2>2. i.pc = "idle" /\ i.mode = "none" BY <2>1, IdleType
  <2>3. job' = [t \in Tasks |-> i] BY <2>1, <1>8 DEF CrashRestart
  <2>4. job'["worker"] = i /\ job'["miner"] = i BY <2>3 DEF Tasks
  <2> QED BY <2>2, <2>4 DEF FollowerInv, WorkerAt
<1>9. CASE UNCHANGED vars
  <2>1. UNCHANGED <<state, tip, job>> BY <1>9 DEF vars, trees
  <2> QED BY <2>1 DEF FollowerInv, WorkerAt
<1> QED BY <1>1, <1>2, <1>3, <1>4, <1>5, <1>6, <1>7, <1>8, <1>9 DEF Next

\* It holds at first.
LEMMA FollowerInit == Init => FollowerInv
<1> SUFFICES ASSUME Init PROVE FollowerInv OBVIOUS
<1>1. PICK i : i = IdleJob OBVIOUS
<1>2. i.pc = "idle" /\ i.mode = "none" BY <1>1, IdleType
<1>3. job = [t \in Tasks |-> i] BY <1>1 DEF Init
<1>4. job["worker"] = i /\ job["miner"] = i BY <1>3 DEF Tasks
<1> QED BY <1>2, <1>4 DEF FollowerInv, WorkerAt

\* What may turn the balances into those of no chain.
LEMMA MisappliesStep ==
    ASSUME Mineable = {}, TypeInv, FollowerInv, Next, state # Junk, state' = Junk
    PROVE  job["worker"].mode = "reorg"
<1> DEFINE j == job["worker"]
<1>0. "worker" \in Tasks BY DEF Tasks
<1>2. j \in JobRecords /\ JobShape(j) BY TypeFacts
<1>1. state # state' OBVIOUS
<1>3. CASE \E t \in Tasks : ApplyStep(t)
  <2>1. PICK t \in Tasks : ApplyStep(t) BY <1>3
  <2>2. ApplyBalances(t) BY <2>1, <1>1 DEF ApplyStep, ApplyMeta, RecordSummary, RecordRow, RecordCanonical, RecordTip
  <2>3. t = "worker" /\ j.pc = "balances" BY <2>2 DEF ApplyBalances, FollowerInv, Tasks
  <2>4. state' = IF state = Parent[j.block] /\ j.block \notin BadRoots THEN j.block ELSE Junk BY <2>2, <2>3 DEF ApplyBalances
  <2>5. j.block \in Blocks /\ j.mode \in {"remote", "mine", "reorg"} /\ j.mode # "mine"
    BY <1>2, <2>3, TypeFacts DEF JobShape, Applying, JobsShape
  <2>6. CASE j.mode = "remote"
    <3>1. state = Parent[j.block] /\ j.block \notin BadRoots BY <2>3, <2>6 DEF FollowerInv, WorkerAt
    <3> QED BY <3>1, <2>4, <2>5, ForkChoiceAssumption
  <2> QED BY <2>5, <2>6
<1>4. CASE ReorgStep
  <2>1. UndoBalances
    BY <1>4, <1>1 DEF ReorgStep, TakeReorg, ReweighBranch, LeaveBranch, KeepBranch, ChooseBranch, Unwind, UndoBlocks, UndoCanonical, UndoTip, UndoMeta, UndoFlag, Replay, ReplayRefused, trees
  <2> QED BY <2>1, <1>2 DEF UndoBalances, JobShape, Undoing
<1>5. CASE TakeStep
  BY <1>5, <1>1 DEF TakeStep, SkipBlock, RejectBlock, ApplyNext, SameHeightFork, trees
<1>6. CASE LoopStep
  BY <1>6, <1>1 DEF LoopStep, GossipBlock, GossipOrphan, RefuseCandidate, FetchedBlock, OrphanExpires, BackfillServed, BackfillLost, BarExpires, trees
<1>7. CASE (\E b \in Blocks : PrepareBlock(b)) \/ (\E h \in prunes : PruneHistory(h)) \/ (\E v \in Validators, w \in Weights : CaacComplete(v, w)) \/ CrashRestart
  BY <1>7, <1>1 DEF PrepareBlock, PruneHistory, CaacComplete, CrashRestart, trees
<1> QED BY <1>3, <1>4, <1>5, <1>6, <1>7 DEF Next

\* On a node that does not mine, only a reorg turns the balances into those of no chain
\* (apply_remote_block_from_gossip_sync previews every other block), whatever crashes,
\* gossip and pruning interleave.
THEOREM ReplayAloneMisapplies ==
    ASSUME Mineable = {}
    PROVE  Spec => OnlyReplayMisapplies
<1> DEFINE Inv == TypeInv /\ FollowerInv
<1>1. Init => Inv BY TypeInitial, FollowerInit
<1>2. Inv /\ [Next]_vars => Inv' BY TypeStep, FollowerStep
<1>3. Inv /\ [Next]_vars => [state # Junk /\ state' = Junk => job["worker"].mode = "reorg"]_vars
  BY MisappliesStep
<1> QED BY <1>1, <1>2, <1>3, PTL DEF Spec, OnlyReplayMisapplies

\* On a node that does not mine, a reorg that replays a branch ends on a tip strictly
\* heavier than the tip it replaced (reorg_to_branch), although weights change while it
\* runs.
THEOREM ReorgsGainWeight ==
    ASSUME Mineable = {}
    PROVE  Spec => ReorgGainsWeight
<1> DEFINE Inv == TypeInv /\ FollowerInv
           Gains == job["worker"].pc = "replay" /\ job["worker"].block = job["worker"].target
                    /\ job["worker"].target # job["worker"].ancestor /\ job'["worker"].pc # "replay"
                    => tip.block = job["worker"].target /\ tip.weight > job["worker"].old
<1>1. Init => Inv BY TypeInitial, FollowerInit
<1>2. Inv /\ [Next]_vars => Inv' BY TypeStep, FollowerStep
<1>3. Inv => [Gains]_vars
  <2> SUFFICES ASSUME TypeInv, FollowerInv, job["worker"].pc = "replay", job["worker"].block = job["worker"].target,
                      job["worker"].target # job["worker"].ancestor
               PROVE  tip.block = job["worker"].target /\ tip.weight > job["worker"].old
    OBVIOUS
  <2> DEFINE j == job["worker"]
  <2>1. j \in JobRecords /\ JobShape(j) BY TypeFacts
  <2>2. j.mode = "reorg" BY <2>1 DEF JobShape
  <2>3. tip = [block |-> j.block, weight |-> j.branch[j.block]] /\ j.branch[j.target] > j.old BY <2>2 DEF FollowerInv, WorkerAt
  <2> QED BY <2>3
<1> QED BY <1>1, <1>2, <1>3, PTL DEF Spec, ReorgGainsWeight

-----------------------------------------------------------------------------
(* One task at a time.                                                       *)

\* A node that does not mine, or a miner nobody hands a block: the two tasks never meet.
Alone ==
    \/ Mineable = {}
    \/ /\ Served = {} /\ Fetched = {}
       /\ \A b \in Gossiped : Parent[b] # Genesis /\ Parent[b] \notin Gossiped \cup Mineable

\* The task that writes the store.
Busy == IF Mineable = {} THEN "worker" ELSE "miner"
\* The task that never does.
Other == IF Mineable = {} THEN "miner" ELSE "worker"

\* Only one of the two tasks ever runs.
LoneInv ==
    /\ job[Other].pc = "idle"
    /\ Mineable # {} =>
         /\ queue = <<>>
         /\ \A b \in Blocks : rows[b].known => b \in Gossiped \cup Mineable
         /\ job["miner"].pc # "idle" => job["miner"].block \in Mineable

\* A recorded row is never forgotten.
LEMMA KnownStays ==
    ASSUME TypeInv, [Next]_vars
    PROVE  \A c \in Blocks : rows[c].known => rows'[c].known
<1>1. CASE rows' = rows BY <1>1
<1>2. CASE \E t \in Tasks : ApplyStep(t)
  <2>1. PICK t \in Tasks : ApplyStep(t) BY <1>2
  <2>2. CASE RecordRow(t) BY <2>2, RecordRowFacts
  <2>3. CASE ~RecordRow(t)
    <3>1. rows' = rows BY <2>1, <2>3 DEF ApplyStep, ApplyBalances, ApplyMeta, RecordSummary, RecordCanonical, RecordTip
    <3> QED BY <3>1
  <2> QED BY <2>2, <2>3
<1>3. CASE TakeStep
  <2>1. PICK b \in Blocks : SkipBlock(b) \/ RejectBlock(b) \/ ApplyNext(b) \/ SameHeightFork(b) BY <1>3 DEF TakeStep
  <2>2. CASE SameHeightFork(b)
    <3>1. RecordCandidate(b) BY <2>2 DEF SameHeightFork
    <3> QED BY <3>1, CandidateType
  <2>3. CASE ~SameHeightFork(b)
    <3>1. rows' = rows BY <2>1, <2>3 DEF SkipBlock, RejectBlock, ApplyNext, trees
    <3> QED BY <3>1
  <2> QED BY <2>2, <2>3
<1>4. CASE ReorgStep
  <2>1. CASE ReweighBranch BY <2>1, TypeReweigh
  <2>2. CASE UndoFlag BY <2>2, TypeUndoFlag
  <2>3. CASE ~ReweighBranch /\ ~UndoFlag
    <3>1. rows' = rows
      BY <1>4, <2>3 DEF ReorgStep, TakeReorg, LeaveBranch, KeepBranch, ChooseBranch, Unwind, UndoBlocks, UndoCanonical, UndoTip, UndoMeta, UndoBalances, Replay, ReplayRefused, trees
    <3> QED BY <3>1
  <2> QED BY <2>1, <2>2, <2>3
<1>5. CASE LoopStep
  <2>1. ASSUME NEW b \in Blocks, GossipOrphan(b) PROVE \A c \in Blocks : rows[c].known => rows'[c].known
    <3>1. RecordCandidate(b) BY <2>1 DEF GossipOrphan
    <3> QED BY <3>1, CandidateType
  <2>2. ASSUME NEW r \in requests, BackfillServed(r) PROVE \A c \in Blocks : rows[c].known => rows'[c].known
    <3>1. RecordCandidate(r.block) /\ r.block \in Blocks BY <2>2 DEF BackfillServed, TypeInv, TypeOK
    <3> QED BY <3>1, CandidateType
  <2>3. CASE ~(\E b \in Blocks : GossipOrphan(b)) /\ ~(\E r \in requests : BackfillServed(r))
    <3>1. rows' = rows
      BY <1>5, <2>3 DEF LoopStep, GossipBlock, RefuseCandidate, FetchedBlock, OrphanExpires, BackfillLost, BarExpires, trees
    <3> QED BY <3>1
  <2> QED BY <2>1, <2>2, <2>3
<1>6. CASE (\E b \in Blocks : PrepareBlock(b)) \/ (\E h \in prunes : PruneHistory(h)) \/ (\E v \in Validators, w \in Weights : CaacComplete(v, w)) \/ CrashRestart
  <2>1. rows' = rows BY <1>6 DEF PrepareBlock, PruneHistory, CaacComplete, CrashRestart, trees
  <2> QED BY <2>1
<1>7. CASE UNCHANGED vars BY <1>7 DEF vars, trees
<1> QED BY <1>2, <1>3, <1>4, <1>5, <1>6, <1>7 DEF Next

\* Whose step an apply, a take or a reorg is.
LEMMA WhoActs ==
    ASSUME TypeInv, LoneInv
    PROVE  /\ \A t \in Tasks : ApplyStep(t) => t = Busy
           /\ TakeStep \/ ReorgStep => Mineable = {}
           /\ Busy \in Tasks /\ Other \in Tasks /\ Busy # Other /\ \A t \in Tasks : t = Busy \/ t = Other
<1>1. Busy \in Tasks /\ Other \in Tasks /\ Busy # Other /\ \A t \in Tasks : t = Busy \/ t = Other
  BY DEF Busy, Other, Tasks
<1>2. ASSUME NEW t \in Tasks, ApplyStep(t) PROVE t = Busy
  <2>1. job[t].pc # "idle" BY <1>2 DEF ApplyStep, ApplyBalances, ApplyMeta, RecordSummary, RecordRow, RecordCanonical, RecordTip
  <2> QED BY <1>1, <2>1 DEF LoneInv
<1>3. ASSUME TakeStep, Mineable # {} PROVE FALSE
  <2>1. queue # <<>> BY <1>3 DEF TakeStep, SkipBlock, RejectBlock, ApplyNext, SameHeightFork, TakeBlock
  <2> QED BY <1>3, <2>1 DEF LoneInv
<1>4. ASSUME ReorgStep, Mineable # {} PROVE FALSE
  <2>1. queue # <<>> \/ job["worker"].pc # "idle"
    BY <1>4 DEF ReorgStep, TakeReorg, ReweighBranch, LeaveBranch, KeepBranch, ChooseBranch, Unwind, UndoBlocks, UndoCanonical, UndoTip, UndoMeta, UndoBalances, UndoFlag, Replay, ReplayRefused
  <2> QED BY <1>4, <2>1 DEF LoneInv, Other
<1> QED BY <1>1, <1>2, <1>3, <1>4

\* Nobody runs at first.
LEMMA LoneInit == Init => LoneInv
<1> SUFFICES ASSUME Init PROVE LoneInv OBVIOUS
<1>1. PICK i : i = IdleJob OBVIOUS
<1>2. i.pc = "idle" BY <1>1, IdleType
<1>3. job = [t \in Tasks |-> i] BY <1>1 DEF Init
<1>4. job["worker"] = i /\ job["miner"] = i BY <1>3 DEF Tasks
<1>5. \A b \in Blocks : ~rows[b].known BY DEF Init, NoRow
<1> QED BY <1>2, <1>4, <1>5 DEF LoneInv, Init, Other

\* A miner that is done rests.
LEMMA DoneMiner ==
    ASSUME TypeInv, Done("miner")
    PROVE  job'["miner"].pc = "idle"
<1>1. job["miner"].tips = <<>> /\ job \in [Tasks -> JobRecords] /\ "miner" \in Tasks BY TypeFacts DEF JobsShape
<1>2. PICK i : i = IdleJob OBVIOUS
<1>3. job' = [job EXCEPT !["miner"] = i] BY <1>1, <1>2 DEF Done, SetJob
<1> QED BY <1>1, <1>2, <1>3, IdleType

\* What a write of an apply leaves alone.
LEMMA ApplyFrame ==
    ASSUME TypeInv, NEW t \in Tasks, ApplyStep(t)
    PROVE  /\ \A u \in Tasks : u # t => job'[u] = job[u]
           /\ queue' = queue /\ crashes' = crashes
           /\ t = "miner" => job'[t].pc = "idle" \/ job'[t].block = job[t].block
           /\ \A c \in Blocks : rows'[c].known => rows[c].known \/ c = job[t].block
<1>2. job \in [Tasks -> JobRecords] /\ job[t] \in JobRecords BY TypeFacts
<1>a. ASSUME NEW p, Goto(t, p) PROVE (\A u \in Tasks : u # t => job'[u] = job[u]) /\ job'[t].block = job[t].block
  <2>1. (\A u \in Tasks : u # t => job'[u] = job[u]) /\ job'[t] = [job[t] EXCEPT !.pc = p] BY <1>2, <1>a DEF Goto
  <2> QED BY <2>1, <1>2 DEF JobRecords
<1>b. ASSUME Done(t) PROVE (\A u \in Tasks : u # t => job'[u] = job[u]) /\ (t = "miner" => job'[t].pc = "idle")
  BY <1>b, DoneType, DoneMiner
<1>3. CASE ApplyBalances(t)
  <2> DEFINE s == IF job[t].mode = "mine" THEN state = job[t].base ELSE state = Parent[job[t].block] /\ job[t].block \notin BadRoots
  <2>1. job' = [job EXCEPT ![t] = [job[t] EXCEPT !.pc = "meta", !.same = s]] /\ queue' = queue BY <1>3, Zenon DEF ApplyBalances, SetJob
  <2> HIDE DEF s
  <2>2. (\A u \in Tasks : u # t => job'[u] = job[u]) /\ job'[t] = [job[t] EXCEPT !.pc = "meta", !.same = s] BY <1>2, <2>1
  <2>3. job'[t].block = job[t].block BY <2>2, <1>2 DEF JobRecords
  <2> QED BY <2>1, <2>2, <2>3, <1>3 DEF ApplyBalances, history
<1>4. CASE ApplyMeta(t) BY <1>4, <1>a, <1>b DEF ApplyMeta, history
<1>5. CASE RecordSummary(t) BY <1>5, <1>a DEF RecordSummary, history
<1>6. CASE RecordRow(t)
  <2>1. job'[t] = [job[t] EXCEPT !.pc = "canon", !.weight = RowWeight(job[t])] BY <1>6, RecordRowFacts
  <2>2. job'[t].block = job[t].block BY <2>1, <1>2 DEF JobRecords
  <2> QED BY <2>2, <1>6, RecordRowFacts DEF RecordRow, history
<1>7. CASE RecordCanonical(t) BY <1>7, <1>a DEF RecordCanonical, history
<1>8. CASE RecordTip(t) BY <1>8, <1>a, <1>b DEF RecordTip, history
<1> QED BY <1>3, <1>4, <1>5, <1>6, <1>7, <1>8 DEF ApplyStep

\* Only one of the two tasks ever runs, in every state.
LEMMA LoneStep ==
    ASSUME Alone, TypeInv, LoneInv, [Next]_vars
    PROVE  LoneInv'
<1>0. /\ Busy \in Tasks /\ Other \in Tasks /\ Busy # Other /\ \A t \in Tasks : t = Busy \/ t = Other
      /\ TakeStep \/ ReorgStep => Mineable = {}
  BY WhoActs
<1>1. CASE \E t \in Tasks : ApplyStep(t)
  <2>1. PICK t \in Tasks : ApplyStep(t) BY <1>1
  <2>2. t = Busy BY <2>1, WhoActs
  <2>3. job[t].pc # "idle" BY <2>1 DEF ApplyStep, ApplyBalances, ApplyMeta, RecordSummary, RecordRow, RecordCanonical, RecordTip
  <2>4. job'[Other].pc = "idle" BY <2>1, <2>2, <1>0, ApplyFrame DEF LoneInv
  <2>5. CASE Mineable # {}
    <3>1. t = "miner" /\ job[t].block \in Mineable BY <2>2, <2>3, <2>5 DEF Busy, LoneInv
    <3>2. queue' = <<>> BY <2>1, <2>5, ApplyFrame DEF LoneInv
    <3>3. \A b \in Blocks : rows'[b].known => b \in Gossiped \cup Mineable BY <2>1, <2>5, <3>1, ApplyFrame DEF LoneInv
    <3>4. job'["miner"].pc # "idle" => job'["miner"].block \in Mineable BY <2>1, <3>1, ApplyFrame
    <3> QED BY <2>4, <3>2, <3>3, <3>4 DEF LoneInv, Other
  <2> QED BY <2>4, <2>5 DEF LoneInv
<1>2. CASE TakeStep
  <2>1. Mineable = {} /\ Other = "miner" BY <1>0, <1>2 DEF Other
  <2>2. job'["miner"] = job["miner"]
    <3>1. PICK b \in Blocks : SkipBlock(b) \/ RejectBlock(b) \/ ApplyNext(b) \/ SameHeightFork(b) BY <1>2 DEF TakeStep
    <3>2. CASE SkipBlock(b) \/ RejectBlock(b) BY <3>2 DEF SkipBlock, RejectBlock
    <3> QED BY <3>1, <3>2, TypeApplyNext, TypeSameHeightFork
  <2> QED BY <2>1, <2>2 DEF LoneInv, Other
<1>3. CASE ReorgStep
  <2>1. Mineable = {} /\ Other = "miner" BY <1>0, <1>3 DEF Other
  <2>2. job'["miner"] = job["miner"]
    BY <1>3, TypeTakeReorg, TypeReweigh, TypeStop, TypeChooseBranch, TypeUnwind, TypeUndo, TypeUndoFlag, TypeReplay DEF ReorgStep
  <2> QED BY <2>1, <2>2 DEF LoneInv, Other
<1>4. CASE LoopStep
  <2>1. job' = job
    BY <1>4 DEF LoopStep, GossipBlock, GossipOrphan, RefuseCandidate, FetchedBlock, OrphanExpires, BackfillServed, BackfillLost, BarExpires
  <2>2. CASE Mineable # {}
    <3>0. queue = <<>> /\ \A b \in Blocks : rows[b].known => b \in Gossiped \cup Mineable BY <2>2 DEF LoneInv
    <3>1. \A b \in Gossiped : b \in Blocks /\ Parent[b] \in Blocks /\ ~Known(Parent[b])
      BY <2>2, <3>0, HeightFacts, ForkChoiceAssumption DEF Alone, Known, Heads
    <3>2. queue' = queue /\ \A b \in Blocks : rows'[b].known => rows[b].known \/ b \in Gossiped
      <4>1. ASSUME NEW b \in Blocks, GossipBlock(b) PROVE FALSE BY <4>1, <3>1 DEF GossipBlock
      <4>2. ASSUME NEW b \in Blocks, FetchedBlock(b) PROVE FALSE BY <4>2, <2>2 DEF FetchedBlock, Alone
      <4>3. ASSUME NEW r \in requests, BackfillServed(r) PROVE FALSE BY <4>3, <2>2 DEF BackfillServed, Alone
      <4>4. ASSUME NEW b \in Blocks, GossipOrphan(b) PROVE queue' = queue /\ \A c \in Blocks : rows'[c].known => rows[c].known \/ c \in Gossiped
        <5>1. RecordCandidate(b) /\ b \in Gossiped /\ queue' = queue BY <4>4 DEF GossipOrphan
        <5> QED BY <5>1, CandidateType
      <4>5. ASSUME NEW b \in Blocks, RefuseCandidate(b) \/ OrphanExpires(b) PROVE queue' = queue /\ rows' = rows
        BY <4>5 DEF RefuseCandidate, OrphanExpires, trees
      <4>6. ASSUME NEW r \in requests, BackfillLost(r) PROVE queue' = queue /\ rows' = rows
        BY <4>6 DEF BackfillLost, trees
      <4>7. BarExpires => queue' = queue /\ rows' = rows BY DEF BarExpires, trees
      <4> QED BY <1>4, <4>1, <4>2, <4>3, <4>4, <4>5, <4>6, <4>7 DEF LoopStep
    <3> QED BY <2>1, <2>2, <3>0, <3>2 DEF LoneInv
  <2>3. CASE Mineable = {} BY <2>1, <2>3 DEF LoneInv
  <2> QED BY <2>2, <2>3
<1>5. CASE \E b \in Blocks : PrepareBlock(b)
  <2>1. PICK b \in Blocks : PrepareBlock(b) BY <1>5
  <2>2. b \in Mineable /\ queue' = queue /\ rows' = rows BY <2>1 DEF PrepareBlock
  <2>3. job'["miner"] = StartedJob("mine", b, state) /\ job'["worker"] = job["worker"] BY <2>1, TypePrepare
  <2>4. state \in States BY DEF TypeInv, TypeOK
  <2>5. job'["miner"].block = b BY <2>3, <2>4, StartJob
  <2> QED BY <2>2, <2>3, <2>5 DEF LoneInv, Other
<1>6. CASE \E h \in prunes : PruneHistory(h)
  BY <1>6 DEF PruneHistory, LoneInv
<1>7. CASE \E v \in Validators, w \in Weights : CaacComplete(v, w)
  BY <1>7 DEF CaacComplete, LoneInv, trees
<1>8. CASE CrashRestart
  <2>1. PICK i : i = IdleJob OBVIOUS
  <2>2. i.pc = "idle" BY <2>1, IdleType
  <2>3. job' = [t \in Tasks |-> i] BY <2>1, <1>8 DEF CrashRestart
  <2>4. job'["worker"] = i /\ job'["miner"] = i BY <2>3 DEF Tasks
  <2>5. queue' = <<>> /\ rows' = rows BY <1>8 DEF CrashRestart, trees
  <2> QED BY <2>2, <2>4, <2>5 DEF LoneInv, Other
<1>9. CASE UNCHANGED vars
  BY <1>9 DEF vars, LoneInv, trees
<1> QED BY <1>1, <1>2, <1>3, <1>4, <1>5, <1>6, <1>7, <1>8, <1>9 DEF Next

-----------------------------------------------------------------------------
(* One chain in the trees.                                                   *)

\* The trees that are already at the block a task applies, or still at the one it unwinds; the
\* others are at its parent.
AtBlock(tree, pc) ==
    pc \in CASE tree = "state"   -> {"meta", "summary", "row", "canon", "tip", "u_blocks", "u_canon", "u_tip", "u_meta", "u_balances"}
             [] tree = "height"  -> {"summary", "row", "canon", "tip", "u_blocks", "u_canon", "u_tip", "u_meta"}
             [] tree = "summary" -> {"row", "canon", "tip", "u_blocks"}
             [] tree = "canon"   -> {"tip", "u_blocks", "u_canon"}
             [] tree = "tip"     -> {"u_blocks", "u_canon", "u_tip"}
\* The block a tree stands at while a task is inside a block.
Where(tree, j) == IF AtBlock(tree, j.pc) THEN j.block ELSE Parent[j.block]

\* The four other trees are those of the chain of x.
Whole(x) ==
    height = HeightOf[x] /\ summary = IndexOf(x) /\ canon = IndexOf(x) /\ tip.block = TipOf(x)

\* An undo record leads from b back to its parent.
UndoRight(r, b) ==
    /\ r.state = Parent[b] /\ r.height = HeightOf[Parent[b]]
    /\ r.summary = None /\ r.canon = None /\ r.tip.block = TipOf(Parent[b])

\* Every tree is at the block or at its parent, as far as the writes have come.
Midway(j) ==
    /\ state = Where("state", j) /\ height = HeightOf[Where("height", j)]
    /\ summary = IndexOf(Where("summary", j)) /\ canon = IndexOf(Where("canon", j))
    /\ tip.block = TipOf(Where("tip", j))

\* Where the store stands at each step of the task that writes it.
Standing(j) ==
    /\ j.pc \in Applying \cup Undoing => Midway(j)
    /\ j.pc \notin Applying \cup Undoing => Whole(state)
    /\ j.pc \in {"unwind", "replay"} => state = j.block
    /\ j.pc = "balances" /\ j.mode # "reorg" => j.block \notin BadRoots
    /\ j.pc = "meta" => j.mode = "mine" \/ j.same
    /\ j.pc \in Undoing => UndoRight(j.undo, j.block)

\* A branch that is replayed has all its rows.
BranchKnown(j) ==
    /\ j.mode = "reorg" => \A b \in Branch(j.ancestor, j.target) : rows[b].known
    /\ j.mode = "reorg" /\ j.pc \in Applying => rows[j.block].known

\* The inductive invariant: while the balances are those of a chain the store stands on
\* it, and they are not only after a bad root was recorded.
ChainInv ==
    /\ state # Junk => Standing(job[Busy]) /\ \A b \in Blocks : undo[b].kept => UndoRight(undo[b], b)
    /\ state = Junk => \E b \in BadRoots : rows[b].known
    /\ BranchKnown(job[Busy])

\* An index ends at the head of its chain.
LEMMA IndexHead == ASSUME NEW x \in Blocks PROVE IndexOf(x)[HeightOf[x]] = x /\ TipOf(x) = x
<1>1. HeightOf[x] \in Heights BY HeightFacts
<1>2. PICK f : f = IndexOf(Parent[x]) OBVIOUS
<1>3. DOMAIN f = Heights BY <1>2 DEF IndexOf
<1>4. IndexOf(x) = [f EXCEPT ![HeightOf[x]] = x] BY <1>2, IndexNext
<1>5. IndexOf(x)[HeightOf[x]] = x BY <1>1, <1>3, <1>4
<1>6. x # Genesis BY ForkChoiceAssumption
<1> QED BY <1>5, <1>6 DEF TipOf

\* A block whose parent is the head of the store gets the undo record that leads back.
LEMMA StoreUndoRight ==
    ASSUME TypeInv, NEW b \in Blocks, StoreUndo(b), Whole(Parent[b]), state = Parent[b],
           \A c \in Blocks : undo[c].kept => UndoRight(undo[c], c)
    PROVE  \A c \in Blocks : undo'[c].kept => UndoRight(undo'[c], c)
<1>1. undo'[b] = [kept |-> TRUE, state |-> state, height |-> height, summary |-> summary[HeightOf[b]],
                          canon |-> canon[HeightOf[b]], tip |-> tip]
      /\ \A c \in Blocks : c # b => undo'[c] = undo[c]
  BY StoreUndoType
<1>2. summary[HeightOf[b]] = None /\ canon[HeightOf[b]] = None BY IndexNext DEF Whole
<1>3. UndoRight(undo'[b], b) BY <1>1, <1>2 DEF UndoRight, Whole
<1> QED BY <1>1, <1>3

\* A task that goes on keeps its branch recorded.
LEMMA KeepsBranch ==
    ASSUME TypeInv, TypeInv', NEW j, NEW k \in JobRecords, BranchKnown(j), \A c \in Blocks : rows[c].known => rows'[c].known,
           JobShape(k),
           k.mode \in {"none", "remote", "mine"} \/ (k.mode = j.mode /\ k.target = j.target /\ k.ancestor = j.ancestor),
           k.mode = "reorg" /\ k.pc \in Applying => k.block = j.block /\ j.pc \in Applying
    PROVE  /\ k.mode = "reorg" => \A b \in Branch(k.ancestor, k.target) : rows'[b].known
           /\ k.mode = "reorg" /\ k.pc \in Applying => rows'[k.block].known
<1>1. k.mode = "reorg" => k.target \in Blocks BY DEF JobShape
<1>2. k.mode = "reorg" => Branch(k.ancestor, k.target) \subseteq Blocks BY <1>1, ChainFacts DEF Branch, Descends
<1>3. k.mode = "reorg" /\ k.pc \in Applying => k.block \in Blocks BY DEF JobShape
<1> QED BY <1>2, <1>3 DEF BranchKnown

\* The writes of an apply keep the invariant.
LEMMA ChainApply ==
    ASSUME TypeInv, TypeInv', LoneInv, ChainInv, NEW t \in Tasks, ApplyStep(t)
    PROVE  ChainInv'
<1> DEFINE j == job[Busy] b == j.block p == Parent[b] k == job'[Busy]
<1>0. t = Busy /\ Busy \in Tasks BY WhoActs
<1>1. /\ j \in JobRecords /\ k \in JobRecords /\ JobShape(j) /\ JobShape(k) /\ job \in [Tasks -> JobRecords] BY <1>0, TypeFacts DEF TypeInv, TypeOK, JobsShape
<1>2. \A c \in Blocks : rows[c].known => rows'[c].known
  <2>1. Next BY DEF Next
  <2> QED BY <2>1, KnownStays
<1>3. j.pc \in Applying BY <1>0 DEF ApplyStep, ApplyBalances, ApplyMeta, RecordSummary, RecordRow, RecordCanonical, RecordTip, Applying
<1>4. b \in Blocks /\ j.mode \in {"remote", "mine", "reorg"} BY <1>1, <1>3 DEF JobShape
<1>5. p \in Heads /\ b # Junk /\ b # Genesis BY <1>4, HeightFacts, ForkChoiceAssumption
<1>6. undo' = undo BY DEF ApplyStep, ApplyBalances, ApplyMeta, RecordSummary, RecordRow, RecordCanonical, RecordTip
<1>7. BranchKnown(job[Busy])'
  <2>1. /\ k.mode \in {"none", "remote", "mine"} \/ (k.mode = j.mode /\ k.target = j.target /\ k.ancestor = j.ancestor)
        /\ k.mode = "reorg" /\ k.pc \in Applying => k.block = j.block
    <3>a. ASSUME NEW q, Goto(t, q) PROVE k.mode = j.mode /\ k.target = j.target /\ k.ancestor = j.ancestor /\ k.block = j.block
      <4>1. k = [j EXCEPT !.pc = q] BY <1>0, <1>1, <3>a DEF Goto
      <4> HIDE DEF k, j
      <4> QED BY <4>1, <1>1 DEF JobRecords
    <3>b. ASSUME Done(t) PROVE k.mode = "none" BY <1>0, <3>b, DoneType
    <3>1. CASE ApplyBalances(t)
      <4> DEFINE s == IF j.mode = "mine" THEN state = j.base ELSE state = Parent[j.block] /\ j.block \notin BadRoots
      <4>1. job' = [job EXCEPT ![t] = [j EXCEPT !.pc = "meta", !.same = s]] BY <1>0, <3>1, Zenon DEF ApplyBalances, SetJob
      <4> HIDE DEF s, j
      <4>2. k = [j EXCEPT !.pc = "meta", !.same = s] BY <1>0, <1>1, <4>1
      <4> HIDE DEF k
      <4> QED BY <4>2, <1>1 DEF JobRecords
    <3>2. CASE ApplyMeta(t)
      <4> HIDE DEF j, k
      <4> QED BY <3>2, <3>a, <3>b DEF ApplyMeta
    <3>3. CASE RecordSummary(t)
      <4> HIDE DEF j, k
      <4> QED BY <3>3, <3>a DEF RecordSummary
    <3>4. CASE RecordRow(t)
      <4>1. k = [j EXCEPT !.pc = "canon", !.weight = RowWeight(j)] BY <1>0, <3>4, RecordRowFacts
      <4> HIDE DEF j, k
      <4> QED BY <4>1, <1>1 DEF JobRecords
    <3>5. CASE RecordCanonical(t)
      <4> HIDE DEF j, k
      <4> QED BY <3>5, <3>a DEF RecordCanonical
    <3>6. CASE RecordTip(t)
      <4> HIDE DEF j, k
      <4> QED BY <3>6, <3>a, <3>b DEF RecordTip
    <3> QED BY <3>1, <3>2, <3>3, <3>4, <3>5, <3>6 DEF ApplyStep
  <2>2. BranchKnown(j) BY DEF ChainInv
  <2> HIDE DEF j, k
  <2>3. /\ k.mode = "reorg" => \A c \in Branch(k.ancestor, k.target) : rows'[c].known
        /\ k.mode = "reorg" /\ k.pc \in Applying => rows'[k.block].known
    BY <2>1, <2>2, <1>1, <1>2, <1>3, KeepsBranch
  <2> QED BY <2>3 DEF BranchKnown, k, Branch
<1>8. CASE state = Junk
  <2>1. state' = Junk
    BY <1>8, <1>0, <1>5, ForkChoiceAssumption DEF ApplyStep, ApplyBalances, ApplyMeta, RecordSummary, RecordRow, RecordCanonical, RecordTip, Heads
  <2>2. \E c \in BadRoots : rows[c].known BY <1>8 DEF ChainInv
  <2>3. \E c \in BadRoots : rows'[c].known BY <2>2, <1>2, ForkChoiceAssumption
  <2> QED BY <2>1, <2>3, <1>7 DEF ChainInv
<1>9. CASE state # Junk
  <2>0. Standing(j) /\ \A c \in Blocks : undo'[c].kept => UndoRight(undo'[c], c) BY <1>9, <1>6 DEF ChainInv
  <2>1. Midway(j) BY <2>0, <1>3 DEF Standing
  <2>i. IndexOf(b) = [IndexOf(p) EXCEPT ![HeightOf[b]] = b] BY <1>4, IndexNext
  <2>t. TipOf(b) = b BY <1>4, IndexHead
  <2>s. ASSUME state' # Junk, Standing(job[Busy])' PROVE ChainInv'
    BY <2>0, <2>s, <1>7 DEF ChainInv, UndoRight
  <2>g. ASSUME NEW q, Goto(t, q) PROVE k.pc = q /\ k.mode = j.mode /\ k.block = b /\ k.same = j.same /\ k.undo = j.undo
    <3>1. k = [j EXCEPT !.pc = q] BY <1>0, <1>1, <2>g DEF Goto
    <3> HIDE DEF k, j
    <3> QED BY <3>1, <1>1 DEF JobRecords, b
  <2>2. CASE ApplyBalances(t)
    <3> DEFINE s == IF j.mode = "mine" THEN state = j.base ELSE state = Parent[j.block] /\ j.block \notin BadRoots
    <3>1. /\ job' = [job EXCEPT ![t] = [j EXCEPT !.pc = "meta", !.same = s]]
          /\ state' = IF state = p /\ b \notin BadRoots THEN b ELSE Junk
          /\ UNCHANGED <<height, summary, canon, tip, rows>> /\ j.pc = "balances"
      BY <1>0, <2>2, Zenon DEF ApplyBalances, SetJob
    <3>2. state = p BY <2>1, <3>1 DEF Midway, Where, AtBlock
    <3>3. CASE b \in BadRoots
      <4>1. state' = Junk BY <3>1, <3>3
      <4>2. j.mode = "reorg" BY <2>0, <3>1, <3>3 DEF Standing
      <4>3. rows[b].known BY <4>2, <1>3 DEF ChainInv, BranchKnown
      <4>4. \E c \in BadRoots : rows'[c].known BY <4>3, <3>1, <3>3
      <4> QED BY <4>1, <4>4, <1>7 DEF ChainInv
    <3>4. CASE b \notin BadRoots
      <4>1. state' = b BY <3>1, <3>2, <3>4
      <4>2. s = TRUE \/ j.mode = "mine" BY <3>2, <3>4
      <4>3. s \in BOOLEAN OBVIOUS
      <4> HIDE DEF s, j
      <4>4. k = [j EXCEPT !.pc = "meta", !.same = s] BY <1>0, <1>1, <3>1
      <4> HIDE DEF k
      <4>5. k.pc = "meta" /\ k.mode = j.mode /\ k.block = b /\ k.same = s BY <4>4, <1>1 DEF JobRecords, b
      <4>6. Standing(job[Busy])'
        <5>1. height = HeightOf[p] /\ summary = IndexOf(p) /\ canon = IndexOf(p) /\ tip.block = TipOf(p)
          BY <2>1, <3>1 DEF Midway, Where, AtBlock
        <5>2. Midway(job[Busy])'
          BY <4>1, <4>5, <5>1, <3>1 DEF Midway, Where, AtBlock, k
        <5> QED BY <4>2, <4>5, <5>2 DEF Standing, k, Applying, Undoing
      <4> QED BY <4>1, <4>6, <2>s, <1>5 DEF j
    <3> QED BY <3>3, <3>4
  <2>3. CASE ApplyMeta(t)
    <3>1. j.pc = "meta" /\ height' = HeightOf[b] /\ UNCHANGED <<state, summary, canon, tip>> BY <1>0, <2>3 DEF ApplyMeta
    <3>2. Goto(t, "summary") BY <1>0, <2>0, <2>3, <3>1 DEF Standing, ApplyMeta
    <3>3. k.pc = "summary" /\ k.block = b BY <3>2, <2>g
    <3>4. state = b /\ summary = IndexOf(p) /\ canon = IndexOf(p) /\ tip.block = TipOf(p) BY <2>1, <3>1 DEF Midway, Where, AtBlock
    <3> HIDE DEF k
    <3>5. Midway(job[Busy])' BY <3>1, <3>3, <3>4 DEF Midway, Where, AtBlock, k
    <3>6. Standing(job[Busy])' BY <3>3, <3>5 DEF Standing, k, Applying, Undoing
    <3> QED BY <3>1, <3>6, <2>s, <1>9
  <2>4. CASE RecordSummary(t)
    <3>1. j.pc = "summary" /\ summary' = [summary EXCEPT ![HeightOf[b]] = b] /\ UNCHANGED <<state, height, canon, tip>> BY <1>0, <2>4 DEF RecordSummary
    <3>3. k.pc = "row" /\ k.block = b BY <2>4, <2>g DEF RecordSummary
    <3>4. state = b /\ height = HeightOf[b] /\ summary = IndexOf(p) /\ canon = IndexOf(p) /\ tip.block = TipOf(p) BY <2>1, <3>1 DEF Midway, Where, AtBlock
    <3>5. summary' = IndexOf(b) BY <3>1, <3>4, <2>i
    <3> HIDE DEF k
    <3>6. Midway(job[Busy])' BY <3>1, <3>3, <3>4, <3>5 DEF Midway, Where, AtBlock, k
    <3>7. Standing(job[Busy])' BY <3>3, <3>6 DEF Standing, k, Applying, Undoing
    <3> QED BY <3>1, <3>7, <2>s, <1>9
  <2>5. CASE RecordRow(t)
    <3>1. j.pc = "row" /\ UNCHANGED <<state, height, summary, canon, tip>> BY <1>0, <2>5 DEF RecordRow
    <3>2. k = [j EXCEPT !.pc = "canon", !.weight = RowWeight(j)] BY <1>0, <2>5, RecordRowFacts
    <3>3. k.pc = "canon" /\ k.block = b
      <4> HIDE DEF j, k
      <4> QED BY <3>2, <1>1 DEF JobRecords, b
    <3>4. state = b /\ height = HeightOf[b] /\ summary = IndexOf(b) /\ canon = IndexOf(p) /\ tip.block = TipOf(p) BY <2>1, <3>1 DEF Midway, Where, AtBlock
    <3> HIDE DEF k
    <3>6. Midway(job[Busy])' BY <3>1, <3>3, <3>4 DEF Midway, Where, AtBlock, k
    <3>7. Standing(job[Busy])' BY <3>3, <3>6 DEF Standing, k, Applying, Undoing
    <3> QED BY <3>1, <3>7, <2>s, <1>9
  <2>6. CASE RecordCanonical(t)
    <3>1. j.pc = "canon" /\ canon' = [canon EXCEPT ![HeightOf[b]] = b] /\ UNCHANGED <<state, height, summary, tip>> BY <1>0, <2>6 DEF RecordCanonical
    <3>3. k.pc = "tip" /\ k.block = b BY <2>6, <2>g DEF RecordCanonical
    <3>4. state = b /\ height = HeightOf[b] /\ summary = IndexOf(b) /\ canon = IndexOf(p) /\ tip.block = TipOf(p) BY <2>1, <3>1 DEF Midway, Where, AtBlock
    <3>5. canon' = IndexOf(b) BY <3>1, <3>4, <2>i
    <3> HIDE DEF k
    <3>6. Midway(job[Busy])' BY <3>1, <3>3, <3>4, <3>5 DEF Midway, Where, AtBlock, k
    <3>7. Standing(job[Busy])' BY <3>3, <3>6 DEF Standing, k, Applying, Undoing
    <3> QED BY <3>1, <3>7, <2>s, <1>9
  <2>7. CASE RecordTip(t)
    <3>1. j.pc = "tip" /\ tip' = [block |-> b, weight |-> j.weight] /\ UNCHANGED <<state, height, summary, canon>> BY <1>0, <2>7 DEF RecordTip
    <3>4. state = b /\ height = HeightOf[b] /\ summary = IndexOf(b) /\ canon = IndexOf(b) BY <2>1, <3>1 DEF Midway, Where, AtBlock
    <3>5. tip'.block = TipOf(b) BY <3>1, <2>t
    <3>6. Whole(state)' /\ state' = b BY <3>1, <3>4, <3>5 DEF Whole
    <3>7. CASE j.mode = "reorg"
      <4>1. Goto(t, "replay") BY <1>0, <2>7, <3>7 DEF RecordTip
      <4>2. k.pc = "replay" /\ k.block = b BY <4>1, <2>g
      <4> HIDE DEF k
      <4>3. Standing(job[Busy])' BY <3>6, <4>2 DEF Standing, k, Applying, Undoing
      <4> QED BY <3>1, <4>3, <2>s, <1>9
    <3>8. CASE j.mode # "reorg"
      <4>1. Done(t) BY <1>0, <2>7, <3>8 DEF RecordTip
      <4>2. k.pc \in {"idle", "reweigh"} BY <1>0, <4>1, DoneType
      <4> HIDE DEF k
      <4>3. Standing(job[Busy])' BY <3>6, <4>2 DEF Standing, k, Applying, Undoing
      <4> QED BY <3>1, <4>3, <2>s, <1>9
    <3> QED BY <3>7, <3>8
  <2> QED BY <2>2, <2>3, <2>4, <2>5, <2>6, <2>7 DEF ApplyStep
<1> QED BY <1>8, <1>9

\* A step of the worker that leaves the five trees alone and ends outside a block.
LEMMA ChainRest ==
    ASSUME TypeInv, TypeInv', ChainInv, Busy = "worker", UNCHANGED <<state, height, summary, canon, tip, undo>>,
           \A c \in Blocks : rows[c].known => rows'[c].known,
           job["worker"].pc \notin Applying \cup Undoing,
           job'["worker"].pc \in {"idle", "reweigh", "choose"}, job'["worker"].mode = "none"
    PROVE  ChainInv'
<1> DEFINE j == job["worker"] k == job'["worker"]
<1>1. BranchKnown(job[Busy])' BY DEF BranchKnown
<1>2. CASE state = Junk
  <2>1. \E c \in BadRoots : rows'[c].known BY <1>2, ForkChoiceAssumption DEF ChainInv
  <2> QED BY <1>1, <1>2, <2>1 DEF ChainInv
<1>3. CASE state # Junk
  <2>1. Whole(state) BY <1>3 DEF ChainInv, Standing
  <2>2. Whole(state)' BY <2>1 DEF Whole
  <2>3. Standing(job[Busy])' BY <2>2 DEF Standing, Applying, Undoing
  <2>4. (\A b \in Blocks : undo[b].kept => UndoRight(undo[b], b))' BY <1>3 DEF ChainInv, UndoRight
  <2> QED BY <1>1, <1>3, <2>3, <2>4 DEF ChainInv
<1> QED BY <1>2, <1>3

\* The writes of apply_block_undo keep the invariant: tree by tree back to the parent.
LEMMA ChainUndo ==
    ASSUME TypeInv, TypeInv', ChainInv, Busy = "worker",
           UndoBlocks \/ UndoCanonical \/ UndoTip \/ UndoMeta \/ UndoBalances
    PROVE  ChainInv'
<1> DEFINE j == job["worker"] b == j.block p == Parent[b] k == job'["worker"] r == j.undo
<1>1. PICK q \in Undoing : j.pc \in Undoing /\ Goto("worker", q)
  BY DEF UndoBlocks, UndoCanonical, UndoTip, UndoMeta, UndoBalances, Undoing
<1>2. k = [j EXCEPT !.pc = q] /\ b \in Blocks /\ j \in JobRecords BY <1>1, UndoGoto, TypeFacts
<1>3. k.pc = q /\ k.mode = j.mode /\ k.block = b /\ k.undo = r /\ k.target = j.target /\ k.ancestor = j.ancestor
  <2> HIDE DEF j, k
  <2> QED BY <1>2 DEF JobRecords, b, r
<1>g. ASSUME NEW x \in Undoing, Goto("worker", x) PROVE k.pc = x
  <2>1. k = [j EXCEPT !.pc = x] BY <1>1, <1>g, UndoGoto
  <2> HIDE DEF j, k
  <2> QED BY <2>1, <1>2 DEF JobRecords
<1>4. rows' = rows /\ undo' = undo BY DEF UndoBlocks, UndoCanonical, UndoTip, UndoMeta, UndoBalances
<1>5. p \in Heads /\ b # Junk /\ p # Junk BY <1>2, HeightFacts, ForkChoiceAssumption DEF Heads
<1>6. BranchKnown(job[Busy])'
  <2>1. BranchKnown(j) BY DEF ChainInv
  <2> HIDE DEF j, k
  <2>2. (\A c \in Branch(k.ancestor, k.target) : rows'[c].known) \/ k.mode # "reorg"
    BY <2>1, <1>3, <1>4 DEF BranchKnown
  <2>3. k.pc \notin Applying BY <1>1, <1>3 DEF Undoing, Applying
  <2> QED BY <2>2, <2>3 DEF BranchKnown, k, Branch
<1>7. CASE state = Junk
  <2>1. state' = Junk BY <1>5, <1>7 DEF UndoBlocks, UndoCanonical, UndoTip, UndoMeta, UndoBalances
  <2>2. \E c \in BadRoots : rows'[c].known BY <1>7, <1>4 DEF ChainInv
  <2> QED BY <2>1, <2>2, <1>6 DEF ChainInv
<1>8. CASE state # Junk
  <2>0. Standing(j) /\ \A c \in Blocks : undo'[c].kept => UndoRight(undo'[c], c) BY <1>8, <1>4 DEF ChainInv
  <2>1. Midway(j) /\ UndoRight(r, b) BY <2>0, <1>1 DEF Standing
  <2>2. r.state = p /\ r.height = HeightOf[p] /\ r.summary = None /\ r.canon = None /\ r.tip.block = TipOf(p) BY <2>1 DEF UndoRight
  <2>i. IndexOf(p) = [IndexOf(b) EXCEPT ![HeightOf[b]] = None] BY <1>2, IndexNext
  <2>s. ASSUME state' # Junk, Midway(job[Busy])' PROVE ChainInv'
    <3>1. Standing(job[Busy])'
      <4> HIDE DEF j, k, r, b
      <4> QED BY <2>s, <1>1, <1>3, <2>1 DEF Standing, k, Undoing, Applying
    <3> QED BY <2>0, <2>s, <3>1, <1>6 DEF ChainInv
  <2>3. CASE UndoBlocks
    <3>1. j.pc = "u_blocks" /\ k.pc = "u_canon" /\ summary' = [summary EXCEPT ![HeightOf[b]] = r.summary] /\ UNCHANGED <<state, height, canon, tip>>
      BY <2>3, <1>g DEF UndoBlocks, Undoing
    <3>2. state = b /\ height = HeightOf[b] /\ summary = IndexOf(b) /\ canon = IndexOf(b) /\ tip.block = TipOf(b) BY <2>1, <3>1 DEF Midway, Where, AtBlock
    <3>3. summary' = IndexOf(p) BY <3>1, <3>2, <2>2, <2>i
    <3> HIDE DEF k
    <3>4. Midway(job[Busy])' BY <3>1, <1>3, <3>2, <3>3 DEF Midway, Where, AtBlock, k
    <3> QED BY <3>1, <3>4, <2>s, <1>8
  <2>4. CASE UndoCanonical
    <3>1. j.pc = "u_canon" /\ k.pc = "u_tip" /\ canon' = [canon EXCEPT ![HeightOf[b]] = r.canon] /\ UNCHANGED <<state, height, summary, tip>>
      BY <2>4, <1>g DEF UndoCanonical, Undoing
    <3>2. state = b /\ height = HeightOf[b] /\ summary = IndexOf(p) /\ canon = IndexOf(b) /\ tip.block = TipOf(b) BY <2>1, <3>1 DEF Midway, Where, AtBlock
    <3>3. canon' = IndexOf(p) BY <3>1, <3>2, <2>2, <2>i
    <3> HIDE DEF k
    <3>4. Midway(job[Busy])' BY <3>1, <1>3, <3>2, <3>3 DEF Midway, Where, AtBlock, k
    <3> QED BY <3>1, <3>4, <2>s, <1>8
  <2>5. CASE UndoTip
    <3>1. j.pc = "u_tip" /\ k.pc = "u_meta" /\ tip' = r.tip /\ UNCHANGED <<state, height, summary, canon>>
      BY <2>5, <1>g DEF UndoTip, Undoing
    <3>2. state = b /\ height = HeightOf[b] /\ summary = IndexOf(p) /\ canon = IndexOf(p) BY <2>1, <3>1 DEF Midway, Where, AtBlock
    <3> HIDE DEF k
    <3>4. Midway(job[Busy])' BY <3>1, <1>3, <3>2, <2>2 DEF Midway, Where, AtBlock, k
    <3> QED BY <3>1, <3>4, <2>s, <1>8
  <2>6. CASE UndoMeta
    <3>1. j.pc = "u_meta" /\ k.pc = "u_balances" /\ height' = r.height /\ UNCHANGED <<state, tip, summary, canon>>
      BY <2>6, <1>g DEF UndoMeta, Undoing
    <3>2. state = b /\ tip.block = TipOf(p) /\ summary = IndexOf(p) /\ canon = IndexOf(p) BY <2>1, <3>1 DEF Midway, Where, AtBlock
    <3> HIDE DEF k
    <3>4. Midway(job[Busy])' BY <3>1, <1>3, <3>2, <2>2 DEF Midway, Where, AtBlock, k
    <3> QED BY <3>1, <3>4, <2>s, <1>8
  <2>7. CASE UndoBalances
    <3>1. j.pc = "u_balances" /\ k.pc = "u_flag" /\ state' = (IF state = b THEN r.state ELSE Junk) /\ UNCHANGED <<height, tip, summary, canon>>
      BY <2>7, <1>g DEF UndoBalances, Undoing
    <3>2. state = b /\ height = HeightOf[p] /\ tip.block = TipOf(p) /\ summary = IndexOf(p) /\ canon = IndexOf(p) BY <2>1, <3>1 DEF Midway, Where, AtBlock
    <3>3. state' = p BY <3>1, <3>2, <2>2
    <3> HIDE DEF k
    <3>4. Midway(job[Busy])' BY <3>1, <1>3, <3>2, <3>3 DEF Midway, Where, AtBlock, k
    <3> QED BY <3>3, <3>4, <2>s, <1>5
  <2> QED BY <2>3, <2>4, <2>5, <2>6, <2>7
<1> QED BY <1>7, <1>8

\* Choosing a branch keeps the invariant.
LEMMA ChainChoose ==
    ASSUME TypeInv, TypeInv', ChainInv, Busy = "worker", ChooseBranch
    PROVE  ChainInv'
<1> DEFINE j == job["worker"] k == job'["worker"]
<1>1. /\ k.pc = "unwind" /\ k.mode = "reorg" /\ k.block = tip.block /\ k.target = j.target /\ tip.block \in Blocks
      /\ k.ancestor = CommonAncestor(j.target)
  BY TypeChooseBranch
<1>2. (\A b \in Branch(CommonAncestor(j.target), j.target) : rows[b].known) /\ j.pc = "choose" BY DEF ChooseBranch
<1>3. UNCHANGED <<state, height, summary, rows, canon, tip, undo>> BY DEF ChooseBranch, trees
<1> HIDE DEF k
<1>4. BranchKnown(job[Busy])' BY <1>1, <1>2, <1>3 DEF BranchKnown, k, Branch, Applying
<1>5. CASE state = Junk BY <1>3, <1>4, <1>5 DEF ChainInv
<1>6. CASE state # Junk
  <2>1. Whole(state) BY <1>2, <1>6 DEF ChainInv, Standing, Applying, Undoing
  <2>2. state = tip.block BY <2>1, <1>1, ForkChoiceAssumption DEF Whole, TipOf
  <2>3. Whole(state)' BY <2>1, <1>3 DEF Whole
  <2>4. Standing(job[Busy])' BY <2>2, <2>3, <1>1, <1>3 DEF Standing, k, Applying, Undoing
  <2>5. (\A b \in Blocks : undo[b].kept => UndoRight(undo[b], b))' BY <1>3, <1>6 DEF ChainInv, UndoRight
  <2> QED BY <2>4, <2>5, <1>3, <1>4, <1>6 DEF ChainInv
<1> QED BY <1>5, <1>6

\* Reading the undo record of the head keeps the invariant.
LEMMA ChainUnwind ==
    ASSUME TypeInv, TypeInv', ChainInv, Busy = "worker", Unwind
    PROVE  ChainInv'
<1> DEFINE j == job["worker"] b == j.block k == job'["worker"]
<1>1. j \in JobRecords /\ JobShape(j) /\ j.pc = "unwind" BY TypeFacts DEF Unwind
<1>2. j.mode = "reorg" BY <1>1 DEF JobShape
<1>3. UNCHANGED <<state, height, summary, rows, canon, tip, undo>> BY DEF Unwind, trees
<1>4. CASE b = j.ancestor /\ k = [j EXCEPT !.pc = "replay"]
  <2> HIDE DEF j, k
  <2>1. k.pc = "replay" /\ k.mode = j.mode /\ k.block = b /\ k.target = j.target /\ k.ancestor = j.ancestor BY <1>1, <1>4 DEF JobRecords, b
  <2>2. BranchKnown(job[Busy])' BY <2>1, <1>3 DEF ChainInv, BranchKnown, k, j, Branch, Applying
  <2>3. CASE state = Junk BY <1>3, <2>2, <2>3 DEF ChainInv
  <2>4. CASE state # Junk
    <3>1. Whole(state) /\ state = b BY <2>4, <1>1 DEF ChainInv, Standing, j, b, Applying, Undoing
    <3>2. Whole(state)' BY <3>1, <1>3 DEF Whole
    <3>3. Standing(job[Busy])' BY <2>1, <3>1, <3>2, <1>3 DEF Standing, k, Applying, Undoing
    <3>4. (\A c \in Blocks : undo[c].kept => UndoRight(undo[c], c))' BY <1>3, <2>4 DEF ChainInv, UndoRight
    <3> QED BY <3>3, <3>4, <1>3, <2>2, <2>4 DEF ChainInv
  <2> QED BY <2>3, <2>4
<1>5. CASE b \in Blocks /\ undo[b].kept /\ k = [j EXCEPT !.pc = "u_blocks", !.undo = undo[b]]
  <2> HIDE DEF j, k
  <2>1. k.pc = "u_blocks" /\ k.mode = j.mode /\ k.block = b /\ k.target = j.target /\ k.ancestor = j.ancestor /\ k.undo = undo[b] BY <1>1, <1>5 DEF JobRecords, b
  <2>2. BranchKnown(job[Busy])' BY <2>1, <1>3 DEF ChainInv, BranchKnown, k, j, Branch, Applying
  <2>3. CASE state = Junk BY <1>3, <2>2, <2>3 DEF ChainInv
  <2>4. CASE state # Junk
    <3>1. Whole(state) /\ state = b BY <2>4, <1>1 DEF ChainInv, Standing, j, b, Applying, Undoing
    <3>2. UndoRight(undo[b], b) BY <1>5, <2>4 DEF ChainInv
    <3>3. Midway(job[Busy])' BY <2>1, <3>1, <1>3 DEF Midway, Where, AtBlock, Whole, k
    <3>4. Standing(job[Busy])' BY <2>1, <3>2, <3>3 DEF Standing, k, Applying, Undoing
    <3>5. (\A c \in Blocks : undo[c].kept => UndoRight(undo[c], c))' BY <1>3, <2>4 DEF ChainInv, UndoRight
    <3> QED BY <3>4, <3>5, <1>3, <2>2, <2>4 DEF ChainInv
  <2> QED BY <2>3, <2>4
<1>6. CASE k.pc \in {"idle", "reweigh"} /\ k.mode = "none"
  BY <1>1, <1>3, <1>6, ChainRest DEF Applying, Undoing
<1>7. \/ b = j.ancestor /\ k = [j EXCEPT !.pc = "replay"]
      \/ b \in Blocks /\ undo[b].kept /\ k = [j EXCEPT !.pc = "u_blocks", !.undo = undo[b]]
      \/ k.pc \in {"idle", "reweigh"} /\ k.mode = "none"
  <2> HIDE DEF k, j
  <2> QED BY TypeUnwind DEF k, j, b
<1> QED BY <1>4, <1>5, <1>6, <1>7

\* The store stands whole at the parent once the flag is cleared.
LEMMA ChainUndoFlag ==
    ASSUME TypeInv, TypeInv', ChainInv, Busy = "worker", UndoFlag
    PROVE  ChainInv'
<1> DEFINE j == job["worker"] b == j.block p == Parent[b] k == job'["worker"]
<1>1. /\ b \in Blocks /\ k.pc = "unwind" /\ k.mode = "reorg" /\ k.block = p /\ k.target = j.target /\ k.ancestor = j.ancestor
      /\ \A c \in Blocks : rows'[c].known = rows[c].known
  BY TypeUndoFlag
<1>2. j.pc = "u_flag" /\ UNCHANGED <<state, height, summary, canon, tip, undo>> BY DEF UndoFlag
<1>3. j.mode = "reorg" /\ j.target \in Blocks BY <1>2, TypeFacts DEF JobShape, Undoing
<1>4. Branch(j.ancestor, j.target) \subseteq Blocks BY <1>3, ChainFacts DEF Branch, Descends
<1> HIDE DEF k, j
<1>5. BranchKnown(job[Busy])' BY <1>1, <1>3, <1>4 DEF ChainInv, BranchKnown, k, j, Branch, Applying
<1>6. CASE state = Junk
  <2>1. \E c \in BadRoots : rows'[c].known BY <1>6, <1>1, ForkChoiceAssumption DEF ChainInv
  <2> QED BY <1>2, <1>5, <1>6, <2>1 DEF ChainInv
<1>7. CASE state # Junk
  <2>1. Midway(j) BY <1>7, <1>2 DEF ChainInv, Standing, j, Undoing
  <2>2. state = p /\ Whole(p) BY <1>2, <2>1 DEF Midway, Where, AtBlock, Whole, b
  <2>3. Whole(state)' BY <2>2, <1>2 DEF Whole
  <2>4. Standing(job[Busy])' BY <2>2, <2>3, <1>1, <1>2 DEF Standing, k, Applying, Undoing
  <2>5. (\A c \in Blocks : undo[c].kept => UndoRight(undo[c], c))' BY <1>2, <1>7 DEF ChainInv, UndoRight
  <2> QED BY <2>4, <2>5, <1>2, <1>5, <1>7 DEF ChainInv
<1> QED BY <1>6, <1>7

\* Starting the next block of the branch keeps the invariant.
LEMMA ChainReplay ==
    ASSUME TypeInv, TypeInv', ChainInv, Busy = "worker", Replay
    PROVE  ChainInv'
<1> DEFINE j == job["worker"] k == job'["worker"]
<1>1. j \in JobRecords /\ JobShape(j) /\ j.pc = "replay" BY TypeFacts DEF Replay
<1>2. j.mode = "reorg" /\ j.target \in Blocks /\ j.block \in ChainOf(j.target) \cup {Genesis} /\ HeightOf[j.block] >= HeightOf[j.ancestor]
      /\ j.ancestor \in ChainOf(j.target) \cup {Genesis}
  BY <1>1 DEF JobShape, Forward
<1>3. UNCHANGED <<state, height, summary, rows, canon, tip>> BY DEF Replay
<1>4. CASE k.pc \in {"idle", "reweigh"} /\ k.mode = "none" /\ undo' = undo
  BY <1>1, <1>3, <1>4, ChainRest DEF Applying, Undoing
<1>5. ASSUME NEW b \in Blocks, b \in Chain[j.target], StoreUndo(b), HeightOf[b] = HeightOf[j.block] + 1, Parent[b] = j.block,
             k.pc = "balances", k.mode = "reorg", k.block = b, k.target = j.target, k.ancestor = j.ancestor
      PROVE  ChainInv'
  <2>0. HeightOf[j.ancestor] \in Nat /\ HeightOf[j.block] \in Nat
    <3>1. ChainOf(j.target) \subseteq Blocks BY <1>2, ChainNext, ChainFacts DEF Descends
    <3>2. j.ancestor \in Heads /\ j.block \in Heads BY <1>2, <3>1 DEF Heads
    <3> QED BY <3>2, HeightFacts
  <2>1. b \in Branch(j.ancestor, j.target) BY <1>2, <1>5, <2>0 DEF Branch
  <2>2. \A c \in Branch(j.ancestor, j.target) : rows[c].known BY <1>2 DEF ChainInv, BranchKnown
  <2> HIDE DEF k, j
  <2>3. BranchKnown(job[Busy])' BY <1>3, <1>5, <2>1, <2>2 DEF BranchKnown, k, Branch
  <2>4. CASE state = Junk BY <1>3, <2>3, <2>4 DEF ChainInv
  <2>5. CASE state # Junk
    <3>1. Whole(state) /\ state = Parent[b] /\ \A c \in Blocks : undo[c].kept => UndoRight(undo[c], c)
      BY <2>5, <1>1, <1>5 DEF ChainInv, Standing, j, Applying, Undoing
    <3>2. \A c \in Blocks : undo'[c].kept => UndoRight(undo'[c], c) BY <3>1, <1>5, StoreUndoRight
    <3>3. Midway(job[Busy])' BY <3>1, <1>3, <1>5 DEF Midway, Where, AtBlock, Whole, k
    <3>4. Standing(job[Busy])' BY <1>5, <3>3 DEF Standing, k, Applying, Undoing
    <3>5. (\A c \in Blocks : undo[c].kept => UndoRight(undo[c], c))' BY <3>2 DEF UndoRight
    <3> QED BY <3>4, <3>5, <1>3, <2>3, <2>5 DEF ChainInv
  <2> QED BY <2>4, <2>5
<1>6. \/ k.pc \in {"idle", "reweigh"} /\ k.mode = "none" /\ undo' = undo
      \/ \E b \in Blocks : /\ b \in Chain[j.target] /\ StoreUndo(b)
                           /\ HeightOf[b] = HeightOf[j.block] + 1 /\ Parent[b] = j.block
                           /\ k.pc = "balances" /\ k.mode = "reorg" /\ k.block = b /\ k.target = j.target /\ k.ancestor = j.ancestor
  <2> HIDE DEF k, j
  <2> QED BY TypeReplay DEF k, j
<1> QED BY <1>4, <1>5, <1>6

\* A step that leaves the five trees, the undo records and the busy job alone.
LEMMA ChainSame ==
    ASSUME TypeInv, ChainInv, UNCHANGED <<state, height, summary, canon, tip, undo>>, job'[Busy] = job[Busy],
           Busy \in Tasks, \A c \in Blocks : rows[c].known => rows'[c].known
    PROVE  ChainInv'
<1> DEFINE j == job[Busy]
<1>1. JobShape(j) BY TypeFacts
<1>2. j.mode = "reorg" => Branch(j.ancestor, j.target) \subseteq Blocks BY <1>1, ChainFacts DEF Branch, Descends, JobShape
<1>3. j.mode = "reorg" /\ j.pc \in Applying => j.block \in Blocks BY <1>1 DEF JobShape
<1>4. BranchKnown(job[Busy])' BY <1>2, <1>3 DEF ChainInv, BranchKnown, Branch
<1>5. CASE state = Junk
  <2>1. \E c \in BadRoots : rows'[c].known BY <1>5, ForkChoiceAssumption DEF ChainInv
  <2> QED BY <1>4, <1>5, <2>1 DEF ChainInv
<1>6. CASE state # Junk
  <2>1. Standing(j) BY <1>6 DEF ChainInv
  <2>2. Standing(job[Busy])' BY <2>1 DEF Standing, Midway, Where, Whole, UndoRight
  <2>3. (\A c \in Blocks : undo[c].kept => UndoRight(undo[c], c))' BY <1>6 DEF ChainInv, UndoRight
  <2> QED BY <2>2, <2>3, <1>4, <1>6 DEF ChainInv
<1> QED BY <1>5, <1>6

\* A task that starts a block on top of the store.
LEMMA ChainStart ==
    ASSUME TypeInv, ChainInv, UNCHANGED <<state, height, summary, canon, tip, rows>>, NEW b \in Blocks, StoreUndo(b),
           job[Busy].pc = "idle", NEW m \in {"remote", "mine"}, job'[Busy] = StartedJob(m, b, state),
           state # Junk => state = Parent[b] /\ b \notin BadRoots
    PROVE  ChainInv'
<1> DEFINE k == job'[Busy]
<1>1. state \in States BY DEF TypeInv, TypeOK
<1>2. k.pc = "balances" /\ k.mode = m /\ k.block = b
  <2> HIDE DEF k
  <2> QED BY <1>1, StartJob DEF k
<1> HIDE DEF k
<1>3. BranchKnown(job[Busy])' BY <1>2 DEF BranchKnown, k
<1>4. CASE state = Junk BY <1>3, <1>4 DEF ChainInv
<1>5. CASE state # Junk
  <2>1. Whole(state) /\ state = Parent[b] /\ \A c \in Blocks : undo[c].kept => UndoRight(undo[c], c)
    BY <1>5 DEF ChainInv, Standing, Applying, Undoing
  <2>2. \A c \in Blocks : undo'[c].kept => UndoRight(undo'[c], c) BY <2>1, StoreUndoRight
  <2>3. Midway(job[Busy])' BY <2>1, <1>2 DEF Midway, Where, AtBlock, Whole, k
  <2>4. Standing(job[Busy])' BY <1>2, <2>3, <1>5 DEF Standing, k, Applying, Undoing
  <2>5. (\A c \in Blocks : undo[c].kept => UndoRight(undo[c], c))' BY <2>2 DEF UndoRight
  <2> QED BY <2>4, <2>5, <1>3, <1>5 DEF ChainInv
<1> QED BY <1>4, <1>5

\* A block built on the canonical head stands on the balances.
LEMMA ChainPrepare ==
    ASSUME TypeInv, LoneInv, ChainInv, NEW b \in Blocks, PrepareBlock(b)
    PROVE  ChainInv'
<1>1. Busy = "miner" BY DEF PrepareBlock, Busy
<1>2. job'["miner"] = StartedJob("mine", b, state) BY TypePrepare
<1>3. /\ job["miner"].pc = "idle" /\ StoreUndo(b) /\ UNCHANGED <<state, height, summary, canon, tip, rows>>
      /\ ExpectedParent = Parent[b] /\ (b \in BadRoots) = (state # Parent[b])
  BY DEF PrepareBlock
<1>4. ASSUME state # Junk PROVE state = Parent[b]
  <2>1. Whole(state) BY <1>1, <1>3, <1>4 DEF ChainInv, Standing, Applying, Undoing
  <2>2. state \in Heads BY <1>4 DEF TypeInv, TypeOK, States, Heads
  <2>3. CASE state = Genesis
    <3>1. height = 0 BY <2>1, <2>3, HeightFacts DEF Whole
    <3> QED BY <3>1, <1>3, <2>3 DEF ExpectedParent
  <2>4. CASE state # Genesis
    <3>1. state \in Blocks BY <2>2, <2>4 DEF Heads
    <3>2. height = HeightOf[state] /\ height # 0 /\ height \in Heights BY <2>1, <3>1, HeightFacts DEF Whole
    <3>3. canon[height] = state BY <2>1, <3>1, <3>2, IndexHead DEF Whole
    <3>4. state # None BY <3>1, ForkChoiceAssumption
    <3> QED BY <3>2, <3>3, <3>4, <1>3 DEF ExpectedParent
  <2> QED BY <2>3, <2>4
<1>5. state # Junk => state = Parent[b] /\ b \notin BadRoots BY <1>3, <1>4
<1> QED BY <1>1, <1>2, <1>3, <1>5, ChainStart

\* Every step but a crash keeps the invariant.
LEMMA ChainStep ==
    ASSUME TypeInv, TypeInv', LoneInv, ChainInv, [Next]_vars, ~CrashRestart
    PROVE  ChainInv'
<1>0. /\ Busy \in Tasks
      /\ TakeStep \/ ReorgStep => Mineable = {}
  BY WhoActs
<1>k. \A c \in Blocks : rows[c].known => rows'[c].known BY KnownStays
<1>1. CASE \E t \in Tasks : ApplyStep(t) BY <1>1, ChainApply
<1>2. CASE TakeStep
  <2>1. Busy = "worker" BY <1>0, <1>2 DEF Busy
  <2>2. PICK b \in Blocks : SkipBlock(b) \/ RejectBlock(b) \/ ApplyNext(b) \/ SameHeightFork(b) BY <1>2 DEF TakeStep
  <2>3. CASE SkipBlock(b) \/ RejectBlock(b)
    <3>1. UNCHANGED <<state, height, summary, canon, tip, undo, job>> BY <2>3 DEF SkipBlock, RejectBlock, trees
    <3> QED BY <3>1, <1>0, <1>k, ChainSame
  <2>4. CASE ApplyNext(b)
    <3>1. job'["worker"] = StartedJob("remote", b, state) BY <2>4, TypeApplyNext
    <3>2. /\ job["worker"].pc = "idle" /\ StoreUndo(b) /\ UNCHANGED <<state, height, summary, canon, tip, rows>>
          /\ state = Parent[b] /\ b \notin BadRoots
      BY <2>4 DEF ApplyNext, TakeBlock
    <3> QED BY <2>1, <3>1, <3>2, ChainStart
  <2>5. CASE SameHeightFork(b)
    <3>1. job'["worker"].pc = "choose" /\ job'["worker"].mode = "none" BY <2>5, TypeSameHeightFork
    <3>2. job["worker"].pc = "idle" /\ UNCHANGED <<state, height, summary, canon, tip, undo>> BY <2>5 DEF SameHeightFork, TakeBlock
    <3> QED BY <2>1, <3>1, <3>2, <1>k, ChainRest DEF Applying, Undoing
  <2> QED BY <2>2, <2>3, <2>4, <2>5
<1>3. CASE ReorgStep
  <2>1. Busy = "worker" BY <1>0, <1>3 DEF Busy
  <2>2. CASE TakeReorg
    <3>1. job'["worker"].pc = "reweigh" /\ job'["worker"].mode = "none" BY <2>2, TypeTakeReorg
    <3>2. job["worker"].pc = "idle" /\ UNCHANGED <<state, height, summary, canon, tip, undo>> BY <2>2 DEF TakeReorg, trees
    <3> QED BY <2>1, <3>1, <3>2, <1>k, ChainRest DEF Applying, Undoing
  <2>3. CASE ReweighBranch
    <3>1. job'["worker"].pc = "choose" /\ job'["worker"].mode = "none" BY <2>3, TypeReweigh
    <3>2. job["worker"].pc = "reweigh" /\ UNCHANGED <<state, height, summary, canon, tip, undo>> BY <2>3 DEF ReweighBranch
    <3> QED BY <2>1, <3>1, <3>2, <1>k, ChainRest DEF Applying, Undoing
  <2>4. CASE LeaveBranch \/ KeepBranch \/ ReplayRefused
    <3>1. job'["worker"].pc \in {"idle", "reweigh"} /\ job'["worker"].mode = "none" /\ UNCHANGED <<state, height, summary, canon, tip, undo>>
      BY <2>4, TypeStop DEF trees
    <3>2. job["worker"].pc \in {"reweigh", "choose", "replay"} BY <2>4 DEF LeaveBranch, KeepBranch, ReplayRefused
    <3> QED BY <2>1, <3>1, <3>2, <1>k, ChainRest DEF Applying, Undoing
  <2> QED BY <1>3, <2>1, <2>2, <2>3, <2>4, ChainChoose, ChainUnwind, ChainUndo, ChainUndoFlag, ChainReplay DEF ReorgStep
<1>4. CASE LoopStep
  <2>1. UNCHANGED <<state, height, summary, canon, tip, undo, job>>
    BY <1>4 DEF LoopStep, GossipBlock, GossipOrphan, RefuseCandidate, FetchedBlock, OrphanExpires, BackfillServed, BackfillLost, BarExpires, trees
  <2> QED BY <2>1, <1>0, <1>k, ChainSame
<1>5. CASE \E b \in Blocks : PrepareBlock(b) BY <1>5, ChainPrepare
<1>6. CASE \E h \in prunes : PruneHistory(h)
  <2>1. PICK h \in prunes : PruneHistory(h) BY <1>6
  <2>2. UNCHANGED <<state, height, summary, canon, tip, rows, job>> /\ \A c \in Blocks : undo'[c] \in {undo[c], NoUndo} BY <2>1 DEF PruneHistory
  <2>3. ~NoUndo.kept BY DEF NoUndo
  <2>4. \A c \in Blocks : undo'[c].kept => undo'[c] = undo[c] BY <2>2, <2>3
  <2>5. BranchKnown(job[Busy])' BY <2>2 DEF ChainInv, BranchKnown, Branch
  <2>6. CASE state = Junk BY <2>2, <2>5, <2>6 DEF ChainInv
  <2>7. CASE state # Junk
    <3>1. Standing(job[Busy])' BY <2>2, <2>7 DEF ChainInv, Standing, Midway, Where, Whole, UndoRight
    <3>2. \A c \in Blocks : undo'[c].kept => UndoRight(undo'[c], c) BY <2>4, <2>7 DEF ChainInv
    <3>3. (\A c \in Blocks : undo[c].kept => UndoRight(undo[c], c))' BY <3>2 DEF UndoRight
    <3> QED BY <3>1, <3>3, <2>2, <2>5, <2>7 DEF ChainInv
  <2> QED BY <2>6, <2>7
<1>7. CASE \E v \in Validators, w \in Weights : CaacComplete(v, w)
  <2>1. UNCHANGED <<state, height, summary, canon, tip, undo, job>> BY <1>7 DEF CaacComplete, trees
  <2> QED BY <2>1, <1>0, <1>k, ChainSame
<1>9. CASE UNCHANGED vars
  <2>1. UNCHANGED <<state, height, summary, canon, tip, undo, job>> BY <1>9 DEF vars, trees
  <2> QED BY <2>1, <1>0, <1>k, ChainSame
<1> QED BY <1>1, <1>2, <1>3, <1>4, <1>5, <1>6, <1>7, <1>9 DEF Next

-----------------------------------------------------------------------------
(* Undo records and pruning.                                                 *)

\* A block can be unwound, or one more than PruneDepth above it is recorded.
Safe(b) == undo[b].kept \/ \E c \in Blocks : rows[c].known /\ HeightOf[b] < HeightOf[c] - PruneDepth

\* The invariant behind pruning: a scheduled prune is for the height of a recorded block,
\* and no block of the chain lost its record to anything else.
KeptInv ==
    /\ job[Busy].pc \in {"canon", "tip"} => rows[job[Busy].block].known
    /\ \A h \in prunes : \E c \in Blocks : rows[c].known /\ HeightOf[c] = h
    /\ state # Junk => \A b \in ChainOf(state) : Safe(b)
    /\ state # Junk /\ job[Busy].pc = "balances" => Safe(job[Busy].block)

\* How the busy task comes to be at the steps the invariant speaks of.
LEMMA JobGoes ==
    ASSUME TypeInv, LoneInv, [Next]_vars, ~CrashRestart
    PROVE  \/ job'[Busy] = job[Busy]
           \/ job'[Busy].pc \notin {"balances", "canon", "tip"}
           \/ job'[Busy].pc = "balances" /\ job'[Busy].block \in Blocks /\ StoreUndo(job'[Busy].block)
           \/ job'[Busy].pc = "canon" /\ job'[Busy].block = job[Busy].block /\ RecordRow(Busy)
           \/ job'[Busy].pc = "tip" /\ job'[Busy].block = job[Busy].block /\ job[Busy].pc = "canon"
<1> DEFINE j == job[Busy] k == job'[Busy]
<1>0. /\ Busy \in Tasks
      /\ TakeStep \/ ReorgStep => Mineable = {}
  BY WhoActs
<1>1. j \in JobRecords /\ JobShape(j) /\ job \in [Tasks -> JobRecords] BY <1>0, TypeFacts
<1>g. ASSUME NEW t \in Tasks, t = Busy, NEW q, Goto(t, q) PROVE k.pc = q /\ k.block = j.block
  <2>1. k = [j EXCEPT !.pc = q] BY <1>1, <1>g DEF Goto
  <2> HIDE DEF k, j
  <2> QED BY <2>1, <1>1 DEF JobRecords
<1>2. CASE \E t \in Tasks : ApplyStep(t)
  <2>1. ApplyStep(Busy) BY <1>2, WhoActs
  <2>2. CASE ApplyBalances(Busy)
    <3> DEFINE s == IF j.mode = "mine" THEN state = j.base ELSE state = Parent[j.block] /\ j.block \notin BadRoots
    <3>1. job' = [job EXCEPT ![Busy] = [j EXCEPT !.pc = "meta", !.same = s]] BY <2>2, Zenon DEF ApplyBalances, SetJob
    <3> HIDE DEF s, j
    <3>2. k = [j EXCEPT !.pc = "meta", !.same = s] BY <1>0, <1>1, <3>1
    <3> HIDE DEF k
    <3>3. k.pc = "meta" BY <3>2, <1>1 DEF JobRecords
    <3> QED BY <3>3 DEF k
  <2>3. CASE ApplyMeta(Busy)
    <3>1. CASE Goto(Busy, "summary") BY <3>1, <1>g, <1>0
    <3>2. CASE Done(Busy) BY <3>2, <1>0, DoneType
    <3> QED BY <2>3, <3>1, <3>2 DEF ApplyMeta
  <2>4. CASE RecordSummary(Busy) BY <2>4, <1>g, <1>0 DEF RecordSummary
  <2>5. CASE RecordRow(Busy)
    <3>1. k = [j EXCEPT !.pc = "canon", !.weight = RowWeight(j)] BY <1>0, <2>5, RecordRowFacts
    <3>2. k.pc = "canon" /\ k.block = j.block
      <4> HIDE DEF j, k
      <4> QED BY <3>1, <1>1 DEF JobRecords
    <3> QED BY <2>5, <3>2
  <2>6. CASE RecordCanonical(Busy)
    <3>1. Goto(Busy, "tip") /\ j.pc = "canon" BY <2>6 DEF RecordCanonical
    <3>2. k.pc = "tip" /\ k.block = j.block BY <3>1, <1>g, <1>0
    <3> QED BY <3>1, <3>2
  <2>7. CASE RecordTip(Busy)
    <3>1. CASE Goto(Busy, "replay") BY <3>1, <1>g, <1>0
    <3>2. CASE Done(Busy) BY <3>2, <1>0, DoneType
    <3> QED BY <2>7, <3>1, <3>2 DEF RecordTip
  <2> QED BY <2>1, <2>2, <2>3, <2>4, <2>5, <2>6, <2>7 DEF ApplyStep
<1>3. CASE TakeStep
  <2>1. Busy = "worker" BY <1>0, <1>3 DEF Busy
  <2>2. PICK b \in Blocks : SkipBlock(b) \/ RejectBlock(b) \/ ApplyNext(b) \/ SameHeightFork(b) BY <1>3 DEF TakeStep
  <2>3. CASE SkipBlock(b) \/ RejectBlock(b) BY <2>3 DEF SkipBlock, RejectBlock
  <2>4. CASE ApplyNext(b)
    <3>1. state \in States BY DEF TypeInv, TypeOK
    <3>2. job'["worker"] = StartedJob("remote", b, state) /\ StoreUndo(b) BY <2>4, TypeApplyNext DEF ApplyNext
    <3>3. k.pc = "balances" /\ k.block = b BY <2>1, <3>1, <3>2, StartJob
    <3> QED BY <3>2, <3>3
  <2>5. CASE SameHeightFork(b) BY <2>1, <2>5, TypeSameHeightFork
  <2> QED BY <2>2, <2>3, <2>4, <2>5
<1>4. CASE ReorgStep
  <2>1. Busy = "worker" BY <1>0, <1>4 DEF Busy
  <2>2. CASE TakeReorg \/ ReweighBranch \/ LeaveBranch \/ KeepBranch \/ ReplayRefused \/ ChooseBranch \/ UndoFlag
    BY <2>1, <2>2, TypeTakeReorg, TypeReweigh, TypeStop, TypeChooseBranch, TypeUndoFlag
  <2>3. CASE Unwind
    <3>1. \/ k = [j EXCEPT !.pc = "replay"] \/ k = [j EXCEPT !.pc = "u_blocks", !.undo = undo[j.block]]
          \/ k.pc \in {"idle", "reweigh"}
      BY <2>1, <2>3, TypeUnwind
    <3>2. k.pc \in {"replay", "u_blocks", "idle", "reweigh"}
      <4> HIDE DEF j, k
      <4> QED BY <3>1, <1>1 DEF JobRecords
    <3> QED BY <3>2
  <2>4. CASE UndoBlocks \/ UndoCanonical \/ UndoTip \/ UndoMeta \/ UndoBalances
    <3>1. k.pc \in {"u_canon", "u_tip", "u_meta", "u_balances", "u_flag"}
      BY <2>1, <2>4, <1>0, <1>g DEF UndoBlocks, UndoCanonical, UndoTip, UndoMeta, UndoBalances
    <3> QED BY <3>1
  <2>5. CASE Replay
    <3>1. \/ k.pc \in {"idle", "reweigh"}
          \/ \E b \in Blocks : StoreUndo(b) /\ k.pc = "balances" /\ k.block = b
      BY <2>1, <2>5, TypeReplay
    <3> QED BY <3>1
  <2> QED BY <1>4, <2>2, <2>3, <2>4, <2>5 DEF ReorgStep
<1>5. CASE LoopStep \/ (\E h \in prunes : PruneHistory(h)) \/ (\E v \in Validators, w \in Weights : CaacComplete(v, w)) \/ UNCHANGED vars
  BY <1>5 DEF LoopStep, GossipBlock, GossipOrphan, RefuseCandidate, FetchedBlock, OrphanExpires, BackfillServed, BackfillLost, BarExpires, PruneHistory, CaacComplete, vars
<1>6. CASE \E b \in Blocks : PrepareBlock(b)
  <2>1. PICK b \in Blocks : PrepareBlock(b) BY <1>6
  <2>2. Busy = "miner" BY <2>1 DEF PrepareBlock, Busy
  <2>3. state \in States BY DEF TypeInv, TypeOK
  <2>4. job'["miner"] = StartedJob("mine", b, state) /\ StoreUndo(b) BY <2>1, TypePrepare DEF PrepareBlock
  <2>5. k.pc = "balances" /\ k.block = b BY <2>2, <2>3, <2>4, StartJob
  <2> QED BY <2>4, <2>5
<1> QED BY <1>2, <1>3, <1>4, <1>5, <1>6 DEF Next

\* How the balances move: up to a child, down to the parent, or not at all.
LEMMA StateMoves ==
    ASSUME TypeInv, LoneInv, ChainInv, [Next]_vars, state' # Junk
    PROVE  /\ state # Junk
           /\ \/ state' = state
              \/ job[Busy].pc = "balances" /\ job[Busy].block \in Blocks /\ state' = job[Busy].block /\ state = Parent[job[Busy].block]
              \/ state \in Blocks /\ state' = Parent[state]
<1>1. CASE state' = state BY <1>1
<1>2. CASE state' # state
  <2>0. "worker" \in Tasks BY DEF Tasks
  <2>1. CASE \E t \in Tasks : ApplyStep(t)
    <3>1. PICK t \in Tasks : ApplyStep(t) BY <2>1
    <3>2. ApplyBalances(t) /\ t = Busy BY <3>1, <1>2, WhoActs DEF ApplyStep, ApplyMeta, RecordSummary, RecordRow, RecordCanonical, RecordTip
    <3>3. job[Busy].pc = "balances" /\ state' = job[Busy].block /\ state = Parent[job[Busy].block] BY <3>2 DEF ApplyBalances
    <3>4. job[Busy].block \in Blocks BY <3>2, <3>3, TypeFacts DEF JobShape, Applying
    <3>5. state # Junk BY <3>3, <3>4, HeightFacts, ForkChoiceAssumption DEF Heads
    <3> QED BY <3>3, <3>4, <3>5
  <2>2. CASE ReorgStep
    <3>1. UndoBalances
      BY <2>2, <1>2 DEF ReorgStep, TakeReorg, ReweighBranch, LeaveBranch, KeepBranch, ChooseBranch, Unwind, UndoBlocks, UndoCanonical, UndoTip, UndoMeta, UndoFlag, Replay, ReplayRefused, trees
    <3>2. Busy = "worker" BY <2>2, WhoActs DEF Busy
    <3> DEFINE j == job["worker"]
    <3>3. j.pc = "u_balances" /\ state = j.block /\ state' = j.undo.state BY <3>1 DEF UndoBalances
    <3>4. j.block \in Blocks BY <3>3, <2>0, TypeFacts DEF JobShape, Undoing
    <3>5. state # Junk BY <3>3, <3>4, ForkChoiceAssumption
    <3>6. UndoRight(j.undo, j.block) BY <3>2, <3>3, <3>5 DEF ChainInv, Standing, Undoing
    <3> QED BY <3>3, <3>4, <3>5, <3>6 DEF UndoRight
  <2>3. CASE TakeStep
    BY <2>3, <1>2 DEF TakeStep, SkipBlock, RejectBlock, ApplyNext, SameHeightFork, trees
  <2>4. CASE LoopStep
    BY <2>4, <1>2 DEF LoopStep, GossipBlock, GossipOrphan, RefuseCandidate, FetchedBlock, OrphanExpires, BackfillServed, BackfillLost, BarExpires, trees
  <2>5. CASE (\E b \in Blocks : PrepareBlock(b)) \/ (\E h \in prunes : PruneHistory(h)) \/ (\E v \in Validators, w \in Weights : CaacComplete(v, w)) \/ CrashRestart \/ UNCHANGED vars
    BY <2>5, <1>2 DEF PrepareBlock, PruneHistory, CaacComplete, CrashRestart, trees, vars
  <2> QED BY <2>1, <2>2, <2>3, <2>4, <2>5 DEF Next
<1> QED BY <1>1, <1>2

\* Storing a record loses none.
LEMMA StoreUndoKeeps ==
    ASSUME TypeInv, NEW b \in Blocks, StoreUndo(b)
    PROVE  undo'[b].kept /\ \A c \in Blocks : undo[c].kept => undo'[c].kept
<1>1. PICK r : r = [kept |-> TRUE, state |-> state, height |-> height, summary |-> summary[HeightOf[b]],
                    canon |-> canon[HeightOf[b]], tip |-> tip]
  OBVIOUS
<1>2. r.kept BY <1>1
<1>3. undo'[b] = r /\ \A c \in Blocks : c # b => undo'[c] = undo[c] BY <1>1, StoreUndoType
<1> QED BY <1>2, <1>3

\* An undo record goes only when a block far enough above it is recorded.
LEMMA SafeStays ==
    ASSUME TypeInv, LoneInv, KeptInv, [Next]_vars, NEW b \in Blocks, Safe(b)
    PROVE  Safe(b)'
<1>k. \A c \in Blocks : rows[c].known => rows'[c].known BY KnownStays
<1>1. CASE ~undo[b].kept BY <1>1, <1>k DEF Safe
<1>2. CASE undo[b].kept
  <2>1. CASE undo' = undo BY <1>2, <2>1 DEF Safe
  <2>2. CASE \E c \in Blocks : StoreUndo(c)
    <3>1. PICK c \in Blocks : StoreUndo(c) BY <2>2
    <3>2. undo'[b].kept BY <1>2, <3>1, StoreUndoKeeps
    <3> QED BY <3>2 DEF Safe
  <2>3. CASE \E h \in prunes : PruneHistory(h)
    <3>1. PICK h \in prunes : PruneHistory(h) BY <2>3
    <3>2. PICK c \in Blocks : rows[c].known /\ HeightOf[c] = h BY DEF KeptInv
    <3>3. undo'[b] = IF HeightOf[b] < h - PruneDepth THEN NoUndo ELSE undo[b] BY <3>1 DEF PruneHistory
    <3>4. CASE HeightOf[b] < h - PruneDepth BY <3>2, <3>4, <1>k DEF Safe
    <3>5. CASE ~(HeightOf[b] < h - PruneDepth) BY <3>3, <3>5, <1>2 DEF Safe
    <3> QED BY <3>4, <3>5
  <2>4. undo' = undo \/ (\E c \in Blocks : StoreUndo(c)) \/ (\E h \in prunes : PruneHistory(h))
    <3>1. CASE \E t \in Tasks : ApplyStep(t) BY <3>1 DEF ApplyStep, ApplyBalances, ApplyMeta, RecordSummary, RecordRow, RecordCanonical, RecordTip
    <3>2. CASE TakeStep BY <3>2 DEF TakeStep, SkipBlock, RejectBlock, ApplyNext, SameHeightFork, trees
    <3>3. CASE ReorgStep
      <4>1. CASE Replay BY <4>1, TypeReplay
      <4>2. CASE ~Replay BY <3>3, <4>2 DEF ReorgStep, TakeReorg, ReweighBranch, LeaveBranch, KeepBranch, ChooseBranch, Unwind, UndoBlocks, UndoCanonical, UndoTip, UndoMeta, UndoBalances, UndoFlag, ReplayRefused, trees
      <4> QED BY <4>1, <4>2
    <3>4. CASE LoopStep BY <3>4 DEF LoopStep, GossipBlock, GossipOrphan, RefuseCandidate, FetchedBlock, OrphanExpires, BackfillServed, BackfillLost, BarExpires, trees
    <3>5. CASE (\E c \in Blocks : PrepareBlock(c)) \/ (\E v \in Validators, w \in Weights : CaacComplete(v, w)) \/ CrashRestart \/ UNCHANGED vars
      BY <3>5 DEF PrepareBlock, CaacComplete, CrashRestart, trees, vars
    <3> QED BY <3>1, <3>2, <3>3, <3>4, <3>5 DEF Next
  <2> QED BY <2>1, <2>2, <2>3, <2>4
<1> QED BY <1>1, <1>2

\* Every step but a crash keeps the invariant.
LEMMA KeptStep ==
    ASSUME TypeInv, TypeInv', LoneInv, ChainInv, KeptInv, [Next]_vars, ~CrashRestart
    PROVE  KeptInv'
<1> DEFINE j == job[Busy] k == job'[Busy]
<1>k. \A c \in Blocks : rows[c].known => rows'[c].known BY KnownStays
<1>0. Busy \in Tasks BY WhoActs
<1>j. JobShape(j) /\ (k.pc \in Applying => k.block \in Blocks) BY <1>0, TypeFacts DEF TypeInv, JobsShape, JobShape
<1>1. k.pc \in {"canon", "tip"} => rows'[k.block].known
  <2> SUFFICES ASSUME k.pc \in {"canon", "tip"} PROVE rows'[k.block].known OBVIOUS
  <2>1. CASE RecordRow(Busy) /\ k.block = j.block BY <2>1, <1>0, RecordRowFacts
  <2>2. CASE j.pc \in {"canon", "tip"} /\ k.block = j.block
    <3>1. j.block \in Blocks BY <2>2, <1>j DEF JobShape, Applying
    <3> QED BY <3>1, <2>2, <1>k DEF KeptInv
  <2> QED BY <2>1, <2>2, JobGoes
<1>2. \A h \in prunes' : \E c \in Blocks : rows'[c].known /\ HeightOf[c] = h
  <2>1. ASSUME NEW h \in prunes', h \notin prunes PROVE rows[j.block].known /\ j.block \in Blocks /\ h = HeightOf[j.block]
    <3>1. CASE \E t \in Tasks : ApplyStep(t)
      <4>1. PICK t \in Tasks : ApplyStep(t) BY <3>1
      <4>2. RecordTip(t) /\ t = Busy BY <4>1, <2>1, WhoActs DEF ApplyStep, ApplyBalances, ApplyMeta, RecordSummary, RecordRow, RecordCanonical
      <4>3. j.pc = "tip" /\ h = HeightOf[j.block] BY <4>2, <2>1 DEF RecordTip
      <4>4. j.block \in Blocks BY <4>3, <1>j DEF JobShape, Applying
      <4> QED BY <4>3, <4>4 DEF KeptInv
    <3>2. CASE TakeStep BY <3>2, <2>1 DEF TakeStep, SkipBlock, RejectBlock, ApplyNext, SameHeightFork
    <3>3. CASE ReorgStep BY <3>3, <2>1 DEF ReorgStep, TakeReorg, ReweighBranch, LeaveBranch, KeepBranch, ChooseBranch, Unwind, UndoBlocks, UndoCanonical, UndoTip, UndoMeta, UndoBalances, UndoFlag, Replay, ReplayRefused
    <3>4. CASE LoopStep BY <3>4, <2>1 DEF LoopStep, GossipBlock, GossipOrphan, RefuseCandidate, FetchedBlock, OrphanExpires, BackfillServed, BackfillLost, BarExpires
    <3>5. CASE (\E c \in Blocks : PrepareBlock(c)) \/ (\E g \in prunes : PruneHistory(g)) \/ (\E v \in Validators, w \in Weights : CaacComplete(v, w)) \/ UNCHANGED vars
      BY <3>5, <2>1 DEF PrepareBlock, CaacComplete, PruneHistory, vars
    <3> QED BY <3>1, <3>2, <3>3, <3>4, <3>5 DEF Next
  <2>2. ASSUME NEW h \in prunes' PROVE \E c \in Blocks : rows'[c].known /\ HeightOf[c] = h
    <3>1. CASE h \in prunes BY <3>1, <1>k DEF KeptInv
    <3>2. CASE h \notin prunes BY <2>1, <3>2, <1>k
    <3> QED BY <3>1, <3>2
  <2> QED BY <2>2
<1>3. ASSUME state' # Junk PROVE \A b \in ChainOf(state') : Safe(b)'
  <2>1. state # Junk /\ \A b \in ChainOf(state) : Safe(b) BY <1>3, StateMoves DEF KeptInv
  <2>2. \A b \in ChainOf(state) : b \in Blocks
    <3>1. state \in Heads BY <2>1 DEF TypeInv, TypeOK, States, Heads
    <3> QED BY <3>1, ChainFacts DEF ChainOf, Heads, Descends
  <2>3. \A b \in ChainOf(state) : Safe(b)' BY <2>1, <2>2, SafeStays
  <2>4. CASE state' = state BY <2>3, <2>4
  <2>5. CASE j.pc = "balances" /\ j.block \in Blocks /\ state' = j.block /\ state = Parent[j.block]
    <3>0. PICK d \in Blocks : d = j.block BY <2>5
    <3>1. Safe(d) BY <2>1, <2>5, <3>0 DEF KeptInv
    <3>2. Safe(d)' BY <3>1, SafeStays
    <3>3. ChainOf(state') = {d} \cup ChainOf(state) BY <2>5, <3>0, ChainNext
    <3>4. ASSUME NEW b \in ChainOf(state') PROVE Safe(b)'
      <4>1. CASE b \in ChainOf(state) BY <4>1, <2>3
      <4>2. CASE b = d BY <4>2, <3>2
      <4> QED BY <3>3, <3>4, <4>1, <4>2
    <3> QED BY <3>4
  <2>6. CASE state \in Blocks /\ state' = Parent[state]
    <3>1. ChainOf(state') \subseteq ChainOf(state) BY <2>6, ChainNext
    <3> QED BY <3>1, <2>3
  <2> QED BY <1>3, <2>4, <2>5, <2>6, StateMoves
<1>4. ASSUME state' # Junk, k.pc = "balances" PROVE Safe(job[Busy].block)'
  <2>1. k.block \in Blocks BY <1>4, <1>j DEF Applying
  <2>2. CASE k = j
    <3>0. PICK d \in Blocks : d = j.block BY <2>1, <2>2
    <3>1. Safe(d) BY <1>4, <2>2, <3>0, StateMoves DEF KeptInv
    <3>2. Safe(d)' BY <3>1, SafeStays
    <3> QED BY <3>0, <3>2, <2>2 DEF Safe
  <2>3. CASE StoreUndo(k.block)
    <3>0. PICK d \in Blocks : d = k.block BY <2>1
    <3>1. undo'[d].kept BY <3>0, <2>3, StoreUndoKeeps
    <3> QED BY <3>0, <3>1 DEF Safe
  <2> QED BY <1>4, <2>2, <2>3, JobGoes
<1> QED BY <1>1, <1>2, <1>3, <1>4 DEF KeptInv

\* A fresh store stands on genesis.
LEMMA ChainInit == Init => ChainInv /\ KeptInv /\ crashes = 0
<1> SUFFICES ASSUME Init PROVE ChainInv /\ KeptInv /\ crashes = 0 OBVIOUS
<1>1. PICK i : i = IdleJob OBVIOUS
<1>2. i.pc = "idle" /\ i.mode = "none" BY <1>1, IdleType
<1>3. job = [t \in Tasks |-> i] BY <1>1 DEF Init
<1>4. job[Busy] = i BY <1>3 DEF Tasks, Busy
<1>5. ChainOf(Genesis) = {} BY DEF ChainOf
<1>6. IndexOf(Genesis) = [h \in Heights |-> None] BY <1>5 DEF IndexOf
<1>7. state = Genesis /\ Genesis # Junk BY ForkChoiceAssumption DEF Init
<1>8. tip.block = None BY DEF Init, NoTip
<1>9. Whole(state) BY <1>6, <1>7, <1>8, HeightFacts DEF Whole, Init, TipOf
<1>10. \A b \in Blocks : ~undo[b].kept BY DEF Init, NoUndo
<1>11. ChainInv BY <1>2, <1>4, <1>7, <1>9, <1>10 DEF ChainInv, Standing, BranchKnown, Applying, Undoing
<1>12. KeptInv BY <1>2, <1>4, <1>5, <1>7 DEF KeptInv, Init
<1> QED BY <1>11, <1>12 DEF Init

\* All of it: what is said of the chain holds until the first crash.
StoreInv ==
    /\ TypeInv /\ LoneInv /\ crashes \in Nat
    /\ crashes = 0 => ChainInv /\ KeptInv

\* A crash is counted.
LEMMA CrashesCount == ASSUME crashes \in Nat, [Next]_vars PROVE crashes' \in Nat /\ (crashes' = 0 => crashes = 0 /\ ~CrashRestart)
<1>1. CASE CrashRestart BY <1>1 DEF CrashRestart
<1>2. CASE ~CrashRestart
  <2>1. crashes' = crashes
    <3>1. CASE \E t \in Tasks : ApplyStep(t) BY <3>1 DEF ApplyStep, ApplyBalances, ApplyMeta, RecordSummary, RecordRow, RecordCanonical, RecordTip, history
    <3>2. CASE TakeStep BY <3>2 DEF TakeStep, SkipBlock, RejectBlock, ApplyNext, SameHeightFork, history
    <3>3. CASE ReorgStep BY <3>3 DEF ReorgStep, TakeReorg, ReweighBranch, LeaveBranch, KeepBranch, ChooseBranch, Unwind, UndoBlocks, UndoCanonical, UndoTip, UndoMeta, UndoBalances, UndoFlag, Replay, ReplayRefused, history
    <3>4. CASE LoopStep BY <3>4 DEF LoopStep, GossipBlock, GossipOrphan, RefuseCandidate, FetchedBlock, OrphanExpires, BackfillServed, BackfillLost, BarExpires, Arrives, history
    <3>5. CASE (\E c \in Blocks : PrepareBlock(c)) \/ (\E g \in prunes : PruneHistory(g)) \/ (\E v \in Validators, w \in Weights : CaacComplete(v, w)) \/ UNCHANGED vars
      BY <3>5 DEF PrepareBlock, CaacComplete, PruneHistory, vars, history
    <3> QED BY <1>2, <3>1, <3>2, <3>3, <3>4, <3>5 DEF Next
  <2> QED BY <2>1, <1>2
<1> QED BY <1>1, <1>2

\* The invariant holds in every state the node reaches.
LEMMA StoreInvHolds ==
    ASSUME Alone
    PROVE  Spec => []StoreInv
<1>1. Init => StoreInv BY TypeInitial, LoneInit, ChainInit DEF StoreInv
<1>2. StoreInv /\ [Next]_vars => StoreInv'
  <2> SUFFICES ASSUME StoreInv, [Next]_vars PROVE StoreInv' OBVIOUS
  <2>1. TypeInv /\ LoneInv /\ crashes \in Nat BY DEF StoreInv
  <2>2. TypeInv' BY <2>1, TypeStep
  <2>3. LoneInv' BY <2>1, LoneStep
  <2>4. crashes' \in Nat /\ (crashes' = 0 => crashes = 0 /\ ~CrashRestart) BY <2>1, CrashesCount
  <2>5. ASSUME crashes' = 0 PROVE ChainInv' /\ KeptInv'
    <3>1. ChainInv /\ KeptInv /\ ~CrashRestart BY <2>4, <2>5 DEF StoreInv
    <3>2. ChainInv' BY <2>1, <2>2, <3>1, ChainStep
    <3>3. KeptInv' BY <2>1, <2>2, <3>1, KeptStep
    <3> QED BY <3>2, <3>3
  <2> QED BY <2>2, <2>3, <2>4, <2>5 DEF StoreInv
<1> QED BY <1>1, <1>2, PTL DEF Spec

\* With nobody inside a block the trees are those of one chain.
LEMMA OneChain == ASSUME TypeInv, ChainInv, LoneInv PROVE StoreIsOneChain
<1> SUFFICES ASSUME AllIdle, state # Junk
             PROVE  /\ height = HeightOf[state] /\ tip.block = (IF state = Genesis THEN None ELSE state)
                    /\ \A h \in Heights :
                          canon[h] = IF \E b \in Blocks : state # Genesis /\ b \in Chain[state] /\ HeightOf[b] = h
                                     THEN CHOOSE b \in Chain[state] : HeightOf[b] = h ELSE None
                    /\ summary = canon
  BY DEF StoreIsOneChain
<1>1. Busy \in Tasks BY WhoActs
<1>2. Whole(state) BY <1>1 DEF AllIdle, ChainInv, Standing, Applying, Undoing
<1>3. state \in Heads BY DEF TypeInv, TypeOK, States, Heads
<1>4. ASSUME NEW h \in Heights
      PROVE  canon[h] = IF \E b \in Blocks : state # Genesis /\ b \in Chain[state] /\ HeightOf[b] = h
                        THEN CHOOSE b \in Chain[state] : HeightOf[b] = h ELSE None
  <2>1. canon[h] = IF \E b \in ChainOf(state) : HeightOf[b] = h THEN CHOOSE b \in ChainOf(state) : HeightOf[b] = h ELSE None
    BY <1>2 DEF Whole, IndexOf
  <2>2. CASE state = Genesis BY <2>1, <2>2 DEF ChainOf
  <2>3. CASE state # Genesis
    <3>1. ChainOf(state) = Chain[state] /\ Chain[state] \subseteq Blocks BY <1>3, <2>3, ChainFacts DEF ChainOf, Heads, Descends
    <3> QED BY <2>1, <2>3, <3>1
  <2> QED BY <2>2, <2>3
<1> QED BY <1>2, <1>4 DEF Whole, TipOf

\* Until a crash, and as long as worker and miner do not meet, the balances, the height,
\* the tip, the canonical index and the summaries are one chain whenever nobody is inside
\* a block (the six writes of apply, of apply_block_undo and of a replay), for every tree
\* of blocks and any interleaving of gossip, backfill, reorgs, weights and pruning.
THEOREM StoreStaysOneChain ==
    ASSUME Alone
    PROVE  Spec => [](crashes = 0 => StoreSound)
<1>1. StoreInv => (crashes = 0 => StoreSound) BY OneChain DEF StoreInv, TypeInv, StoreSound
<1> QED BY <1>1, StoreInvHolds, PTL

\* Until a crash, and as long as worker and miner do not meet, the balances are those of
\* no chain only after a block with a wrong state root was recorded off the chain.
THEOREM JunkIsExplained ==
    ASSUME Alone
    PROVE  Spec => [](crashes = 0 => JunkNeedsRecordedBadRoot)
<1>1. StoreInv => (crashes = 0 => JunkNeedsRecordedBadRoot) BY DEF StoreInv, ChainInv, JunkNeedsRecordedBadRoot
<1> QED BY <1>1, StoreInvHolds, PTL

\* Until a crash, and as long as worker and miner do not meet, every block of the chain
\* has its undo record or is deeper than PruneDepth below a recorded block: a late prune
\* never takes one that is still needed.
THEOREM UndoIsKept ==
    ASSUME Alone
    PROVE  Spec => [](crashes = 0 => UndoKept)
<1>1. StoreInv => (crashes = 0 => UndoKept) BY DEF StoreInv, KeptInv, UndoKept, Safe, ChainOf
<1> QED BY <1>1, StoreInvHolds, PTL
================================================================================
