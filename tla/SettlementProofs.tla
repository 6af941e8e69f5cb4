--------------------------- MODULE SettlementProofs ---------------------------
(*****************************************************************************)
(* Proofs about money: a fee splits without loss, and settlement keeps the   *)
(* supply, the markers and the undo records sound while REST handlers write  *)
(* between the steps of a block. Safe is the inductive invariant.            *)
(*****************************************************************************)
EXTENDS Settlement, DataLemmas

-----------------------------------------------------------------------------
(* Fee splits.                                                               *)

\* The quotient of at most a times BPS_DENOM is at most a.
LEMMA QuotientInRange ==
    ASSUME NEW a \in Nat, NEW p \in Nat, p <= a * BPS_DENOM
    PROVE  p \div BPS_DENOM \in 0..a
BY SMT DEF BPS_DENOM

\* A share of at most all of an amount is between nothing and the amount.
LEMMA ShareInRange ==
    ASSUME NEW a \in Nat, NEW b \in 0..BPS_DENOM
    PROVE  BpsOf(a, b) \in 0..a
<1>1. a * b \in Nat /\ a * b <= a * BPS_DENOM
  BY SMT DEF BPS_DENOM
<1>2. QED
  BY <1>1, QuotientInRange DEF BpsOf

\* Half of a fee is between nothing and the fee.
LEMMA HalfInRange ==
    ASSUME NEW m \in Nat
    PROVE  m \div 2 \in 0..m
BY SMT

\* The parts of a split, whatever the amount: none is negative, they add up, and a kind
\* uses the parts its caller books.
LEMMA ChargeSplits ==
    ASSUME NEW kind \in FeeKinds, NEW amount \in Nat,
           kind.tag = "transfer" => kind.bps \in TRANSFER_FEE_BPS_MIN..TRANSFER_FEE_BPS_MAX
    PROVE  LET s == Charge(kind, amount)
           IN  /\ s \in [net : Nat, pool : Nat, treasury : Nat, burn : Nat]
               /\ s.net + FeeMicro(s) = amount
               /\ kind.tag = "transfer" => s.treasury = 0
               /\ kind.tag \in {"file", "ai_utility"} => s.pool = 0
               /\ kind.tag = "ai_inference" => s.net = 0 /\ s.treasury = 0
<1> DEFINE part == BpsOf(amount, kind.bps)
<1>1. ASSUME NEW bps \in Nat, kind = Transfer(bps)
      PROVE  /\ kind.tag = "transfer" /\ kind.bps \in 0..BPS_DENOM
  BY <1>1 DEF Transfer, TRANSFER_FEE_BPS_MIN, TRANSFER_FEE_BPS_MAX, BPS_DENOM
<1>2. kind.tag \in {"transfer", "ai_utility", "ai_inference", "file"}
      /\ kind.bps \in 0..BPS_DENOM
  <2>1. CASE kind \in {Transfer(bps) : bps \in Nat}
    BY <1>1, <2>1
  <2>2. CASE kind \in {AiUtility, AiInference, File}
    BY <2>2 DEF AiUtility, AiInference, File, NETWORK_FEE_BPS,
                AI_INFERENCE_POOL_BPS, FILE_SPLIT_STORAGE_BPS, BPS_DENOM
  <2>3. QED
    BY <2>1, <2>2 DEF FeeKinds
<1>3. part \in 0..amount
  BY <1>2, ShareInRange
<1> HIDE DEF part
<1>4. CASE kind.tag = "transfer"
  <2>1. Charge(kind, amount) = Split(amount - part, part \div 2, 0, part - part \div 2)
    BY <1>4 DEF Charge, part
  <2>2. part \div 2 \in 0..part
    BY <1>3, HalfInRange
  <2>3. QED
    BY <1>4, <1>3, <2>1, <2>2 DEF Split, FeeMicro
<1>5. CASE kind.tag = "ai_utility"
  <2> DEFINE burn == BpsOf(part, BURN_FRACTION_OF_NETWORK_FEE_BPS)
  <2>1. Charge(kind, amount) = Split(amount - part, 0, part - burn, burn)
    BY <1>5 DEF Charge, part
  <2>2. burn \in 0..part
    <3>1. BURN_FRACTION_OF_NETWORK_FEE_BPS \in 0..BPS_DENOM /\ part \in Nat
      BY <1>3 DEF BURN_FRACTION_OF_NETWORK_FEE_BPS, BPS_DENOM
    <3>2. QED
      BY <3>1, ShareInRange
  <2> HIDE DEF burn
  <2>3. QED
    BY <1>5, <1>3, <2>1, <2>2 DEF Split, FeeMicro
<1>6. CASE kind.tag = "ai_inference"
  <2>1. Charge(kind, amount) = Split(0, part, 0, amount - part)
    BY <1>6 DEF Charge, part
  <2>2. QED
    BY <1>6, <1>3, <2>1 DEF Split, FeeMicro
<1>7. CASE kind.tag = "file"
  <2> DEFINE treasury == BpsOf(amount, FILE_SPLIT_TREASURY_BPS)
  <2>1. Charge(kind, amount) = Split(part, 0, treasury, amount - part - treasury)
    BY <1>7 DEF Charge, part
  <2>2. part \in Nat /\ treasury \in Nat /\ part + treasury <= amount
    <3>1. kind = File
      BY <1>7 DEF FeeKinds, Transfer, AiUtility, AiInference
    <3>2. part = (amount * 5000) \div 10000
      BY <3>1 DEF part, BpsOf, File, FILE_SPLIT_STORAGE_BPS, BPS_DENOM
    <3>3. treasury = (amount * 2500) \div 10000
      BY DEF BpsOf, FILE_SPLIT_TREASURY_BPS, BPS_DENOM
    <3> HIDE DEF treasury
    <3>4. QED
      BY <3>2, <3>3, SMT
  <2> HIDE DEF treasury
  <2>3. QED
    BY <1>7, <2>1, <2>2 DEF Split, FeeMicro
<1>8. QED
  BY <1>2, <1>4, <1>5, <1>6, <1>7

\* FEE_SPEC 1.1, for every amount and every rate charge accepts: no part of a
\* split is negative (the subtractions of fees.rs are in u64 and unchecked) and
\* the parts add up to the amount, so that rounding neither makes nor loses money.
THEOREM ChargeConserves ==
    ASSUME NEW kind \in FeeKinds, NEW amount \in Nat, Chargeable(kind, amount)
    PROVE  LET s == Charge(kind, amount)
           IN  /\ s \in [net : Nat, pool : Nat, treasury : Nat, burn : Nat]
               /\ s.net + FeeMicro(s) = amount
BY ChargeSplits DEF Chargeable

-----------------------------------------------------------------------------
(* Balances and counters.                                                    *)

\* Two functions that move alike at every point: their sums move alike.
LEMMA SumMoves ==
    ASSUME NEW S, IsFiniteSet(S), NEW f, NEW g, NEW h, NEW k,
           \A x \in S : f[x] \in Int /\ g[x] \in Int /\ h[x] \in Int /\ k[x] \in Int,
           \A x \in S : g[x] - f[x] = k[x] - h[x]
    PROVE  SumFunctionOnSet(g, S) - SumFunctionOnSet(f, S) = SumFunctionOnSet(k, S) - SumFunctionOnSet(h, S)
<1> DEFINE Q(T) == SumFunctionOnSet(g, T) - SumFunctionOnSet(f, T) = SumFunctionOnSet(k, T) - SumFunctionOnSet(h, T)
           P == {T \in SUBSET S : Q(T)}
<1>1. {} \in P
  BY SumEmpty
<1>2. ASSUME NEW T \in SUBSET S, T # {}, \A x \in T : T \ {x} \in P PROVE T \in P
  <2>1. PICK x \in T : TRUE
    BY <1>2
  <2>2. PICK U : U = T \ {x}
    OBVIOUS
  <2>3. Q(U)
    BY <1>2, <2>1, <2>2
  <2>4. IsFiniteSet(T) /\ IsFiniteSet(U)
    BY <2>2, FS_Subset
  <2>5. /\ SumFunctionOnSet(f, T) = f[x] + SumFunctionOnSet(f, U) /\ SumFunctionOnSet(g, T) = g[x] + SumFunctionOnSet(g, U)
        /\ SumFunctionOnSet(h, T) = h[x] + SumFunctionOnSet(h, U) /\ SumFunctionOnSet(k, T) = k[x] + SumFunctionOnSet(k, U)
    <3>1. \A y \in T : f[y] \in Int /\ g[y] \in Int /\ h[y] \in Int /\ k[y] \in Int
      OBVIOUS
    <3> QED BY <3>1, <2>2, <2>4, SumRemove
  <2>6. /\ SumFunctionOnSet(f, U) \in Int /\ SumFunctionOnSet(g, U) \in Int
        /\ SumFunctionOnSet(h, U) \in Int /\ SumFunctionOnSet(k, U) \in Int
    <3>1. \A y \in U : f[y] \in Int /\ g[y] \in Int /\ h[y] \in Int /\ k[y] \in Int
      BY <2>2
    <3> QED BY <3>1, <2>4, SumInt
  <2>7. f[x] \in Int /\ g[x] \in Int /\ h[x] \in Int /\ k[x] \in Int /\ g[x] - f[x] = k[x] - h[x]
    BY <2>1
  <2>8. Q(T)
    BY <2>3, <2>5, <2>6, <2>7
  <2> QED BY <2>8
<1>3. P = SUBSET S
  <2>1. P \in SUBSET (SUBSET S)
    OBVIOUS
  <2> HIDE DEF P
  <2> QED BY <1>1, <1>2, <2>1, FiniteInduction
<1> QED BY <1>3

\* A sum over natural numbers is one, and no summand exceeds it.
LEMMA SumAll ==
    ASSUME NEW S, IsFiniteSet(S), NEW f, f \in [S -> Nat]
    PROVE  /\ SumFunction(f) = SumFunctionOnSet(f, S) /\ SumFunction(f) \in Nat
           /\ \A x \in S : f[x] \in Nat /\ f[x] <= SumFunction(f)
<1>3. \A y \in S : f[y] \in Int /\ f[y] \in Nat
  OBVIOUS
<1>5. SumFunction(f) = SumFunctionOnSet(f, S)
  BY DEF SumFunction
<1>6. SumFunctionOnSet(f, S) \in Nat
  BY <1>3, SumNat
<1>7. ASSUME NEW x \in S PROVE f[x] <= SumFunctionOnSet(f, S)
  <2>1. SumFunctionOnSet(f, S) = f[x] + SumFunctionOnSet(f, S \ {x})
    BY <1>3, SumRemove
  <2>2. SumFunctionOnSet(f, S \ {x}) \in Nat
    BY <1>3, FS_RemoveElement, SumNat
  <2> QED BY <2>1, <2>2, <1>3
<1> QED BY <1>3, <1>5, <1>6, <1>7

\* A sum after one summand changed.
LEMMA SumOne ==
    ASSUME NEW S, IsFiniteSet(S), NEW f, f \in [S -> Nat], NEW g, g \in [S -> Nat], NEW x \in S,
           \A y \in S : y # x => g[y] = f[y]
    PROVE  SumFunction(g) = SumFunction(f) - f[x] + g[x]
<1>3. \A y \in S : f[y] \in Int /\ g[y] \in Int
  OBVIOUS
<1>4. SumFunctionOnSet(g, S) = SumFunctionOnSet(f, S) - f[x] + g[x]
  BY <1>3, SumChange
<1>5. SumFunction(g) = SumFunctionOnSet(g, S) /\ SumFunction(f) = SumFunctionOnSet(f, S)
  BY SumAll
<1> QED BY <1>4, <1>5

\* Balance trees; the counters of which supply and burned agree; the meta trees that hold
\* such counters; what the apply of a block computes.
Bal == [Accounts -> Nat]
Burnt(m) == m.supply = Monus(GenesisSupply, m.burned)
Goods == {m \in Metas : Burnt(m)}
St == [bal : Bal, meta : Goods, dirty : SUBSET Accounts, ok : BOOLEAN]

\* The wallets of the ledger and where they belong.
LEMMA SeConst ==
    /\ IsFiniteSet(Users) /\ IsFiniteSet(Accounts) /\ Users \subseteq Accounts /\ RestUsers \subseteq Users
    /\ Pool \in Accounts /\ Treasury \in Accounts /\ Ecosystem \in Accounts /\ Dex \in Accounts /\ Founder \in Accounts
    /\ ApiPool \in Accounts /\ Producer \in Accounts /\ Counters \notin Accounts
<1>1. IsFiniteSet({Pool, Treasury, Ecosystem, Dex, Founder, ApiPool})
  <2>1. IsFiniteSet({Pool}) /\ IsFiniteSet({Treasury}) /\ IsFiniteSet({Ecosystem}) /\ IsFiniteSet({Dex})
        /\ IsFiniteSet({Founder}) /\ IsFiniteSet({ApiPool})
    BY FS_Singleton
  <2>2. IsFiniteSet({Pool} \cup {Treasury}) /\ IsFiniteSet({Ecosystem} \cup {Dex}) /\ IsFiniteSet({Founder} \cup {ApiPool})
    BY <2>1, FS_Union
  <2>3. IsFiniteSet(({Pool} \cup {Treasury}) \cup ({Ecosystem} \cup {Dex}))
    BY <2>2, FS_Union
  <2>4. IsFiniteSet((({Pool} \cup {Treasury}) \cup ({Ecosystem} \cup {Dex})) \cup ({Founder} \cup {ApiPool}))
    BY <2>2, <2>3, FS_Union
  <2>5. (({Pool} \cup {Treasury}) \cup ({Ecosystem} \cup {Dex})) \cup ({Founder} \cup {ApiPool}) = {Pool, Treasury, Ecosystem, Dex, Founder, ApiPool}
    OBVIOUS
  <2> QED BY <2>4, <2>5
<1>2. IsFiniteSet(Accounts)
  BY <1>1, SettlementAssumption, FS_Union DEF Accounts
<1> QED BY <1>2, SettlementAssumption DEF Accounts

\* The amounts and bounds of the ledger are natural numbers.
LEMMA SeNats ==
    /\ BaseReward \in Nat /\ ComputeReward \in Nat /\ AirdropMicro \in Nat /\ MaxRecipients \in Nat /\ MinWorkerStake \in Nat
    /\ ChallengerBond \in Nat /\ GuardianGrant \in Nat /\ MaxGuardians \in Nat /\ MaxRest \in Nat /\ MaxBlocks \in Nat
    /\ Amounts \subseteq Nat /\ GenesisBalances \in Bal /\ Bodies \subseteq Seq(Txs)
BY SettlementAssumption DEF Bal

\* No wallet holds more than all of them.
LEMMA BalSum ==
    ASSUME NEW bal \in Bal
    PROVE  SumFunction(bal) \in Nat /\ SumFunction(bal) = SumFunctionOnSet(bal, Accounts)
           /\ \A a \in Accounts : bal[a] \in Nat /\ bal[a] <= SumFunction(bal)
BY SeConst, SumAll DEF Bal

\* A covered debit: the wallet and the sum lose the amount, nothing else moves.
LEMMA DebitIs ==
    ASSUME NEW bal \in Bal, NEW a \in Accounts, NEW n \in Nat, n <= bal[a], NEW t, t = Debit(bal, a, n)
    PROVE  /\ t \in Bal /\ SumFunction(t) = SumFunction(bal) - n
           /\ \A x \in Accounts : t[x] = IF x = a THEN bal[a] - n ELSE bal[x]
<1>1. bal[a] \in Nat /\ SumFunction(bal) \in Nat /\ IsFiniteSet(Accounts) /\ bal \in [Accounts -> Nat]
  BY BalSum, SeConst DEF Bal
<1>2. PICK v : v = bal[a] - n
  OBVIOUS
<1>3. v \in Nat
  BY <1>1, <1>2
<1>4. t = [bal EXCEPT ![a] = v]
  BY <1>2 DEF Debit
<1>5. t \in [Accounts -> Nat]
  BY <1>1, <1>3, <1>4
<1>6. \A x \in Accounts : t[x] = IF x = a THEN v ELSE bal[x]
  BY <1>1, <1>4
<1>7. SumFunction(t) = SumFunction(bal) - bal[a] + t[a]
  <2>1. \A x \in Accounts : x # a => t[x] = bal[x]
    BY <1>6
  <2> QED BY <1>1, <1>5, <2>1, SumOne
<1>8. t[a] = v
  BY <1>6
<1> QED BY <1>1, <1>2, <1>3, <1>5, <1>6, <1>7, <1>8 DEF Bal

\* A credit: the wallet and the sum gain the amount, nothing else moves.
LEMMA CreditIs ==
    ASSUME NEW bal \in Bal, NEW a \in Accounts, NEW n \in Nat, NEW t, t = Credit(bal, a, n)
    PROVE  /\ t \in Bal /\ SumFunction(t) = SumFunction(bal) + n
           /\ \A x \in Accounts : t[x] = IF x = a THEN bal[a] + n ELSE bal[x]
<1>1. bal[a] \in Nat /\ SumFunction(bal) \in Nat /\ IsFiniteSet(Accounts) /\ bal \in [Accounts -> Nat]
  BY BalSum, SeConst DEF Bal
<1>2. PICK v : v = bal[a] + n
  OBVIOUS
<1>3. v \in Nat
  BY <1>1, <1>2
<1>4. t = [bal EXCEPT ![a] = v]
  BY <1>2 DEF Credit
<1>5. t \in [Accounts -> Nat]
  BY <1>1, <1>3, <1>4
<1>6. \A x \in Accounts : t[x] = IF x = a THEN v ELSE bal[x]
  BY <1>1, <1>4
<1>7. SumFunction(t) = SumFunction(bal) - bal[a] + t[a]
  <2>1. \A x \in Accounts : x # a => t[x] = bal[x]
    BY <1>6
  <2> QED BY <1>1, <1>5, <2>1, SumOne
<1>8. t[a] = v
  BY <1>6
<1> QED BY <1>1, <1>2, <1>3, <1>5, <1>6, <1>7, <1>8 DEF Bal

\* The fields a transaction of each kind has.
LEMMA TxShape ==
    ASSUME NEW tx \in Txs
    PROVE  /\ tx.kind \in {"transfer", "file_fee", "airdrop", "register", "inference", "proof"}
           /\ tx.kind = "transfer" => tx.from \in Users /\ tx.to \in Accounts /\ tx.amount \in Nat /\ tx.bps \in Nat
           /\ tx.kind = "file_fee" => tx.from \in Users /\ StorageWallet(tx) \in Accounts
           /\ tx.kind \in {"airdrop", "register"} => tx.wallet \in Users
           /\ (tx.kind = "inference" <=> tx \in Tasks) /\ (tx.kind = "airdrop" <=> tx \in Airdrops)
<1>1. tx \in Transfers \cup FileFees \cup Claims \cup Demands \cup Proofs
  BY SettlementAssumption
<1>2. CASE tx \in Transfers
  BY <1>2 DEF Transfers, Tasks, Airdrops
<1>3. CASE tx \in FileFees
  BY <1>3, SeConst DEF FileFees, Tasks, Airdrops, StorageWallet
<1>4. CASE tx \in Claims
  BY <1>4 DEF Claims, Tasks, Airdrops
<1>5. CASE tx \in Demands
  BY <1>5 DEF Demands, Tasks, Airdrops
<1>6. CASE tx \in Proofs
  BY <1>6 DEF Proofs, Tasks, Airdrops
<1> QED BY <1>1, <1>2, <1>3, <1>4, <1>5, <1>6

\* Equal markers; equal counters; equal in all a block marks. REST operations change only
\* the counters.
SameMarks(m, n) == n.height = m.height /\ n.applied = m.applied /\ n.tasks = m.tasks
                   /\ n.done = m.done /\ n.registered = m.registered
SameCounts(m, n) == n.supply = m.supply /\ n.burned = m.burned /\ n.fees = m.fees
SameBlock(m, n) == SameMarks(m, n) /\ n.airdrops = m.airdrops

\* The fields of the meta tree.
LEMMA MetaShape ==
    ASSUME NEW m \in Metas
    PROVE  /\ m.supply \in Nat /\ m.burned \in Nat /\ m.fees \in Nat /\ m.airdrops \in Nat /\ m.height \in Nat
           /\ m.applied \subseteq Txs /\ m.tasks \subseteq Tasks /\ m.done \subseteq Tasks /\ m.registered \subseteq Users
BY DEF Metas

\* Equal markers, airdrops and counters are an equal meta tree.
LEMMA MetaIs ==
    ASSUME NEW m, NEW n, m \in Metas, n \in Metas, SameBlock(m, n), SameCounts(m, n)
    PROVE  m = n
BY DEF Metas, SameBlock, SameMarks, SameCounts

\* The genesis supply is a natural number.
LEMMA GenesisNat == GenesisSupply \in Nat
<1>1. GenesisBalances \in Bal
  BY SeNats
<1> QED BY <1>1, BalSum DEF GenesisSupply

\* Burning a share of a fee moves supply and burned together, and marks nothing.
LEMMA BurnIs ==
    ASSUME NEW m \in Goods, NEW split, split.burn \in Nat, NEW fee \in Nat, NEW t, t = Burn(m, split, fee)
    PROVE  /\ t \in Goods /\ SameBlock(m, t)
           /\ t.supply = Monus(m.supply, split.burn)
           /\ t.burned = m.burned + split.burn /\ t.fees = m.fees + fee
<1>1. m \in Metas /\ Burnt(m)
  BY DEF Goods
<1>2. PICK s : s = Monus(m.supply, split.burn)
  OBVIOUS
<1>3. m.supply \in Nat /\ m.burned \in Nat /\ m.fees \in Nat
  BY <1>1, MetaShape
<1>4. s \in Nat
  BY <1>2, <1>3 DEF Monus
<1>5. PICK b : b = m.burned + split.burn
  OBVIOUS
<1>6. PICK f : f = m.fees + fee
  OBVIOUS
<1>7. b \in Nat /\ f \in Nat
  BY <1>3, <1>5, <1>6
<1>8. t = [m EXCEPT !.supply = s, !.burned = b, !.fees = f]
  BY <1>2, <1>5, <1>6 DEF Burn
<1>9. t \in Metas /\ SameBlock(m, t) /\ t.supply = s /\ t.burned = b /\ t.fees = f
  BY <1>1, <1>4, <1>7, <1>8 DEF Metas, SameBlock, SameMarks
<1>10. Burnt(t)
  BY <1>1, <1>2, <1>3, <1>5, <1>9, GenesisNat DEF Burnt, Monus
<1> QED BY <1>2, <1>5, <1>6, <1>9, <1>10 DEF Goods

\* A settled transaction: its balances and counters, its marker, its rows.
Settles(t, st, tx, bal, m, rows) ==
    /\ t \in St /\ t.bal = bal /\ t.dirty = st.dirty \cup rows
    /\ t.meta \in Goods /\ SameCounts(m, t.meta) /\ t.meta.airdrops = m.airdrops /\ t.meta.height = m.height
    /\ t.meta.applied = m.applied \cup {tx} /\ t.meta.tasks = m.tasks /\ t.meta.done = m.done
    /\ t.meta.registered = m.registered

\* Settle does that.
LEMMA SettleIs ==
    ASSUME NEW st \in St, NEW tx \in Txs, NEW bal \in Bal, NEW m \in Goods, NEW rows, rows \subseteq Accounts,
           NEW t, t = Settle(st, tx, bal, m, rows)
    PROVE  Settles(t, st, tx, bal, m, rows)
<1>1. PICK n : n = [m EXCEPT !.applied = @ \cup {tx}]
  OBVIOUS
<1>2. m \in Metas /\ Burnt(m)
  BY DEF Goods
<1>3. n \in Metas /\ SameCounts(m, n) /\ n.airdrops = m.airdrops /\ n.height = m.height
      /\ n.applied = m.applied \cup {tx} /\ n.tasks = m.tasks /\ n.done = m.done /\ n.registered = m.registered
  BY <1>1, <1>2 DEF Metas, SameCounts
<1>4. n \in Goods
  BY <1>2, <1>3 DEF Goods, Burnt, SameCounts
<1>5. t = [bal |-> bal, meta |-> n, dirty |-> st.dirty \cup rows, ok |-> TRUE]
  BY <1>1 DEF Settle
<1>6. st.dirty \subseteq Accounts
  BY DEF St
<1>7. t \in St
  BY <1>4, <1>5, <1>6 DEF St
<1> QED BY <1>3, <1>4, <1>5, <1>7 DEF Settles

\* One wallet paid n, two got k and l: the sum is short of the rest, and only their rows
\* moved.
Paid(t, bal, from, n, to, k, too, l) ==
    /\ t \in Bal /\ SumFunction(t) = SumFunction(bal) - n + k + l
    /\ \A x \in Accounts : x \notin {from, to} /\ (x # too \/ l = 0) => t[x] = bal[x]
    /\ k + l < n => t[from] # bal[from]

\* A debit and two credits, as in the transfer, the file fee and the AI settlement.
LEMMA PayIs ==
    ASSUME NEW bal \in Bal, NEW from \in Accounts, NEW n \in Nat, n <= bal[from],
           NEW to \in Accounts, NEW k \in Nat, NEW too \in Accounts, NEW l \in Nat, k + l <= n,
           NEW t, t = Credit(Credit(Debit(bal, from, n), to, k), too, l)
    PROVE  Paid(t, bal, from, n, to, k, too, l)
<1>1. PICK d : d = Debit(bal, from, n)
  OBVIOUS
<1>2. PICK c : c = Credit(d, to, k)
  OBVIOUS
<1>3. d \in Bal /\ SumFunction(d) = SumFunction(bal) - n /\ \A x \in Accounts : d[x] = IF x = from THEN bal[from] - n ELSE bal[x]
  BY <1>1, DebitIs
<1>4. c \in Bal /\ SumFunction(c) = SumFunction(d) + k /\ \A x \in Accounts : c[x] = IF x = to THEN d[to] + k ELSE d[x]
  <2>1. d \in Bal /\ to \in Accounts /\ k \in Nat
    BY <1>3
  <2> QED BY ONLY <1>2, <2>1, CreditIs
<1>5. t \in Bal /\ SumFunction(t) = SumFunction(c) + l /\ \A x \in Accounts : t[x] = IF x = too THEN c[too] + l ELSE c[x]
  <2>1. c \in Bal /\ t = Credit(c, too, l) /\ too \in Accounts /\ l \in Nat
    BY <1>1, <1>2, <1>4
  <2> QED BY ONLY <2>1, CreditIs
<1>6. SumFunction(bal) \in Nat /\ SumFunction(d) \in Nat /\ SumFunction(c) \in Nat
  BY <1>3, <1>4, BalSum
<1>7. SumFunction(t) = SumFunction(bal) - n + k + l
  BY <1>3, <1>4, <1>5, <1>6
<1>8. ASSUME NEW x \in Accounts PROVE bal[x] \in Nat /\ d[x] \in Nat /\ c[x] \in Nat
  BY <1>3, <1>4, BalSum
<1>9. ASSUME NEW x \in Accounts, x \notin {from, to}, x # too \/ l = 0 PROVE t[x] = bal[x]
  BY <1>3, <1>4, <1>5, <1>8, <1>9
<1>10. k + l < n => t[from] # bal[from]
  BY <1>3, <1>4, <1>5, <1>8
<1> QED BY <1>5, <1>7, <1>9, <1>10 DEF Paid

\* A debit and a credit of the same amount, as in the airdrop and the reward.
LEMMA MoveIs ==
    ASSUME NEW bal \in Bal, NEW from \in Accounts, NEW n \in Nat, n <= bal[from], NEW to \in Accounts,
           NEW t, t = Credit(Debit(bal, from, n), to, n)
    PROVE  /\ t \in Bal /\ SumFunction(t) = SumFunction(bal)
           /\ \A x \in Accounts : x \notin {from, to} => t[x] = bal[x]
<1>1. PICK d : d = Debit(bal, from, n)
  OBVIOUS
<1>3. d \in Bal /\ SumFunction(d) = SumFunction(bal) - n /\ \A x \in Accounts : d[x] = IF x = from THEN bal[from] - n ELSE bal[x]
  BY <1>1, DebitIs
<1>4. t \in Bal /\ SumFunction(t) = SumFunction(d) + n /\ \A x \in Accounts : t[x] = IF x = to THEN d[to] + n ELSE d[x]
  BY <1>1, <1>3, CreditIs
<1>6. SumFunction(bal) \in Nat /\ SumFunction(d) \in Nat
  BY <1>3, BalSum
<1> QED BY <1>3, <1>4, <1>6

-----------------------------------------------------------------------------
(* What one transaction does.                                                *)

\* Supply and balances move alike, and so do supply and burned, where the supply covers
\* the balances.
MoneyKept(st, t) ==
    SumFunction(st.bal) <= st.meta.supply =>
        /\ t.meta.supply - SumFunction(t.bal) = st.meta.supply - SumFunction(st.bal)
        /\ t.meta.supply + t.meta.burned = st.meta.supply + st.meta.burned
\* Only dirty rows moved, and the dirty rows are among the given ones.
RowsKept(st, t, rows) ==
    /\ st.dirty \subseteq t.dirty /\ t.dirty \subseteq st.dirty \cup rows
    /\ \A a \in Accounts : a \notin t.dirty => t.bal[a] = st.bal[a]
\* The task a proof completes and the worker a registration registers.
DoneBy(tx) == IF tx.kind = "proof" THEN {tx.task} ELSE {}
WorkerOf(tx) == IF tx.kind = "register" THEN {tx.wallet} ELSE {}
\* What a transaction marks: nothing but itself, its task and its worker.
MarksKept(m, n, tx) ==
    /\ n.height = m.height /\ n.tasks = m.tasks \cup ({tx} \cap Tasks)
    /\ m.applied \subseteq n.applied /\ n.applied \subseteq m.applied \cup {tx}
    /\ tx \in n.applied \cup Tasks \cup Airdrops
    /\ m.done \subseteq n.done /\ n.done \subseteq m.done \cup DoneBy(tx)
    /\ m.registered \subseteq n.registered /\ n.registered \subseteq m.registered \cup WorkerOf(tx)
\* An airdrop counts a recipient and marks itself, or neither.
Dropped(m, n, tx) ==
    \/ tx \in Airdrops /\ n.applied = m.applied \cup {tx} /\ n.airdrops = m.airdrops + 1
    \/ n.airdrops = m.airdrops /\ n.applied \cap Airdrops = m.applied \cap Airdrops
\* The counters move only with a fee.
FeesKept(m, n, tx) == ~HasFee(tx) => SameCounts(m, n)
\* What the commit keeps of one transaction: money, rows of the undo record, markers.
TxKept(st, t, tx) ==
    /\ MoneyKept(st, t) /\ RowsKept(st, t, UndoRowsOfTx(tx)) /\ MarksKept(st.meta, t.meta, tx)
    /\ Dropped(st.meta, t.meta, tx) /\ FeesKept(st.meta, t.meta, tx)

\* The balances and the recipients after a transaction that is accepted: a function of
\* the balances and the recipients before, whether it is the preview or the commit.
PureTx(p, tx) ==
    CASE tx.kind = "transfer" ->
           [bal |-> Credit(Credit(Debit(p.bal, tx.from, tx.amount), tx.to, Charge(Transfer(tx.bps), tx.amount).net),
                           Pool, Charge(Transfer(tx.bps), tx.amount).pool),
            drops |-> p.drops]
      [] tx.kind = "file_fee" ->
           [bal |-> Credit(Credit(Debit(p.bal, tx.from, FILE_FEE_MICRO), Treasury, Charge(File, FILE_FEE_MICRO).treasury),
                           StorageWallet(tx), Charge(File, FILE_FEE_MICRO).net),
            drops |-> p.drops]
      [] tx.kind = "airdrop" ->
           IF p.drops >= MaxRecipients \/ p.bal[Pool] < AirdropMicro THEN p
           ELSE [bal |-> Credit(Debit(p.bal, Pool, AirdropMicro), tx.wallet, AirdropMicro), drops |-> p.drops + 1]
      [] tx.kind \in {"register", "proof", "inference"} -> p
Pure(st) == [bal |-> st.bal, drops |-> st.meta.airdrops]

\* The fields of a state of the apply.
LEMMA StShape ==
    ASSUME NEW st \in St
    PROVE  /\ st.bal \in Bal /\ st.meta \in Goods /\ st.meta \in Metas /\ st.dirty \subseteq Accounts /\ st.ok \in BOOLEAN
           /\ SumFunction(st.bal) \in Nat /\ st.meta.supply \in Nat /\ \A a \in Accounts : st.bal[a] \in Nat
           /\ \A a \in Accounts : st.bal[a] <= SumFunction(st.bal)
<1>1. st.bal \in Bal /\ st.meta \in Goods /\ st.dirty \subseteq Accounts
  BY DEF St
<1>2. st.ok \in BOOLEAN
  BY Zenon DEF St
<1>3. st.meta \in Metas /\ st.meta.supply \in Nat
  BY <1>1 DEF Goods, Metas
<1> QED BY <1>1, <1>2, <1>3, BalSum

\* A refused transaction only clears ok.
LEMMA RefusedIs ==
    ASSUME NEW st \in St, NEW t, t = Refused(st)
    PROVE  t \in St /\ t.ok = FALSE
BY DEF Refused, St

\* The numbers of a payment that burns b of its n.
BurnOf(A, p, n, k, l, b, q, B) ==
    /\ A \in Nat /\ p \in Nat /\ n \in Nat /\ k \in Nat /\ l \in Nat /\ b \in Nat
    /\ n <= A /\ k + l + b = n /\ A <= p /\ q = Monus(p, b) /\ B = A - n + k + l

\* A burn that the payer covers leaves supply and balances the same distance apart.
LEMMA BurnBalances ==
    ASSUME NEW A, NEW p, NEW n, NEW k, NEW l, NEW b, NEW q, NEW B, BurnOf(A, p, n, k, l, b, q, B)
    PROVE  q - B = p - A /\ q + b = p
BY DEF Monus, BurnOf

\* settle_transfer in a block: money, rows and markers; the same balances in preview and
\* commit.
LEMMA TransferIs ==
    ASSUME NEW st \in St, NEW tx \in Txs, tx.kind = "transfer", vest \in [Users -> Nat],
           NEW t, t = TransferEffect(st, tx)
    PROVE  /\ t \in St
           /\ t.ok = TRUE => TxKept(st, t, tx) /\ Pure(t) = PureTx(Pure(st), tx)
<1> DEFINE fee == Transfer(tx.bps)
           No == \/ tx.amount = 0 \/ ~Chargeable(fee, tx.amount) \/ Monus(st.bal[tx.from], vest[tx.from]) < tx.amount
<1>1. tx.from \in Users /\ tx.from \in Accounts /\ tx.to \in Accounts /\ tx.amount \in Nat /\ tx.bps \in Nat /\ Pool \in Accounts
      /\ tx \notin Tasks /\ tx \notin Airdrops
  BY TxShape, SeConst
<1>2. CASE No
  <2>1. t = Refused(st)
    BY <1>2 DEF TransferEffect
  <2> QED BY <2>1, RefusedIs
<1>3. CASE ~No
  <2>1. PICK s : s = Charge(fee, tx.amount)
    OBVIOUS
  <2>2. PICK bal : bal = Credit(Credit(Debit(st.bal, tx.from, tx.amount), tx.to, s.net), Pool, s.pool)
    OBVIOUS
  <2>3. PICK m : m = Burn(st.meta, s, FeeMicro(s))
    OBVIOUS
  <2>4. PICK rows : rows = {tx.from, tx.to} \cup (IF s.pool > 0 THEN {Pool} ELSE {})
    OBVIOUS
  <2>5. t = Settle(st, tx, bal, m, rows)
    BY <1>3, <2>1, <2>2, <2>3, <2>4 DEF TransferEffect
  <2>6. s.net \in Nat /\ s.pool \in Nat /\ s.burn \in Nat /\ s.treasury = 0 /\ s.net + FeeMicro(s) = tx.amount
    <3>1. fee \in FeeKinds /\ fee.tag = "transfer" /\ fee.bps \in TRANSFER_FEE_BPS_MIN..TRANSFER_FEE_BPS_MAX
      BY <1>1, <1>3 DEF FeeKinds, Chargeable, Transfer
    <3> HIDE DEF fee
    <3>2. s \in [net : Nat, pool : Nat, treasury : Nat, burn : Nat] /\ s.net + FeeMicro(s) = tx.amount /\ s.treasury = 0
      BY <3>1, <2>1, <1>1, ChargeSplits
    <3> QED BY <3>2
  <2>7. FeeMicro(s) = s.pool + s.burn /\ FeeMicro(s) \in Nat /\ s.net + s.pool + s.burn = tx.amount
    BY <2>6 DEF FeeMicro
  <2>8. st.bal \in Bal /\ st.meta \in Goods /\ st.meta.supply \in Nat /\ SumFunction(st.bal) \in Nat /\ st.bal[tx.from] \in Nat
        /\ st.bal[tx.from] <= SumFunction(st.bal)
    BY <1>1, StShape
  <2>9. tx.amount <= st.bal[tx.from]
    <3>1. vest[tx.from] \in Nat /\ ~(Monus(st.bal[tx.from], vest[tx.from]) < tx.amount)
      BY <1>1, <1>3
    <3> QED BY <3>1, <2>8, <1>1 DEF Monus
  <2>10. Paid(bal, st.bal, tx.from, tx.amount, tx.to, s.net, Pool, s.pool)
    <3>1. s.net + s.pool <= tx.amount
      BY <2>6, <2>7, <1>1
    <3>2. st.bal \in Bal /\ tx.from \in Accounts /\ tx.to \in Accounts /\ Pool \in Accounts
          /\ tx.amount \in Nat /\ s.net \in Nat /\ s.pool \in Nat
      BY <2>6, <2>8, <1>1
    <3> QED BY ONLY <3>1, <3>2, <2>2, <2>9, PayIs
  <2>11. m \in Goods /\ SameBlock(st.meta, m) /\ m.supply = Monus(st.meta.supply, s.burn) /\ m.burned = st.meta.burned + s.burn
         /\ m.fees = st.meta.fees + FeeMicro(s)
    <3>1. st.meta \in Goods /\ s.burn \in Nat /\ FeeMicro(s) \in Nat
      BY <2>6, <2>7, <2>8
    <3> QED BY ONLY <3>1, <2>3, BurnIs
  <2>12. rows \subseteq Accounts
    BY <1>1, <2>4
  <2>13. Settles(t, st, tx, bal, m, rows)
    <3>1. bal \in Bal /\ m \in Goods
      BY <2>10, <2>11 DEF Paid
    <3>2. st \in St /\ tx \in Txs
      OBVIOUS
    <3> QED BY ONLY <3>1, <3>2, <2>5, <2>12, SettleIs
  <2>14. MoneyKept(st, t)
    <3>1. t.meta.supply = Monus(st.meta.supply, s.burn) /\ SumFunction(t.bal) = SumFunction(st.bal) - tx.amount + s.net + s.pool
      BY <2>10, <2>11, <2>13 DEF Paid, Settles, SameCounts
    <3>2. tx.amount <= SumFunction(st.bal) /\ s.net + s.pool + s.burn = tx.amount
      BY <2>6, <2>7, <2>8, <2>9, <1>1
    <3>3. tx.amount \in Nat /\ s.net \in Nat /\ s.pool \in Nat /\ s.burn \in Nat /\ st.meta.supply \in Nat /\ SumFunction(st.bal) \in Nat
      BY <2>6, <2>8, <1>1
    <3>4. SUFFICES ASSUME SumFunction(st.bal) <= st.meta.supply
                   PROVE  /\ t.meta.supply - SumFunction(t.bal) = st.meta.supply - SumFunction(st.bal)
                          /\ t.meta.supply + t.meta.burned = st.meta.supply + st.meta.burned
      BY DEF MoneyKept
    <3>5. BurnOf(SumFunction(st.bal), st.meta.supply, tx.amount, s.net, s.pool, s.burn, t.meta.supply, SumFunction(t.bal))
      BY ONLY <3>1, <3>2, <3>3, <3>4 DEF BurnOf
    <3>6. t.meta.supply - SumFunction(t.bal) = st.meta.supply - SumFunction(st.bal) /\ t.meta.supply + s.burn = st.meta.supply
      BY ONLY <3>5, BurnBalances
    <3>7. t.meta.burned = st.meta.burned + s.burn /\ st.meta.burned \in Nat /\ t.meta.supply \in Nat
      <4>1. st.meta \in Metas
        BY <2>8 DEF Goods
      <4>2. t.meta.burned = st.meta.burned + s.burn
        BY <2>11, <2>13 DEF Settles, SameCounts
      <4>3. t.meta \in Metas
        BY <2>13 DEF Settles, Goods
      <4> QED BY <4>1, <4>2, <4>3, MetaShape
    <3>8. t.meta.supply + t.meta.burned = st.meta.supply + st.meta.burned
      BY ONLY <3>3, <3>6, <3>7
    <3> QED BY <3>6, <3>8
  <2>15. RowsKept(st, t, UndoRowsOfTx(tx))
    <3>1. Chargeable(fee, tx.amount)
      BY <1>3
    <3>2. HasFee(tx) <=> FeeMicro(s) > 0
      BY <3>1, <2>1 DEF HasFee
    <3>3. UndoRowsOfTx(tx) = {tx.from, tx.to} \cup (IF HasFee(tx) THEN {Pool} ELSE {})
      BY DEF UndoRowsOfTx
    <3>4. rows \subseteq UndoRowsOfTx(tx)
      BY <3>2, <3>3, <2>4, <2>6, <2>7
    <3>5. ASSUME NEW a \in Accounts, a \notin t.dirty PROVE t.bal[a] = st.bal[a]
      <4>1. a \notin {tx.from, tx.to} /\ (a # Pool \/ ~(s.pool > 0))
        BY <3>5, <2>13, <2>4 DEF Settles
      <4> QED BY <4>1, <2>6, <2>10, <2>13 DEF Paid, Settles
    <3> QED BY <3>4, <3>5, <2>13 DEF RowsKept, Settles
  <2>16. MarksKept(st.meta, t.meta, tx) /\ Dropped(st.meta, t.meta, tx)
    BY <2>11, <2>13, <1>1 DEF Settles, MarksKept, Dropped, SameBlock, SameMarks
  <2>17. FeesKept(st.meta, t.meta, tx)
    <3>1. SUFFICES ASSUME ~HasFee(tx) PROVE SameCounts(st.meta, t.meta)
      BY DEF FeesKept
    <3>2. ~(FeeMicro(s) > 0)
      BY <3>1, <1>3, <2>1 DEF HasFee
    <3>3. s.burn = 0 /\ FeeMicro(s) = 0
      BY <3>2, <2>6, <2>7
    <3>4. st.meta.burned \in Nat /\ st.meta.fees \in Nat
      BY <2>8, MetaShape DEF Goods
    <3> QED BY <3>3, <3>4, <2>8, <2>11, <2>13 DEF Settles, SameCounts, Monus
  <2>18. Pure(t) = PureTx(Pure(st), tx)
    <3>1. Pure(st).bal = st.bal /\ Pure(st).drops = st.meta.airdrops
      BY DEF Pure
    <3>2. PureTx(Pure(st), tx) = [bal |-> bal, drops |-> st.meta.airdrops]
      BY <3>1, <2>1, <2>2 DEF PureTx
    <3> QED BY <3>2, <2>11, <2>13 DEF Settles, Pure, SameBlock
  <2> QED BY <2>13, <2>14, <2>15, <2>16, <2>17, <2>18 DEF TxKept, Settles
<1> QED BY <1>2, <1>3

\* The same for a file fee, with its storage share.
LEMMA FileFeeIs ==
    ASSUME NEW st \in St, NEW tx \in Txs, tx.kind = "file_fee", vest \in [Users -> Nat],
           NEW t, t = FileFeeEffect(st, tx)
    PROVE  /\ t \in St
           /\ t.ok = TRUE => TxKept(st, t, tx) /\ Pure(t) = PureTx(Pure(st), tx)
<1> DEFINE No == Monus(st.bal[tx.from], vest[tx.from]) < FILE_FEE_MICRO
<1>0. FILE_FEE_MICRO \in Nat
  BY DEF FILE_FEE_MICRO
<1>1. tx.from \in Users /\ tx.from \in Accounts /\ StorageWallet(tx) \in Accounts /\ Treasury \in Accounts
      /\ tx \notin Tasks /\ tx \notin Airdrops
  BY TxShape, SeConst
<1>2. CASE No
  <2>1. t = Refused(st)
    BY <1>2 DEF FileFeeEffect
  <2> QED BY <2>1, RefusedIs
<1>3. CASE ~No
  <2>1. PICK s : s = Charge(File, FILE_FEE_MICRO)
    OBVIOUS
  <2>2. PICK bal : bal = Credit(Credit(Debit(st.bal, tx.from, FILE_FEE_MICRO), Treasury, s.treasury), StorageWallet(tx), s.net)
    OBVIOUS
  <2>3. PICK m : m = Burn(st.meta, s, FILE_FEE_MICRO)
    OBVIOUS
  <2>4. PICK rows : rows = {tx.from, Treasury, StorageWallet(tx)}
    OBVIOUS
  <2>5. t = Settle(st, tx, bal, m, rows)
    BY <1>3, <2>1, <2>2, <2>3, <2>4 DEF FileFeeEffect
  <2>6. s.net \in Nat /\ s.treasury \in Nat /\ s.burn \in Nat /\ s.pool = 0 /\ s.net + FeeMicro(s) = FILE_FEE_MICRO
    <3>1. File \in FeeKinds /\ File.tag = "file"
      BY DEF FeeKinds, File
    <3>2. s \in [net : Nat, pool : Nat, treasury : Nat, burn : Nat] /\ s.net + FeeMicro(s) = FILE_FEE_MICRO /\ s.pool = 0
      BY <3>1, <2>1, <1>0, ChargeSplits
    <3> QED BY <3>2
  <2>7. s.net + s.treasury + s.burn = FILE_FEE_MICRO
    BY <2>6 DEF FeeMicro
  <2>8. st.bal \in Bal /\ st.meta \in Goods /\ st.meta.supply \in Nat /\ SumFunction(st.bal) \in Nat /\ st.bal[tx.from] \in Nat
        /\ st.bal[tx.from] <= SumFunction(st.bal)
    BY <1>1, StShape
  <2>9. FILE_FEE_MICRO <= st.bal[tx.from]
    <3>1. vest[tx.from] \in Nat /\ ~(Monus(st.bal[tx.from], vest[tx.from]) < FILE_FEE_MICRO)
      BY <1>1, <1>3
    <3> QED BY <3>1, <2>8, <1>0 DEF Monus
  <2>10. Paid(bal, st.bal, tx.from, FILE_FEE_MICRO, Treasury, s.treasury, StorageWallet(tx), s.net)
    <3>1. s.treasury + s.net <= FILE_FEE_MICRO
      BY <2>6, <2>7, <1>0
    <3>2. st.bal \in Bal /\ tx.from \in Accounts /\ Treasury \in Accounts /\ StorageWallet(tx) \in Accounts
          /\ FILE_FEE_MICRO \in Nat /\ s.net \in Nat /\ s.treasury \in Nat
      BY <2>6, <2>8, <1>1, <1>0
    <3> QED BY ONLY <3>1, <3>2, <2>2, <2>9, PayIs
  <2>11. m \in Goods /\ SameBlock(st.meta, m) /\ m.supply = Monus(st.meta.supply, s.burn) /\ m.burned = st.meta.burned + s.burn
         /\ m.fees = st.meta.fees + FILE_FEE_MICRO
    <3>1. st.meta \in Goods /\ s.burn \in Nat /\ FILE_FEE_MICRO \in Nat
      BY <2>6, <1>0, <2>8
    <3> QED BY ONLY <3>1, <2>3, BurnIs
  <2>12. rows \subseteq Accounts
    BY <1>1, <2>4
  <2>13. Settles(t, st, tx, bal, m, rows)
    <3>1. bal \in Bal /\ m \in Goods
      BY <2>10, <2>11 DEF Paid
    <3>2. st \in St /\ tx \in Txs
      OBVIOUS
    <3> QED BY ONLY <3>1, <3>2, <2>5, <2>12, SettleIs
  <2>14. MoneyKept(st, t)
    <3>1. t.meta.supply = Monus(st.meta.supply, s.burn) /\ SumFunction(t.bal) = SumFunction(st.bal) - FILE_FEE_MICRO + s.treasury + s.net
      BY <2>10, <2>11, <2>13 DEF Paid, Settles, SameCounts
    <3>2. FILE_FEE_MICRO <= SumFunction(st.bal) /\ s.treasury + s.net + s.burn = FILE_FEE_MICRO
      BY <2>6, <2>7, <2>8, <2>9, <1>0
    <3>3. FILE_FEE_MICRO \in Nat /\ s.treasury \in Nat /\ s.net \in Nat /\ s.burn \in Nat /\ st.meta.supply \in Nat /\ SumFunction(st.bal) \in Nat
      BY <2>6, <2>8, <1>0
    <3>4. SUFFICES ASSUME SumFunction(st.bal) <= st.meta.supply
                   PROVE  /\ t.meta.supply - SumFunction(t.bal) = st.meta.supply - SumFunction(st.bal)
                          /\ t.meta.supply + t.meta.burned = st.meta.supply + st.meta.burned
      BY DEF MoneyKept
    <3>5. BurnOf(SumFunction(st.bal), st.meta.supply, FILE_FEE_MICRO, s.treasury, s.net, s.burn, t.meta.supply, SumFunction(t.bal))
      BY ONLY <3>1, <3>2, <3>3, <3>4 DEF BurnOf
    <3>6. t.meta.supply - SumFunction(t.bal) = st.meta.supply - SumFunction(st.bal) /\ t.meta.supply + s.burn = st.meta.supply
      BY ONLY <3>5, BurnBalances
    <3>7. t.meta.burned = st.meta.burned + s.burn /\ st.meta.burned \in Nat /\ t.meta.supply \in Nat
      <4>1. st.meta \in Metas
        BY <2>8 DEF Goods
      <4>2. t.meta.burned = st.meta.burned + s.burn
        BY <2>11, <2>13 DEF Settles, SameCounts
      <4>3. t.meta \in Metas
        BY <2>13 DEF Settles, Goods
      <4> QED BY <4>1, <4>2, <4>3, MetaShape
    <3>8. t.meta.supply + t.meta.burned = st.meta.supply + st.meta.burned
      BY ONLY <3>3, <3>6, <3>7
    <3> QED BY <3>6, <3>8
  <2>15. RowsKept(st, t, UndoRowsOfTx(tx))
    <3>4. rows \subseteq UndoRowsOfTx(tx)
      BY <2>4 DEF UndoRowsOfTx
    <3>5. ASSUME NEW a \in Accounts, a \notin t.dirty PROVE t.bal[a] = st.bal[a]
      <4>1. a \notin {tx.from, Treasury} /\ a # StorageWallet(tx)
        BY <3>5, <2>13, <2>4 DEF Settles
      <4> QED BY <4>1, <2>6, <2>10, <2>13 DEF Paid, Settles
    <3> QED BY <3>4, <3>5, <2>13 DEF RowsKept, Settles
  <2>16. MarksKept(st.meta, t.meta, tx) /\ Dropped(st.meta, t.meta, tx)
    BY <2>11, <2>13, <1>1 DEF Settles, MarksKept, Dropped, SameBlock, SameMarks
  <2>17. FeesKept(st.meta, t.meta, tx)
    BY DEF FeesKept, HasFee
  <2>18. Pure(t) = PureTx(Pure(st), tx)
    <3>1. Pure(st).bal = st.bal /\ Pure(st).drops = st.meta.airdrops
      BY DEF Pure
    <3>2. PureTx(Pure(st), tx) = [bal |-> bal, drops |-> st.meta.airdrops]
      BY <3>1, <2>1, <2>2 DEF PureTx
    <3> QED BY <3>2, <2>11, <2>13 DEF Settles, Pure, SameBlock
  <2> QED BY <2>13, <2>14, <2>15, <2>16, <2>17, <2>18 DEF TxKept, Settles
<1> QED BY <1>2, <1>3

\* A skipped airdrop keeps everything.
LEMMA SameKept ==
    ASSUME NEW st \in St, NEW tx \in Txs, tx \in Airdrops
    PROVE  TxKept(st, st, tx)
<1>1. tx \notin Tasks
  BY DEF Airdrops, Tasks
<1> QED BY <1>1 DEF TxKept, MoneyKept, RowsKept, MarksKept, Dropped, FeesKept, SameCounts

\* An airdrop, paid or skipped: money, rows, markers and the recipient counter.
LEMMA AirdropIs ==
    ASSUME NEW st \in St, NEW tx \in Txs, tx.kind = "airdrop", NEW t, t = AirdropEffect(st, tx)
    PROVE  /\ t \in St
           /\ t.ok = TRUE => TxKept(st, t, tx) /\ Pure(t) = PureTx(Pure(st), tx)
<1>1. tx.wallet \in Accounts /\ Pool \in Accounts /\ tx \notin Tasks /\ tx \in Airdrops /\ AirdropMicro \in Nat /\ MaxRecipients \in Nat
  BY TxShape, SeConst, SeNats
<1>2. Pure(st).bal = st.bal /\ Pure(st).drops = st.meta.airdrops
  BY DEF Pure
<1>3. CASE st.meta.airdrops >= MaxRecipients \/ st.bal[Pool] < AirdropMicro
  <2>1. t = st
    BY <1>3 DEF AirdropEffect
  <2>2. PureTx(Pure(st), tx) = Pure(st)
    BY <1>2, <1>3 DEF PureTx
  <2> QED BY <2>1, <2>2, <1>1, SameKept
<1>4. CASE ~(st.meta.airdrops >= MaxRecipients \/ st.bal[Pool] < AirdropMicro)
  <2>1. PICK bal : bal = Credit(Debit(st.bal, Pool, AirdropMicro), tx.wallet, AirdropMicro)
    OBVIOUS
  <2>2. PICK m : m = [st.meta EXCEPT !.airdrops = @ + 1]
    OBVIOUS
  <2>3. PICK rows : rows = {Pool, tx.wallet}
    OBVIOUS
  <2>4. t = Settle(st, tx, bal, m, rows)
    BY <1>4, <2>1, <2>2, <2>3 DEF AirdropEffect
  <2>5. st.bal \in Bal /\ st.meta \in Goods /\ st.meta \in Metas /\ st.bal[Pool] \in Nat /\ st.meta.airdrops \in Nat
    BY <1>1, StShape, MetaShape
  <2>6. /\ bal \in Bal /\ SumFunction(bal) = SumFunction(st.bal)
        /\ \A x \in Accounts : x \notin {Pool, tx.wallet} => bal[x] = st.bal[x]
    <3>1. AirdropMicro <= st.bal[Pool]
      BY <1>1, <1>4, <2>5
    <3>2. st.bal \in Bal /\ Pool \in Accounts /\ AirdropMicro \in Nat /\ tx.wallet \in Accounts
      BY <2>5, <1>1
    <3> QED BY ONLY <3>1, <3>2, <2>1, MoveIs
  <2>7. m \in Goods /\ SameMarks(st.meta, m) /\ SameCounts(st.meta, m) /\ m.airdrops = st.meta.airdrops + 1
    <3>1. m \in Metas /\ SameMarks(st.meta, m) /\ SameCounts(st.meta, m) /\ m.airdrops = st.meta.airdrops + 1
      BY <2>2, <2>5 DEF Metas, SameMarks, SameCounts
    <3> QED BY <3>1, <2>5 DEF Goods, Burnt, SameCounts
  <2>8. Settles(t, st, tx, bal, m, rows)
    <3>1. bal \in Bal /\ m \in Goods /\ rows \subseteq Accounts
      BY <2>3, <2>6, <2>7, <1>1
    <3>2. st \in St /\ tx \in Txs
      OBVIOUS
    <3> QED BY ONLY <3>1, <3>2, <2>4, SettleIs
  <2>9. MoneyKept(st, t)
    BY <2>6, <2>7, <2>8 DEF Settles, MoneyKept, SameCounts
  <2>10. RowsKept(st, t, UndoRowsOfTx(tx))
    <3>1. rows = UndoRowsOfTx(tx)
      BY <2>3 DEF UndoRowsOfTx
    <3>2. t.dirty = st.dirty \cup rows /\ t.bal = bal
      BY <2>8 DEF Settles
    <3> QED BY <3>1, <3>2, <2>3, <2>6 DEF RowsKept
  <2>11. MarksKept(st.meta, t.meta, tx) /\ Dropped(st.meta, t.meta, tx) /\ FeesKept(st.meta, t.meta, tx)
    BY <2>7, <2>8, <1>1 DEF Settles, MarksKept, Dropped, SameMarks, FeesKept, SameCounts
  <2>12. Pure(t) = PureTx(Pure(st), tx)
    <3>1. PureTx(Pure(st), tx) = [bal |-> bal, drops |-> st.meta.airdrops + 1]
      BY <1>2, <1>4, <2>1 DEF PureTx
    <3> QED BY <3>1, <2>7, <2>8 DEF Settles, Pure
  <2> QED BY <2>8, <2>9, <2>10, <2>11, <2>12 DEF TxKept, Settles
<1> QED BY <1>3, <1>4

\* A transaction that moves no money: markers only.
LEMMA MarkedIs ==
    ASSUME NEW st \in St, NEW tx \in Txs, tx.kind \in {"register", "proof"}, NEW m, m \in Metas, SameCounts(st.meta, m),
           m.airdrops = st.meta.airdrops, m.height = st.meta.height, m.applied = st.meta.applied, m.tasks = st.meta.tasks,
           st.meta.done \subseteq m.done, m.done \subseteq st.meta.done \cup DoneBy(tx),
           st.meta.registered \subseteq m.registered, m.registered \subseteq st.meta.registered \cup WorkerOf(tx),
           NEW t, t = Settle(st, tx, st.bal, m, {})
    PROVE  t \in St /\ TxKept(st, t, tx) /\ Pure(t) = PureTx(Pure(st), tx)
<1>1. st.bal \in Bal /\ st.meta \in Goods /\ tx \notin Tasks /\ tx \notin Airdrops
  BY StShape, TxShape
<1>2. m \in Goods
  BY <1>1 DEF Goods, Burnt, SameCounts
<1>3. Settles(t, st, tx, st.bal, m, {})
  <2>1. {} \subseteq Accounts
    OBVIOUS
  <2> QED BY <1>1, <1>2, <2>1, SettleIs
<1>4. MoneyKept(st, t)
  BY <1>3 DEF Settles, MoneyKept, SameCounts
<1>5. RowsKept(st, t, UndoRowsOfTx(tx))
  BY <1>3 DEF Settles, RowsKept
<1>6. MarksKept(st.meta, t.meta, tx)
  BY <1>1, <1>3 DEF Settles, MarksKept
<1>7. Dropped(st.meta, t.meta, tx) /\ FeesKept(st.meta, t.meta, tx)
  BY <1>1, <1>3 DEF Settles, Dropped, FeesKept, SameCounts
<1>8. Pure(t) = PureTx(Pure(st), tx)
  <2>1. PureTx(Pure(st), tx) = Pure(st)
    BY DEF PureTx
  <2> QED BY <2>1, <1>3 DEF Settles, Pure
<1> QED BY <1>3, <1>4, <1>5, <1>6, <1>7, <1>8 DEF TxKept, Settles

\* A worker registration.
LEMMA RegisterIs ==
    ASSUME NEW st \in St, NEW tx \in Txs, tx.kind = "register", NEW t, t = RegisterEffect(st, tx)
    PROVE  /\ t \in St
           /\ t.ok = TRUE => TxKept(st, t, tx) /\ Pure(t) = PureTx(Pure(st), tx)
<1>1. CASE bond[tx.wallet] < MinWorkerStake
  <2>1. t = Refused(st)
    BY <1>1 DEF RegisterEffect
  <2> QED BY <2>1, RefusedIs
<1>2. CASE ~(bond[tx.wallet] < MinWorkerStake)
  <2>1. PICK m : m = [st.meta EXCEPT !.registered = @ \cup {tx.wallet}]
    OBVIOUS
  <2>2. t = Settle(st, tx, st.bal, m, {})
    BY <1>2, <2>1 DEF RegisterEffect
  <2>3. st.meta \in Metas /\ tx.wallet \in Users
    BY StShape, TxShape
  <2>4. /\ m \in Metas /\ SameCounts(st.meta, m) /\ m.airdrops = st.meta.airdrops /\ m.height = st.meta.height
        /\ m.applied = st.meta.applied /\ m.tasks = st.meta.tasks /\ m.done = st.meta.done
        /\ m.registered = st.meta.registered \cup {tx.wallet}
    BY <2>1, <2>3 DEF Metas, SameCounts
  <2>5. st.meta.done \subseteq m.done /\ m.done \subseteq st.meta.done \cup DoneBy(tx)
        /\ st.meta.registered \subseteq m.registered /\ m.registered \subseteq st.meta.registered \cup WorkerOf(tx)
    BY <2>4 DEF WorkerOf
  <2> QED BY <2>2, <2>4, <2>5, MarkedIs
<1> QED BY <1>1, <1>2

\* A proof of a recorded task.
LEMMA ProofIs ==
    ASSUME NEW st \in St, NEW tx \in Txs, tx.kind = "proof", meta \in Metas, NEW t, t = ProofEffect(st, tx)
    PROVE  /\ t \in St
           /\ t.ok = TRUE => TxKept(st, t, tx) /\ Pure(t) = PureTx(Pure(st), tx)
<1>1. CASE tx.task \notin meta.tasks
  <2>1. t = Refused(st)
    BY <1>1 DEF ProofEffect
  <2> QED BY <2>1, RefusedIs
<1>2. CASE ~(tx.task \notin meta.tasks)
  <2>1. PICK m : m = [st.meta EXCEPT !.done = @ \cup {tx.task}]
    OBVIOUS
  <2>2. t = Settle(st, tx, st.bal, m, {})
    BY <1>2, <2>1 DEF ProofEffect
  <2>3. st.meta \in Metas /\ tx.task \in Tasks
    BY <1>2, StShape, MetaShape
  <2>4. /\ m \in Metas /\ SameCounts(st.meta, m) /\ m.airdrops = st.meta.airdrops /\ m.height = st.meta.height
        /\ m.applied = st.meta.applied /\ m.tasks = st.meta.tasks /\ m.done = st.meta.done \cup {tx.task}
        /\ m.registered = st.meta.registered
    BY <2>1, <2>3 DEF Metas, SameCounts
  <2>5. st.meta.done \subseteq m.done /\ m.done \subseteq st.meta.done \cup DoneBy(tx)
        /\ st.meta.registered \subseteq m.registered /\ m.registered \subseteq st.meta.registered \cup WorkerOf(tx)
    BY <2>4 DEF DoneBy
  <2> QED BY <2>2, <2>4, <2>5, MarkedIs
<1> QED BY <1>1, <1>2

\* An inference demand records its task.
LEMMA DemandIs ==
    ASSUME NEW st \in St, NEW tx \in Txs, tx.kind = "inference", NEW t, t = [st EXCEPT !.meta.tasks = @ \cup {tx}]
    PROVE  t \in St /\ t.ok = st.ok /\ TxKept(st, t, tx) /\ Pure(t) = PureTx(Pure(st), tx)
<1>1. st.meta \in Metas /\ st.meta \in Goods /\ tx \in Tasks /\ tx \notin Airdrops
  BY StShape, TxShape
<1>2. PICK m : m = [st.meta EXCEPT !.tasks = @ \cup {tx}]
  OBVIOUS
<1>3. /\ m \in Metas /\ SameCounts(st.meta, m) /\ m.airdrops = st.meta.airdrops /\ m.height = st.meta.height
      /\ m.applied = st.meta.applied /\ m.tasks = st.meta.tasks \cup {tx} /\ m.done = st.meta.done
      /\ m.registered = st.meta.registered
  BY <1>1, <1>2 DEF Metas, SameCounts
<1>4. m \in Goods
  BY <1>1, <1>3 DEF Goods, Burnt, SameCounts
<1>5. t = [st EXCEPT !.meta = m]
  BY <1>2
<1>6. t \in St /\ t.bal = st.bal /\ t.meta = m /\ t.dirty = st.dirty
  BY <1>4, <1>5 DEF St
<1>7. t.ok = st.ok
  BY <1>5, Zenon DEF St
<1>8. MoneyKept(st, t) /\ RowsKept(st, t, UndoRowsOfTx(tx))
  BY <1>3, <1>6 DEF MoneyKept, RowsKept, SameCounts
<1>9. MarksKept(st.meta, t.meta, tx) /\ Dropped(st.meta, t.meta, tx) /\ FeesKept(st.meta, t.meta, tx)
  BY <1>1, <1>3, <1>6 DEF MarksKept, Dropped, FeesKept
<1>10. Pure(t) = PureTx(Pure(st), tx)
  <2>1. PureTx(Pure(st), tx) = Pure(st)
    BY DEF PureTx
  <2> QED BY <2>1, <1>3, <1>6 DEF Pure
<1> QED BY <1>6, <1>7, <1>8, <1>9, <1>10 DEF TxKept

-----------------------------------------------------------------------------
(* What a block does.                                                        *)

\* The commit meets no transaction that is already settled.
Ready(tx, committing) == committing = TRUE => tx \notin meta.applied

\* Every kind of transaction: types, the same balances in preview and commit, and what
\* the commit keeps.
LEMMA TxIs ==
    ASSUME NEW st \in St, NEW tx \in Txs, meta \in Metas, vest \in [Users -> Nat], NEW c \in BOOLEAN,
           Ready(tx, c), NEW t, t = TxEffect(st, tx, c)
    PROVE  /\ t \in St
           /\ t.ok = TRUE => /\ st.ok = TRUE /\ Pure(t) = PureTx(Pure(st), tx)
                             /\ c = TRUE => TxKept(st, t, tx)
<1>1. tx.kind \in {"transfer", "file_fee", "airdrop", "register", "inference", "proof"}
  BY TxShape
<1>2. st.ok \in BOOLEAN
  BY StShape
<1>3. CASE ~st.ok
  <2>1. t = st
    BY <1>3 DEF TxEffect
  <2> QED BY <1>3, <2>1
<1>4. CASE st.ok /\ Passed(tx, c)
  <2>1. t = st
    BY <1>4 DEF TxEffect
  <2>2. c = FALSE /\ tx.kind = "proof"
    BY <1>4 DEF Passed, Ready
  <2>3. PureTx(Pure(st), tx) = Pure(st)
    BY <2>2 DEF PureTx
  <2> QED BY <1>2, <1>4, <2>1, <2>2, <2>3
<1>5. CASE st.ok /\ ~Passed(tx, c)
  <2>0. st.ok = TRUE
    BY <1>5, <1>2
  <2>1. CASE tx.kind = "transfer"
    <3>1. t = TransferEffect(st, tx)
      BY <1>5, <2>1 DEF TxEffect
    <3> QED BY <2>0, <2>1, <3>1, TransferIs
  <2>2. CASE tx.kind = "file_fee"
    <3>1. t = FileFeeEffect(st, tx)
      BY <1>5, <2>2 DEF TxEffect
    <3> QED BY <2>0, <2>2, <3>1, FileFeeIs
  <2>3. CASE tx.kind = "airdrop"
    <3>1. t = AirdropEffect(st, tx)
      BY <1>5, <2>3 DEF TxEffect
    <3> QED BY <2>0, <2>3, <3>1, AirdropIs
  <2>4. CASE tx.kind = "register"
    <3>1. t = RegisterEffect(st, tx)
      BY <1>5, <2>4 DEF TxEffect
    <3> QED BY <2>0, <2>4, <3>1, RegisterIs
  <2>5. CASE tx.kind = "proof"
    <3>1. t = ProofEffect(st, tx)
      BY <1>5, <2>5 DEF TxEffect
    <3> QED BY <2>0, <2>5, <3>1, ProofIs
  <2>6. CASE tx.kind = "inference"
    <3>1. t = [st EXCEPT !.meta.tasks = @ \cup {tx}]
      BY <1>5, <2>6 DEF TxEffect
    <3> QED BY <2>0, <2>6, <3>1, DemandIs
  <2> QED BY <1>1, <2>1, <2>2, <2>3, <2>4, <2>5, <2>6
<1> QED BY <1>3, <1>4, <1>5

\* Where the run over a body starts, and the sequence of states it goes through.
Start == [bal |-> balances, meta |-> meta, dirty |-> {}, ok |-> TRUE]
IsRun(f, body, c) ==
    f = [n \in 0..Len(body) |-> IF n = 0 THEN [bal |-> balances, meta |-> meta, dirty |-> {}, ok |-> TRUE]
                                ELSE TxEffect(f[n - 1], body[n], c)]

\* The run over a body, unrolled: one TxEffect for each transaction.
LEMMA RunIs ==
    ASSUME NEW body \in Seq(Txs), balances \in Bal, meta \in Goods, vest \in [Users -> Nat], NEW c \in BOOLEAN,
           \A i \in 1..Len(body) : Ready(body[i], c)
    PROVE  \E f : /\ f \in [0..Len(body) -> St] /\ f[0] = Start /\ RunBody(body, c) = f[Len(body)]
                  /\ \A n \in 1..Len(body) : f[n] = TxEffect(f[n - 1], body[n], c)
<1> DEFINE step == [n \in 1..Len(body) |-> [s \in St |-> TxEffect(s, body[n], c)]]
<1>1. RunBody(body, c) = (CHOOSE f : IsRun(f, body, c))[Len(body)]
  BY DEF RunBody, IsRun
<1>2. meta \in Metas
  BY DEF Goods
<1>3. ASSUME NEW n \in 1..Len(body), NEW s \in St PROVE TxEffect(s, body[n], c) \in St
  <2>1. body[n] \in Txs /\ Ready(body[n], c)
    OBVIOUS
  <2>2. PICK t : t = TxEffect(s, body[n], c)
    OBVIOUS
  <2>3. t \in St
    BY <1>2, <2>1, <2>2, TxIs
  <2> QED BY <2>2, <2>3
<1>4. Start \in St
  BY DEF Start, St
<1>5. Len(body) \in Nat
  OBVIOUS
<1>6. step \in [1..Len(body) -> [St -> St]]
  BY <1>3
<1>7. PICK f \in [0..Len(body) -> St] : RunFrom(f, Start, step, Len(body))
  <2> HIDE DEF step
  <2> QED BY <1>4, <1>5, <1>6, RunExists
<1>8. ASSUME NEW n \in 1..Len(body) PROVE f[n] = TxEffect(f[n - 1], body[n], c)
  <2>1. n - 1 \in 0..Len(body)
    BY <1>5
  <2>2. f[n - 1] \in St
    BY <2>1, <1>7
  <2>3. f[n] = step[n][f[n - 1]]
    BY <1>7 DEF RunFrom
  <2> QED BY <2>2, <2>3
<1>9. f[0] = Start
  BY <1>7 DEF RunFrom
<1>10. IsRun(f, body, c)
  <2>1. ASSUME NEW n \in 0..Len(body)
        PROVE  f[n] = IF n = 0 THEN [bal |-> balances, meta |-> meta, dirty |-> {}, ok |-> TRUE]
                      ELSE TxEffect(f[n - 1], body[n], c)
    <3>1. CASE n = 0
      BY <3>1, <1>9 DEF Start
    <3>2. CASE n # 0
      BY <3>2, <1>5, <1>8
    <3> QED BY <3>1, <3>2
  <2> QED BY <2>1, <1>7 DEF IsRun
<1>11. PICK g : g = (CHOOSE h : IsRun(h, body, c))
  OBVIOUS
<1>12. IsRun(g, body, c)
  BY <1>10, <1>11
<1>13. g[0] = Start /\ \A n \in 1..Len(body) : g[n] = TxEffect(g[n - 1], body[n], c)
  <2>1. 0 \in 0..Len(body) /\ \A n \in 1..Len(body) : n \in 0..Len(body) /\ n # 0
    BY <1>5
  <2> QED BY <1>12, <2>1 DEF IsRun, Start
<1>14. \A n \in 0..Len(body) : g[n] \in St
  <2> DEFINE N == {n \in Nat : n <= Len(body) => g[n] \in St}
  <2>1. 0 \in N
    BY <1>4, <1>13
  <2>2. ASSUME NEW n \in N PROVE n + 1 \in N
    <3>1. SUFFICES ASSUME n + 1 <= Len(body) PROVE g[n + 1] \in St
      OBVIOUS
    <3>2. n + 1 \in 1..Len(body) /\ g[n] \in St /\ (n + 1) - 1 = n
      BY <3>1, <2>2, <1>5
    <3> QED BY <3>2, <1>3, <1>13
  <2>3. N = Nat
    <3>1. N \subseteq Nat
      OBVIOUS
    <3> HIDE DEF N
    <3> QED BY <2>1, <2>2, <3>1, NatSetInduction
  <2> QED BY <2>3, <1>5
<1>15. g \in [0..Len(body) -> St]
  <2>1. DOMAIN g = 0..Len(body) /\ g = [n \in DOMAIN g |-> g[n]]
    BY <1>12 DEF IsRun
  <2> QED BY <2>1, <1>14
<1> QED BY <1>1, <1>11, <1>13, <1>15

\* Rows, tasks and workers of the transactions T; the first n transactions of a body.
RowsOf(T) == UNION {UndoRowsOfTx(tx) : tx \in T}
DoneOf(T) == UNION {DoneBy(tx) : tx \in T}
WorkersOf(T) == UNION {WorkerOf(tx) : tx \in T}
Pre(body, n) == {body[i] : i \in 1..n}

\* What the transactions T may have marked.
BodyMarks(m, n, T) ==
    /\ n.tasks = m.tasks \cup (T \cap Tasks)
    /\ m.applied \subseteq n.applied /\ n.applied \subseteq m.applied \cup T
    /\ T \subseteq n.applied \cup Tasks \cup Airdrops
    /\ m.done \subseteq n.done /\ n.done \subseteq m.done \cup DoneOf(T)
    /\ m.registered \subseteq n.registered /\ n.registered \subseteq m.registered \cup WorkersOf(T)
RunMarks(m, n, T) == n.height = m.height /\ BodyMarks(m, n, T)
\* Without a fee the counters are as before.
RunCounts(m, n, T) == (\A tx \in T : ~HasFee(tx)) => SameCounts(m, n)
\* The recipient counter is the number of settled airdrops.
FewDrops(m) == IsFiniteSet(m.applied \cap Airdrops) /\ m.airdrops = Cardinality(m.applied \cap Airdrops)
\* It stays so when none of the transactions was settled before.
RunDrops(m, n, T) ==
    /\ T \cap Airdrops = {} => n.airdrops = m.airdrops
    /\ T \cap m.applied = {} /\ FewDrops(m) => FewDrops(n)
\* What the commit keeps over the transactions T.
RunKept(s, t, T) ==
    /\ MoneyKept(s, t) /\ RowsKept(s, t, RowsOf(T)) /\ RunMarks(s.meta, t.meta, T)
    /\ RunCounts(s.meta, t.meta, T) /\ RunDrops(s.meta, t.meta, T)

\* No transaction keeps everything.
LEMMA KeptNone == ASSUME NEW s \in St PROVE RunKept(s, s, {})
<1>1. MoneyKept(s, s) /\ RowsKept(s, s, RowsOf({}))
  BY DEF MoneyKept, RowsKept
<1>2. RunMarks(s.meta, s.meta, {}) /\ RunCounts(s.meta, s.meta, {}) /\ RunDrops(s.meta, s.meta, {})
  BY DEF RunMarks, BodyMarks, RunCounts, RunDrops, SameCounts
<1> QED BY <1>1, <1>2 DEF RunKept

\* Money kept twice is kept.
LEMMA MoneyTrans ==
    ASSUME NEW s \in St, NEW t \in St, NEW u \in St, MoneyKept(s, t), MoneyKept(t, u)
    PROVE  MoneyKept(s, u)
<1>1. SumFunction(s.bal) \in Nat /\ SumFunction(t.bal) \in Nat /\ SumFunction(u.bal) \in Nat
      /\ s.meta.supply \in Nat /\ t.meta.supply \in Nat /\ u.meta.supply \in Nat
  BY StShape
<1> QED BY <1>1 DEF MoneyKept

\* One more transaction, one that the body did not hold before.
LEMMA KeptMore ==
    ASSUME NEW s \in St, NEW t \in St, NEW u \in St, NEW T, T \subseteq Txs, NEW tx \in Txs, tx \notin T,
           RunKept(s, t, T), TxKept(t, u, tx)
    PROVE  RunKept(s, u, T \cup {tx})
<1> DEFINE U == T \cup {tx}
<1>0. /\ MoneyKept(s, t) /\ RowsKept(s, t, RowsOf(T)) /\ RunMarks(s.meta, t.meta, T)
      /\ RunCounts(s.meta, t.meta, T) /\ RunDrops(s.meta, t.meta, T)
  BY DEF RunKept
<1>1. /\ MoneyKept(t, u) /\ RowsKept(t, u, UndoRowsOfTx(tx)) /\ MarksKept(t.meta, u.meta, tx)
      /\ Dropped(t.meta, u.meta, tx) /\ FeesKept(t.meta, u.meta, tx)
  BY DEF TxKept
<1>2. MoneyKept(s, u)
  BY <1>0, <1>1, MoneyTrans
<1>3. RowsKept(s, u, RowsOf(U))
  <2>1. RowsOf(U) = RowsOf(T) \cup UndoRowsOfTx(tx)
    BY DEF RowsOf
  <2> QED BY <2>1, <1>0, <1>1 DEF RowsKept
<1>4. RunMarks(s.meta, u.meta, U)
  <2>1. DoneOf(U) = DoneOf(T) \cup DoneBy(tx) /\ WorkersOf(U) = WorkersOf(T) \cup WorkerOf(tx)
    BY DEF DoneOf, WorkersOf
  <2> HIDE DEF U
  <2>2. U = T \cup {tx}
    BY DEF U
  <2> QED BY <2>1, <2>2, <1>0, <1>1 DEF RunMarks, BodyMarks, MarksKept
<1>5. RunCounts(s.meta, u.meta, U)
  BY <1>0, <1>1 DEF RunCounts, FeesKept, SameCounts
<1>6. RunDrops(s.meta, u.meta, U)
  <2>1. s.meta.airdrops \in Nat /\ t.meta.airdrops \in Nat /\ u.meta.airdrops \in Nat
    BY StShape, MetaShape
  <2>2. ASSUME U \cap Airdrops = {} PROVE u.meta.airdrops = s.meta.airdrops
    BY <2>2, <1>0, <1>1 DEF RunDrops, Dropped
  <2>3. ASSUME U \cap s.meta.applied = {}, FewDrops(s.meta) PROVE FewDrops(u.meta)
    <3>1. FewDrops(t.meta)
      BY <2>3, <1>0 DEF RunDrops
    <3>2. tx \notin t.meta.applied
      BY <2>3, <1>0 DEF RunMarks, BodyMarks
    <3>3. CASE tx \in Airdrops /\ u.meta.applied = t.meta.applied \cup {tx} /\ u.meta.airdrops = t.meta.airdrops + 1
      <4>1. PICK A : A = t.meta.applied \cap Airdrops
        OBVIOUS
      <4>2. u.meta.applied \cap Airdrops = A \cup {tx} /\ tx \notin A
        BY <3>2, <3>3, <4>1
      <4>3. IsFiniteSet(A) /\ t.meta.airdrops = Cardinality(A)
        BY <3>1, <4>1 DEF FewDrops
      <4>4. IsFiniteSet(A \cup {tx}) /\ Cardinality(A \cup {tx}) = Cardinality(A) + 1
        BY <4>2, <4>3, FS_AddElement
      <4> QED BY <3>3, <4>2, <4>3, <4>4 DEF FewDrops
    <3>4. CASE u.meta.airdrops = t.meta.airdrops /\ u.meta.applied \cap Airdrops = t.meta.applied \cap Airdrops
      BY <3>1, <3>4 DEF FewDrops
    <3> QED BY <3>3, <3>4, <1>1 DEF Dropped
  <2> QED BY <2>2, <2>3 DEF RunDrops
<1> QED BY <1>2, <1>3, <1>4, <1>5, <1>6 DEF RunKept

\* The first transactions of a body, one more at a time, are in the end all of them.
LEMMA PreIs ==
    ASSUME NEW body \in Seq(Txs)
    PROVE  /\ Pre(body, 0) = {} /\ Pre(body, Len(body)) = Range(body)
           /\ \A n \in Nat : n + 1 <= Len(body) => Pre(body, n + 1) = Pre(body, n) \cup {body[n + 1]} /\ Pre(body, n) \subseteq Txs
           /\ Len(body) \in Nat /\ Range(body) \subseteq Txs /\ DOMAIN body = 1..Len(body)
<1>1. Pre(body, Len(body)) = Range(body)
  BY DEF Pre, Range
<1>2. ASSUME NEW n \in Nat, n + 1 <= Len(body)
      PROVE  Pre(body, n + 1) = Pre(body, n) \cup {body[n + 1]} /\ Pre(body, n) \subseteq Txs
  <2>1. 1..(n + 1) = (1..n) \cup {n + 1}
    OBVIOUS
  <2>2. \A i \in 1..n : body[i] \in Txs
    BY <1>2
  <2> QED BY <2>1, <2>2 DEF Pre
<1>3. Pre(body, 0) = {}
  BY DEF Pre
<1>4. Range(body) \subseteq Txs
  BY DEF Range
<1> QED BY <1>1, <1>2, <1>3, <1>4

\* The commit of a whole body keeps money, rows and markers.
LEMMA RunKeeps ==
    ASSUME NEW body \in Bodies, balances \in Bal, meta \in Goods, vest \in [Users -> Nat],
           Range(body) \cap meta.applied = {}, RunBody(body, TRUE).ok = TRUE
    PROVE  RunBody(body, TRUE) \in St /\ RunKept(Start, RunBody(body, TRUE), Range(body))
<1>1. body \in Seq(Txs) /\ IsInjective(body)
  BY SettlementAssumption
<1>2. \A i \in 1..Len(body) : Ready(body[i], TRUE)
  BY <1>1 DEF Ready, Range
<1>3. PICK f : /\ f \in [0..Len(body) -> St] /\ f[0] = Start /\ RunBody(body, TRUE) = f[Len(body)]
               /\ \A n \in 1..Len(body) : f[n] = TxEffect(f[n - 1], body[n], TRUE)
  BY <1>1, <1>2, RunIs
<1>4. Len(body) \in Nat /\ meta \in Metas
  BY <1>1 DEF Goods
<1>5. ASSUME NEW n \in 1..Len(body)
      PROVE  /\ n - 1 \in 0..Len(body) /\ n \in 0..Len(body) /\ f[n - 1] \in St /\ f[n] \in St /\ body[n] \in Txs
             /\ f[n].ok = TRUE => f[n - 1].ok = TRUE /\ TxKept(f[n - 1], f[n], body[n])
  <2>1. n - 1 \in 0..Len(body) /\ n \in 0..Len(body) /\ body[n] \in Txs
    BY <1>1, <1>4
  <2>2. f[n - 1] \in St /\ f[n] \in St
    BY <2>1, <1>3
  <2>3. f[n] = TxEffect(f[n - 1], body[n], TRUE) /\ Ready(body[n], TRUE)
    BY <1>2, <1>3
  <2>4. f[n].ok = TRUE => f[n - 1].ok = TRUE /\ TxKept(f[n - 1], f[n], body[n])
    BY <2>1, <2>2, <2>3, <1>4, TxIs
  <2> QED BY <2>1, <2>2, <2>4
<1>6. ASSUME NEW n \in 0..Len(body), f[n].ok = TRUE PROVE RunKept(Start, f[n], Pre(body, n))
  <2> DEFINE Q(k) == k <= Len(body) /\ f[k].ok = TRUE => RunKept(Start, f[k], Pre(body, k))
             N == {k \in Nat : Q(k)}
  <2>1. Start \in St
    <3>1. 0 \in 0..Len(body)
      BY <1>4
    <3> QED BY <1>3, <3>1
  <2>2. 0 \in N
    BY <2>1, <1>1, <1>3, KeptNone, PreIs
  <2>3. ASSUME NEW k \in N PROVE k + 1 \in N
    <3>0. SUFFICES Q(k + 1)
      <4>1. k + 1 \in Nat
        OBVIOUS
      <4> QED BY <4>1
    <3>1. SUFFICES ASSUME k + 1 <= Len(body), f[k + 1].ok = TRUE PROVE RunKept(Start, f[k + 1], Pre(body, k + 1))
      OBVIOUS
    <3>2. k \in Nat /\ k + 1 \in 1..Len(body) /\ (k + 1) - 1 = k
      BY <3>1, <1>4
    <3>3. f[k] \in St /\ f[k + 1] \in St /\ body[k + 1] \in Txs /\ f[k].ok = TRUE /\ TxKept(f[k], f[k + 1], body[k + 1])
      BY <3>1, <3>2, <1>5
    <3>4. RunKept(Start, f[k], Pre(body, k))
      BY <3>1, <3>2, <3>3, <2>3
    <3>5. Pre(body, k + 1) = Pre(body, k) \cup {body[k + 1]} /\ Pre(body, k) \subseteq Txs
      BY <3>1, <3>2, <1>1, PreIs
    <3>6. body[k + 1] \notin Pre(body, k)
      <4>1. ASSUME NEW i \in 1..k PROVE body[i] # body[k + 1]
        <5>1. i \in DOMAIN body /\ k + 1 \in DOMAIN body /\ i # k + 1
          BY <1>1, <3>2
        <5> QED BY <5>1, <1>1 DEF IsInjective
      <4> QED BY <4>1 DEF Pre
    <3> HIDE DEF N
    <3>7. RunKept(Start, f[k + 1], Pre(body, k) \cup {body[k + 1]})
      BY ONLY <2>1, <3>3, <3>4, <3>5, <3>6, KeptMore
    <3> QED BY <3>5, <3>7
  <2>4. N = Nat
    <3>1. N \subseteq Nat
      OBVIOUS
    <3> HIDE DEF N
    <3> QED BY <2>2, <2>3, <3>1, NatSetInduction
  <2> QED BY <2>4, <1>4, <1>6
<1>7. Len(body) \in 0..Len(body)
  BY <1>4
<1>8. f[Len(body)] \in St /\ f[Len(body)].ok = TRUE
  BY <1>3, <1>7
<1>9. RunKept(Start, f[Len(body)], Pre(body, Len(body)))
  BY <1>6, <1>7, <1>8
<1> QED BY <1>1, <1>3, <1>8, <1>9, PreIs

-----------------------------------------------------------------------------
(* The root: preview and commit compute the same.                            *)

\* q are the balances and recipients the body leads to from p.
IsPureRun(p, body, q) ==
    \E g : g[0] = p /\ (\A n \in 1..Len(body) : g[n] = PureTx(g[n - 1], body[n])) /\ g[Len(body)] = q

\* A body leads to one result.
LEMMA PureUnique ==
    ASSUME NEW body \in Seq(Txs), NEW p, NEW q, NEW r, IsPureRun(p, body, q), IsPureRun(p, body, r)
    PROVE  q = r
<1>1. PICK g : g[0] = p /\ (\A n \in 1..Len(body) : g[n] = PureTx(g[n - 1], body[n])) /\ g[Len(body)] = q
  BY DEF IsPureRun
<1>2. PICK h : h[0] = p /\ (\A n \in 1..Len(body) : h[n] = PureTx(h[n - 1], body[n])) /\ h[Len(body)] = r
  BY DEF IsPureRun
<1>3. Len(body) \in Nat
  OBVIOUS
<1> DEFINE N == {n \in Nat : n <= Len(body) => g[n] = h[n]}
<1>4. 0 \in N
  BY <1>1, <1>2
<1>5. ASSUME NEW n \in N PROVE n + 1 \in N
  <2>1. SUFFICES ASSUME n + 1 <= Len(body) PROVE g[n + 1] = h[n + 1]
    OBVIOUS
  <2>2. n + 1 \in 1..Len(body) /\ (n + 1) - 1 = n /\ g[n] = h[n]
    BY <2>1, <1>3, <1>5
  <2> QED BY <2>2, <1>1, <1>2
<1>6. N = Nat
  <2>1. N \subseteq Nat
    OBVIOUS
  <2> HIDE DEF N
  <2> QED BY <1>4, <1>5, <2>1, NatSetInduction
<1> QED BY <1>1, <1>2, <1>3, <1>6

\* Preview and commit both compute it, if no transaction is refused.
LEMMA RunPure ==
    ASSUME NEW body \in Bodies, balances \in Bal, meta \in Goods, vest \in [Users -> Nat], NEW c \in BOOLEAN,
           c = TRUE => Range(body) \cap meta.applied = {}
    PROVE  /\ RunBody(body, c) \in St
           /\ RunBody(body, c).ok = TRUE =>
                 IsPureRun([bal |-> balances, drops |-> meta.airdrops], body, Pure(RunBody(body, c)))
<1>1. body \in Seq(Txs)
  BY SettlementAssumption
<1>2. \A i \in 1..Len(body) : Ready(body[i], c)
  BY <1>1 DEF Ready, Range
<1>3. PICK f : /\ f \in [0..Len(body) -> St] /\ f[0] = Start /\ RunBody(body, c) = f[Len(body)]
               /\ \A n \in 1..Len(body) : f[n] = TxEffect(f[n - 1], body[n], c)
  BY <1>1, <1>2, RunIs
<1>4. Len(body) \in Nat /\ meta \in Metas
  BY <1>1 DEF Goods
<1>5. ASSUME NEW n \in 1..Len(body)
      PROVE  f[n].ok = TRUE => f[n - 1].ok = TRUE /\ Pure(f[n]) = PureTx(Pure(f[n - 1]), body[n])
  <2>1. n - 1 \in 0..Len(body) /\ n \in 0..Len(body) /\ body[n] \in Txs
    BY <1>1, <1>4
  <2>2. f[n - 1] \in St /\ f[n] \in St
    BY <2>1, <1>3
  <2>3. f[n] = TxEffect(f[n - 1], body[n], c) /\ Ready(body[n], c)
    BY <1>2, <1>3
  <2>4. PICK s, t, tx : s = f[n - 1] /\ t = f[n] /\ tx = body[n]
    OBVIOUS
  <2>5. s \in St /\ tx \in Txs /\ meta \in Metas /\ vest \in [Users -> Nat] /\ c \in BOOLEAN /\ Ready(tx, c)
        /\ t = TxEffect(s, tx, c)
    BY <2>1, <2>2, <2>3, <2>4, <1>4
  <2>6. t.ok = TRUE => s.ok = TRUE /\ Pure(t) = PureTx(Pure(s), tx)
    BY ONLY <2>5, TxIs
  <2> QED BY <2>4, <2>6
<1>6. ASSUME f[Len(body)].ok = TRUE
      PROVE  IsPureRun([bal |-> balances, drops |-> meta.airdrops], body, Pure(f[Len(body)]))
  <2> DEFINE Q(k) == k <= Len(body) => f[Len(body) - k].ok = TRUE
             N == {k \in Nat : Q(k)}
  <2>1. 0 \in N
    BY <1>4, <1>6
  <2>2. ASSUME NEW k \in N PROVE k + 1 \in N
    <3>0. SUFFICES Q(k + 1)
      <4>1. k + 1 \in Nat
        OBVIOUS
      <4> QED BY <4>1
    <3>1. SUFFICES ASSUME k + 1 <= Len(body) PROVE f[Len(body) - (k + 1)].ok = TRUE
      OBVIOUS
    <3>2. Len(body) - k \in 1..Len(body) /\ (Len(body) - k) - 1 = Len(body) - (k + 1) /\ f[Len(body) - k].ok = TRUE
      BY <3>1, <2>2, <1>4
    <3> QED BY <3>2, <1>5
  <2>3. N = Nat
    <3>1. N \subseteq Nat
      OBVIOUS
    <3> HIDE DEF N
    <3> QED BY <2>1, <2>2, <3>1, NatSetInduction
  <2>4. ASSUME NEW n \in 1..Len(body) PROVE f[n].ok = TRUE
    <3>1. Len(body) - n \in Nat /\ Len(body) - n <= Len(body) /\ Len(body) - (Len(body) - n) = n
      BY <1>4
    <3>2. Q(Len(body) - n)
      BY <3>1, <2>3
    <3> QED BY <3>1, <3>2
  <2>5. PICK g : g = [n \in 0..Len(body) |-> Pure(f[n])]
    OBVIOUS
  <2>6. ASSUME NEW n \in 1..Len(body) PROVE g[n] = PureTx(g[n - 1], body[n])
    <3>1. n \in 0..Len(body) /\ n - 1 \in 0..Len(body)
      BY <1>4
    <3>2. Pure(f[n]) = PureTx(Pure(f[n - 1]), body[n])
      BY <2>4, <1>5
    <3> QED BY <3>1, <3>2, <2>5
  <2>7. g[0] = [bal |-> balances, drops |-> meta.airdrops] /\ g[Len(body)] = Pure(f[Len(body)])
    BY <1>3, <1>4, <2>5 DEF Pure, Start
  <2> QED BY <2>6, <2>7 DEF IsPureRun
<1>7. f[Len(body)] \in St
  BY <1>3, <1>4
<1> QED BY <1>3, <1>6, <1>7

\* The producer's reward, from the pool, and the rows it touches.
PayReward(bal, n) == IF n = 0 THEN bal ELSE Credit(Debit(bal, Pool, n), Producer, n)
RewardRows(n) == IF n > 0 THEN {Pool, Producer} ELSE {}

\* The reward of a body is a natural number.
LEMMA RewardNat == ASSUME NEW body \in Bodies PROVE RewardOf(body) \in Nat
<1>1. body \in Seq(Txs) /\ BaseReward \in Nat /\ ComputeReward \in Nat
  BY SettlementAssumption, SeNats
<1>2. PICK D : D = {i \in DOMAIN body : body[i].kind = "proof"}
  OBVIOUS
<1>3. IsFiniteSet(1..Len(body))
  BY <1>1, FS_Interval
<1>4. D \subseteq 1..Len(body)
  BY <1>1, <1>2
<1>5. Cardinality(D) \in Nat
  BY <1>3, <1>4, FS_Subset, FS_CardinalityType
<1>6. PICK k : k = Cardinality(D)
  OBVIOUS
<1>7. ComputeReward * k \in Nat
  BY <1>1, <1>5, <1>6
<1> QED BY <1>1, <1>2, <1>6, <1>7 DEF RewardOf

\* The reward moves money from the pool to the producer.
LEMMA RewardIs ==
    ASSUME NEW st \in St, NEW n \in Nat, NEW t, t = RewardEffect(st, n)
    PROVE  /\ t \in St
           /\ t.ok = TRUE => /\ st.ok = TRUE /\ t.meta = st.meta /\ SumFunction(t.bal) = SumFunction(st.bal)
                             /\ t.bal = PayReward(st.bal, n) /\ RowsKept(st, t, RewardRows(n))
<1>0. st.ok \in BOOLEAN /\ st.bal \in Bal /\ st.bal[Pool] \in Nat /\ Pool \in Accounts /\ Producer \in Accounts
  BY StShape, SeConst
<1>1. CASE ~st.ok
  <2>1. t = st
    BY <1>1 DEF RewardEffect
  <2> QED BY <1>1, <2>1
<1>2. CASE st.ok /\ n = 0
  <2>1. t = st
    BY <1>2 DEF RewardEffect
  <2>2. st.ok = TRUE
    BY <1>0, <1>2
  <2> QED BY <1>2, <2>1, <2>2 DEF PayReward, RowsKept
<1>3. CASE st.ok /\ n # 0 /\ n > st.bal[Pool]
  <2>1. t = Refused(st)
    BY <1>3 DEF RewardEffect
  <2> QED BY <2>1, RefusedIs
<1>4. CASE st.ok /\ n # 0 /\ ~(n > st.bal[Pool])
  <2>1. PICK bal : bal = Credit(Debit(st.bal, Pool, n), Producer, n)
    OBVIOUS
  <2>2. t = [st EXCEPT !.bal = bal, !.dirty = @ \cup {Pool, Producer}]
    BY <1>4, <2>1 DEF RewardEffect
  <2>3. /\ bal \in Bal /\ SumFunction(bal) = SumFunction(st.bal)
        /\ \A x \in Accounts : x \notin {Pool, Producer} => bal[x] = st.bal[x]
    <3>1. n <= st.bal[Pool]
      BY <1>0, <1>4
    <3>2. n \in Nat
      OBVIOUS
    <3> QED BY ONLY <1>0, <2>1, <3>1, <3>2, MoveIs
  <2>4. t \in St /\ t.bal = bal /\ t.meta = st.meta /\ t.dirty = st.dirty \cup {Pool, Producer}
    BY <2>2, <2>3, <1>0 DEF St
  <2>5. st.ok = TRUE
    BY <1>0, <1>4
  <2>6. t.bal = PayReward(st.bal, n)
    BY <1>4, <2>1, <2>4 DEF PayReward
  <2>7. RowsKept(st, t, RewardRows(n))
    <3>1. RewardRows(n) = {Pool, Producer}
      BY <1>4 DEF RewardRows
    <3> QED BY <3>1, <2>3, <2>4 DEF RowsKept
  <2> QED BY <2>3, <2>4, <2>5, <2>6, <2>7
<1> QED BY <1>0, <1>1, <1>2, <1>3, <1>4

\* root are the balances after the block: its transactions and the reward.
IsRoot(bal, drops, body, root) ==
    \E q : IsPureRun([bal |-> bal, drops |-> drops], body, q) /\ root = PayReward(q.bal, RewardOf(body))

\* What a computed block did to the trees b and m: money, the rows of the undo record,
\* markers.
EffectOk(body, b, m, t) ==
    /\ SumFunction(b) <= m.supply => /\ t.meta.supply - SumFunction(t.bal) = m.supply - SumFunction(b)
                                     /\ t.meta.supply + t.meta.burned = m.supply + m.burned
    /\ t.dirty \subseteq UndoRows(body)
    /\ \A a \in Accounts : a \notin t.dirty => t.bal[a] = b[a]
    /\ BodyMarks(m, t.meta, Range(body)) /\ RunCounts(m, t.meta, Range(body)) /\ RunDrops(m, t.meta, Range(body))

\* A block has one root.
LEMMA RootUnique ==
    ASSUME NEW body \in Bodies, NEW bal, NEW drops, NEW r, NEW s, IsRoot(bal, drops, body, r), IsRoot(bal, drops, body, s)
    PROVE  r = s
<1>1. body \in Seq(Txs)
  BY SettlementAssumption
<1>2. PICK p : p = [bal |-> bal, drops |-> drops]
  OBVIOUS
<1>3. PICK q : IsPureRun(p, body, q) /\ r = PayReward(q.bal, RewardOf(body))
  BY <1>2 DEF IsRoot
<1>4. PICK u : IsPureRun(p, body, u) /\ s = PayReward(u.bal, RewardOf(body))
  BY <1>2 DEF IsRoot
<1>5. q = u
  BY <1>1, <1>3, <1>4, PureUnique
<1> QED BY <1>3, <1>4, <1>5

\* Both runs over a block compute its root; the commit keeps the rest.
LEMMA BlockIs ==
    ASSUME NEW body \in Bodies, balances \in Bal, meta \in Goods, vest \in [Users -> Nat], NEW c \in BOOLEAN,
           c = TRUE => Range(body) \cap meta.applied = {}, NEW t, t = BlockEffect(body, c)
    PROVE  /\ t \in St
           /\ t.ok = TRUE => /\ IsRoot(balances, meta.airdrops, body, t.bal)
                             /\ c = TRUE => EffectOk(body, balances, meta, t) /\ t.meta.height = meta.height
<1>1. PICK st : st = RunBody(body, c)
  OBVIOUS
<1>2. PICK n : n = RewardOf(body)
  OBVIOUS
<1>3. n \in Nat
  BY <1>2, RewardNat
<1>4. t = RewardEffect(st, n)
  BY <1>1, <1>2 DEF BlockEffect
<1>5. st \in St /\ (st.ok = TRUE => IsPureRun([bal |-> balances, drops |-> meta.airdrops], body, Pure(st)))
  BY <1>1, RunPure
<1>6. t \in St
  BY <1>3, <1>4, <1>5, RewardIs
<1>7. ASSUME t.ok = TRUE PROVE IsRoot(balances, meta.airdrops, body, t.bal)
  <2>1. st.ok = TRUE /\ t.bal = PayReward(st.bal, n)
    BY <1>3, <1>4, <1>5, <1>7, RewardIs
  <2>2. IsPureRun([bal |-> balances, drops |-> meta.airdrops], body, Pure(st)) /\ Pure(st).bal = st.bal
    BY <2>1, <1>5 DEF Pure
  <2> QED BY <2>1, <2>2, <1>2 DEF IsRoot
<1>8. ASSUME t.ok = TRUE, c = TRUE PROVE EffectOk(body, balances, meta, t) /\ t.meta.height = meta.height
  <2>1. st.ok = TRUE /\ t.meta = st.meta /\ SumFunction(t.bal) = SumFunction(st.bal) /\ RowsKept(st, t, RewardRows(n))
    <3>1. st \in St /\ t.ok = TRUE
      BY <1>5, <1>8
    <3> QED BY ONLY <3>1, <1>3, <1>4, RewardIs
  <2>2. st = RunBody(body, TRUE) /\ RunBody(body, TRUE).ok = TRUE /\ Range(body) \cap meta.applied = {}
    BY <1>1, <1>8, <2>1
  <2>3. RunKept(Start, RunBody(body, TRUE), Range(body))
    BY <2>2, RunKeeps
  <2>4. RunKept(Start, st, Range(body))
    BY <2>2, <2>3
  <2>5. Start.bal = balances /\ Start.meta = meta /\ Start.dirty = {}
    BY DEF Start
  <2>6. BodyMarks(meta, t.meta, Range(body)) /\ RunCounts(meta, t.meta, Range(body)) /\ RunDrops(meta, t.meta, Range(body))
        /\ t.meta.height = meta.height
    BY <2>1, <2>4, <2>5 DEF RunKept, RunMarks
  <2>7. SumFunction(balances) <= meta.supply => /\ t.meta.supply - SumFunction(t.bal) = meta.supply - SumFunction(balances)
                                                /\ t.meta.supply + t.meta.burned = meta.supply + meta.burned
    BY <2>1, <2>4, <2>5 DEF RunKept, MoneyKept
  <2>8. RowsKept(Start, st, RowsOf(Range(body)))
    BY <2>4 DEF RunKept
  <2>9. t.dirty \subseteq UndoRows(body) /\ \A a \in Accounts : a \notin t.dirty => t.bal[a] = balances[a]
    <3>1. RowsOf(Range(body)) \cup RewardRows(n) \subseteq UndoRows(body)
      <4>1. ASSUME NEW x \in RowsOf(Range(body)) PROVE x \in UndoRows(body)
        <5>1. PICK tx \in Range(body) : x \in UndoRowsOfTx(tx)
          BY <4>1 DEF RowsOf
        <5> QED BY <5>1 DEF UndoRows
      <4>2. ASSUME NEW x \in RewardRows(n) PROVE x \in UndoRows(body)
        <5>1. RewardOf(body) > 0 /\ x \in {Pool, Producer}
          BY <4>2, <1>2 DEF RewardRows
        <5> QED BY <5>1 DEF UndoRows
      <4> QED BY <4>1, <4>2
    <3> QED BY <3>1, <2>1, <2>5, <2>8 DEF RowsKept
  <2> QED BY <2>6, <2>7, <2>9 DEF EffectOk
<1> QED BY <1>6, <1>7, <1>8

\* compute_state_root_after_remote_block computes the root.
LEMMA PreviewIs ==
    ASSUME NEW body \in Bodies, balances \in Bal, meta \in Goods, vest \in [Users -> Nat], Preview(body).ok
    PROVE  Preview(body).bal \in Bal /\ IsRoot(balances, meta.airdrops, body, Preview(body).bal)
<1>1. PICK t : t = BlockEffect(body, FALSE)
  OBVIOUS
<1>2. t \in St /\ (t.ok = TRUE => IsRoot(balances, meta.airdrops, body, t.bal))
  BY <1>1, BlockIs
<1>3. t = Preview(body)
  BY <1>1 DEF Preview
<1>4. t.ok = TRUE
  BY <1>2, <1>3, StShape
<1> QED BY <1>2, <1>3, <1>4, StShape

\* apply_consensus_block_batch computes the root, and its effect.
LEMMA ComputeIs ==
    ASSUME NEW body \in Bodies, balances \in Bal, meta \in Goods, vest \in [Users -> Nat], Len(chain) \in Nat,
           Range(body) \cap meta.applied = {}, NEW t, t = Compute(body)
    PROVE  /\ t \in St
           /\ t.ok => /\ IsRoot(balances, meta.airdrops, body, t.bal) /\ EffectOk(body, balances, meta, t)
                      /\ t.meta.height = Len(chain) + 1
<1>1. PICK s : s = BlockEffect(body, TRUE)
  OBVIOUS
<1>2. s \in St /\ (s.ok = TRUE => IsRoot(balances, meta.airdrops, body, s.bal) /\ EffectOk(body, balances, meta, s))
  BY <1>1, BlockIs
<1>0. PICK h : h = Len(chain) + 1
  OBVIOUS
<1>00. h \in Nat
  BY <1>0
<1>3. t = [s EXCEPT !.meta.height = h]
  BY <1>0, <1>1 DEF Compute
<1>4. PICK m : m = [s.meta EXCEPT !.height = h]
  OBVIOUS
<1>5. s.meta \in Goods /\ s.meta \in Metas
  BY <1>2, StShape
<1>6. /\ m \in Metas /\ SameCounts(s.meta, m) /\ m.airdrops = s.meta.airdrops /\ m.height = h
      /\ m.applied = s.meta.applied /\ m.tasks = s.meta.tasks /\ m.done = s.meta.done /\ m.registered = s.meta.registered
  BY <1>00, <1>4, <1>5 DEF Metas, SameCounts
<1>7. m \in Goods
  BY <1>5, <1>6 DEF Goods, Burnt, SameCounts
<1>8. t = [s EXCEPT !.meta = m]
  BY <1>3, <1>4
<1>9. t \in St /\ t.bal = s.bal /\ t.meta = m /\ t.dirty = s.dirty
  BY <1>2, <1>7, <1>8 DEF St
<1>10. t.ok = s.ok
  BY <1>2, <1>8, Zenon DEF St
<1>11. ASSUME t.ok PROVE IsRoot(balances, meta.airdrops, body, t.bal) /\ EffectOk(body, balances, meta, t) /\ t.meta.height = Len(chain) + 1
  <2>1. s.ok = TRUE
    BY <1>2, <1>10, <1>11, StShape
  <2>2. IsRoot(balances, meta.airdrops, body, s.bal) /\ EffectOk(body, balances, meta, s)
    BY <2>1, <1>2
  <2>3. BodyMarks(meta, m, Range(body)) /\ RunCounts(meta, m, Range(body)) /\ RunDrops(meta, m, Range(body))
    BY <2>2, <1>6 DEF EffectOk, BodyMarks, RunCounts, RunDrops, SameCounts, FewDrops
  <2>4. EffectOk(body, balances, meta, t)
    BY <2>2, <2>3, <1>6, <1>9 DEF EffectOk, SameCounts
  <2> QED BY <2>2, <2>4, <1>0, <1>6, <1>9
<1> QED BY <1>9, <1>11

-----------------------------------------------------------------------------
(* What REST operations do.                                                  *)

\* Versions of the rows, money outside the balances, requests between their two steps.
Vers == [Rows -> Nat]
Purse == [Users -> Nat]
Requests == [op : {"stake", "bond", "transfer"}, wallet : Users, amount : Nat, nonce : Nat, locked : Nat]
\* The money outside the balances tree.
Locked == SumFunction(stake) + SumFunction(bond) + SumFunction(court)
\* Types of everything but the blocks.
LedgerTypes ==
    /\ balances \in Bal /\ meta \in Goods /\ stake \in Purse /\ bond \in Purse /\ court \in Purse /\ vest \in Purse
    /\ nonces \in [Users \cup {Dex} -> Nat] /\ guardians \subseteq Users /\ version \in Vers
    /\ request # None => request \in Requests
\* x of the balances and of the locked money went, and the supply with it; x was held by
\* a wallet that is written or was locked.
Burned(x, e, f, b, c, v, w, s, t) ==
    /\ x \in Nat /\ t = Monus(s, x) /\ SumFunction(c) + f + x = SumFunction(b) + e
    /\ x = 0 \/ x <= e \/ \E p \in Accounts : w[p] # v[p] /\ x <= b[p]
\* Versions only grow, and a row whose version did not is the same.
Grown(v, w, b, c, m, n) ==
    /\ \A r \in Rows : v[r] <= w[r]
    /\ \A a \in Accounts : w[a] = v[a] => c[a] = b[a]
    /\ w[Counters] = v[Counters] => n = m
    /\ SameBlock(m, n)
\* What every REST operation amounts to for the blocks: no block changes, versions grow,
\* money burned leaves supply and wallets alike.
RestStep ==
    /\ chain' = chain /\ job' = job /\ raced' = raced
    /\ LedgerTypes'
    /\ Grown(version, version', balances, balances', meta, meta')
    /\ \E x : /\ Burned(x, Locked, Locked', balances, balances', version, version', meta.supply, meta'.supply)
              /\ meta'.burned = meta.burned + x

\* The rows are those of the wallets and the counters.
LEMMA RowIs ==
    /\ Counters \in Rows /\ Accounts \subseteq Rows /\ Counters \notin Accounts
    /\ \A r \in Rows : r = Counters \/ r \in Accounts
BY SettlementAssumption DEF Rows

\* No stake or bond exceeds their sum.
LEMMA PurseSum ==
    ASSUME NEW s, s \in Purse
    PROVE  SumFunction(s) \in Nat /\ \A w \in Users : s[w] \in Nat /\ s[w] <= SumFunction(s)
BY SeConst, SumAll DEF Purse

\* The sum after one stake or bond is set.
LEMMA PurseSet ==
    ASSUME NEW s, s \in Purse, NEW w \in Users, NEW n \in Nat, NEW t, t = [s EXCEPT ![w] = n]
    PROVE  t \in Purse /\ SumFunction(t) = SumFunction(s) - s[w] + n
<1>1. t \in [Users -> Nat] /\ s \in [Users -> Nat] /\ t[w] = n /\ \A x \in Users : x # w => t[x] = s[x]
  BY DEF Purse
<1>2. SumFunction(t) = SumFunction(s) - s[w] + t[w]
  <2>1. IsFiniteSet(Users) /\ w \in Users
    BY SeConst
  <2>2. t \in [Users -> Nat] /\ s \in [Users -> Nat]
    BY <1>1
  <2>3. \A x \in Users : x # w => t[x] = s[x]
    BY <1>1
  <2> QED BY ONLY <2>1, <2>2, <2>3, SumOne
<1> QED BY <1>1, <1>2 DEF Purse

\* A sled transaction of a REST operation counts a version for each row it changes.
LEMMA CommitIs ==
    ASSUME LedgerTypes, NEW bal \in Bal, NEW m \in Goods, SameBlock(meta, m), Commit(bal, m)
    PROVE  /\ chain' = chain /\ job' = job /\ raced' = raced /\ balances' = bal /\ meta' = m
           /\ version' \in Vers /\ Grown(version, version', balances, balances', meta, meta')
           /\ \A a \in Accounts : bal[a] # balances[a] => version'[a] # version[a]
<1>1. /\ chain' = chain /\ job' = job /\ raced' = raced /\ balances' = bal /\ meta' = m
      /\ version' = [r \in Rows |-> IF (IF r = Counters THEN m # meta ELSE bal[r] # balances[r])
                                    THEN version[r] + 1 ELSE version[r]]
  BY DEF Commit
<1>2. \A r \in Rows : version[r] \in Nat
  BY DEF LedgerTypes, Vers
<1>3. PICK v : v = version
  OBVIOUS
<1>4. PICK w : w = version'
  OBVIOUS
<1>5. ASSUME NEW r \in Rows PROVE w[r] \in Nat /\ v[r] <= w[r]
  BY <1>1, <1>2, <1>3, <1>4
<1>6. ASSUME NEW a \in Accounts PROVE IF bal[a] # balances[a] THEN w[a] = v[a] + 1 ELSE w[a] = v[a]
  <2>1. a \in Rows /\ a # Counters
    BY RowIs
  <2> QED BY <1>1, <1>3, <1>4, <2>1
<1>7. IF m # meta THEN w[Counters] = v[Counters] + 1 ELSE w[Counters] = v[Counters]
  BY <1>1, <1>3, <1>4, RowIs
<1>8. w \in Vers
  <2>1. w = [r \in Rows |-> w[r]]
    BY <1>1, <1>4
  <2> QED BY <2>1, <1>5 DEF Vers
<1>9. v[Counters] \in Nat /\ \A a \in Accounts : v[a] \in Nat
  BY <1>2, <1>3, RowIs
<1>10. Grown(v, w, balances, bal, meta, m)
  BY <1>5, <1>6, <1>7, <1>9 DEF Grown
<1>11. \A a \in Accounts : bal[a] # balances[a] => w[a] # v[a]
  BY <1>6, <1>9
<1> QED BY <1>1, <1>3, <1>4, <1>8, <1>10, <1>11

\* An operation that moves money between wallets and locks, or burns it, is such a step.
LEMMA RestFrom ==
    ASSUME NEW bal, NEW m, bal \in Bal, m \in Goods, LedgerTypes, SameBlock(meta, m), Commit(bal, m),
           stake' \in Purse, bond' \in Purse, court' \in Purse, vest' \in Purse,
           nonces' \in [Users \cup {Dex} -> Nat], guardians' \subseteq Users, request' # None => request' \in Requests,
           NEW x, x \in Nat, m.supply = Monus(meta.supply, x), m.burned = meta.burned + x,
           SumFunction(bal) + Locked' + x = SumFunction(balances) + Locked,
           x = 0 \/ x <= Locked \/ \E p \in Accounts : bal[p] # balances[p] /\ x <= balances[p]
    PROVE  RestStep
<1>1. /\ chain' = chain /\ job' = job /\ raced' = raced /\ balances' = bal /\ meta' = m
      /\ version' \in Vers /\ Grown(version, version', balances, balances', meta, meta')
      /\ \A a \in Accounts : bal[a] # balances[a] => version'[a] # version[a]
  BY CommitIs
<1>2. LedgerTypes'
  BY <1>1 DEF LedgerTypes
<1>3. Burned(x, Locked, Locked', balances, balances', version, version', meta.supply, meta'.supply)
  BY <1>1 DEF Burned
<1> QED BY <1>1, <1>2, <1>3 DEF RestStep

\* So is one that moves no money.
LEMMA QuietRest ==
    ASSUME LedgerTypes, UNCHANGED <<balances, meta, stake, bond, court, nonces, guardians, chain, job, version, raced>>,
           vest' \in Purse, request' # None => request' \in Requests
    PROVE  RestStep
<1>1. LedgerTypes'
  BY DEF LedgerTypes
<1>2. Locked' = Locked
  BY DEF Locked
<1>3. meta.supply \in Nat /\ meta.burned \in Nat /\ SumFunction(balances) \in Nat /\ \A r \in Rows : version[r] \in Nat
  BY BalSum DEF LedgerTypes, Goods, Metas, Vers
<1>4. SumFunction(stake) \in Nat /\ SumFunction(bond) \in Nat /\ SumFunction(court) \in Nat
  BY PurseSum DEF LedgerTypes
<1>5. Locked \in Nat
  BY <1>4 DEF Locked
<1>6. Grown(version, version', balances, balances', meta, meta')
  BY <1>3 DEF Grown, SameBlock, SameMarks
<1>7. Burned(0, Locked, Locked', balances, balances', version, version', meta.supply, meta'.supply)
  BY <1>2, <1>3, <1>5 DEF Burned, Monus
<1>8. meta'.burned = meta.burned + 0
  BY <1>3
<1> QED BY <1>1, <1>6, <1>7, <1>8 DEF RestStep

\* The sums and fields the operations calculate with.
LEMMA LedgerNats ==
    ASSUME LedgerTypes
    PROVE  /\ SumFunction(balances) \in Nat /\ SumFunction(stake) \in Nat /\ SumFunction(bond) \in Nat
           /\ SumFunction(court) \in Nat /\ meta \in Metas /\ meta.supply \in Nat /\ SameBlock(meta, meta)
           /\ meta.burned \in Nat /\ meta.burned = meta.burned + 0
           /\ Locked = SumFunction(stake) + SumFunction(bond) + SumFunction(court)
           /\ \A a \in Accounts : balances[a] \in Nat /\ balances[a] <= SumFunction(balances)
           /\ \A w \in Users : stake[w] \in Nat /\ stake[w] <= SumFunction(stake) /\ bond[w] \in Nat
                                /\ court[w] \in Nat /\ vest[w] \in Nat
<1>1. balances \in Bal /\ stake \in Purse /\ bond \in Purse /\ court \in Purse /\ vest \in Purse /\ meta \in Goods
  BY DEF LedgerTypes
<1>2. SumFunction(balances) \in Nat /\ \A a \in Accounts : balances[a] \in Nat /\ balances[a] <= SumFunction(balances)
  BY <1>1, BalSum
<1>3. /\ SumFunction(stake) \in Nat /\ SumFunction(bond) \in Nat /\ SumFunction(court) \in Nat
      /\ \A w \in Users : stake[w] \in Nat /\ stake[w] <= SumFunction(stake) /\ bond[w] \in Nat
                           /\ court[w] \in Nat /\ vest[w] \in Nat
  BY <1>1, PurseSum
<1>4. meta \in Metas /\ meta.supply \in Nat /\ meta.burned \in Nat
  BY <1>1 DEF Goods, Metas
<1> QED BY <1>2, <1>3, <1>4 DEF Locked, SameBlock, SameMarks

\* A stake or a bond that grows or shrinks: so does the sum.
LEMMA PurseAdd ==
    ASSUME NEW s, s \in Purse, NEW w \in Users, NEW n, n \in Int, s[w] + n \in Nat, NEW t, t = [s EXCEPT ![w] = s[w] + n]
    PROVE  t \in Purse /\ SumFunction(t) = SumFunction(s) + n
<1>1. PICK k : k = s[w] + n
  OBVIOUS
<1>2. t = [s EXCEPT ![w] = k] /\ k \in Nat
  BY <1>1
<1>3. t \in Purse /\ SumFunction(t) = SumFunction(s) - s[w] + k
  <2>1. s \in Purse /\ w \in Users
    OBVIOUS
  <2> QED BY ONLY <1>2, <2>1, PurseSet
<1>4. s[w] \in Nat /\ SumFunction(s) \in Nat
  BY PurseSum
<1> QED BY <1>1, <1>3, <1>4

\* A nonce is set.
LEMMA NonceSet ==
    ASSUME nonces \in [Users \cup {Dex} -> Nat], NEW w, NEW n \in Nat, nonces' = [nonces EXCEPT ![w] = n]
    PROVE  nonces' \in [Users \cup {Dex} -> Nat]
OBVIOUS

\* Staking locks money of the wallet.
LEMMA RestStakeMicro ==
    ASSUME LedgerTypes, StakeMicro
    PROVE  RestStep
<1>1. PICK w, n, bal : w = request.wallet /\ n = request.amount /\ bal = Debit(balances, w, n)
  OBVIOUS
<1>2. /\ request \in Requests /\ RequestOk /\ stake' = [stake EXCEPT ![w] = stake[w] + n]
      /\ nonces' = [nonces EXCEPT ![w] = request.nonce] /\ Commit(bal, meta) /\ request' = None
      /\ bond' = bond /\ court' = court /\ vest' = vest /\ guardians' = guardians
  BY <1>1 DEF StakeMicro, LedgerTypes, Take
<1>3. w \in Users /\ w \in Accounts /\ n \in Nat /\ request.locked \in Nat /\ request.nonce \in Nat
  BY <1>1, <1>2, SeConst DEF Requests
<1>4. n <= balances[w]
  <2>1. Monus(balances[w], request.locked) >= n
    BY <1>1, <1>2 DEF RequestOk
  <2>2. balances[w] \in Nat
    BY <1>3, LedgerNats
  <2> QED BY <2>1, <2>2, <1>3 DEF Monus
<1>5. bal \in Bal /\ SumFunction(bal) = SumFunction(balances) - n
  <2>1. balances \in Bal
    BY DEF LedgerTypes
  <2> QED BY <2>1, <1>1, <1>3, <1>4, DebitIs
<1>6. stake' \in Purse /\ SumFunction(stake') = SumFunction(stake) + n
  <2>1. stake \in Purse /\ w \in Users /\ n \in Int /\ stake[w] + n \in Nat
    BY <1>3, LedgerNats DEF LedgerTypes
  <2> QED BY ONLY <2>1, <1>2, PurseAdd
<1>7. Locked' = Locked + n
  BY <1>2, <1>3, <1>6, LedgerNats DEF Locked
<1>8. nonces' \in [Users \cup {Dex} -> Nat]
  BY <1>2, <1>3, NonceSet DEF LedgerTypes
<1>9. bond' \in Purse /\ court' \in Purse /\ vest' \in Purse /\ guardians' \subseteq Users /\ meta \in Goods
  BY <1>2 DEF LedgerTypes
<1>10. SumFunction(bal) + Locked' + 0 = SumFunction(balances) + Locked /\ meta.supply = Monus(meta.supply, 0)
  BY <1>3, <1>5, <1>7, LedgerNats DEF Monus
<1> QED BY <1>2, <1>5, <1>6, <1>8, <1>9, <1>10, LedgerNats, RestFrom

\* So does a worker's bond,
LEMMA RestStakeWorkerBond ==
    ASSUME LedgerTypes, StakeWorkerBond
    PROVE  RestStep
<1>1. PICK w, n, bal : w = request.wallet /\ n = request.amount /\ bal = Debit(balances, w, n)
  OBVIOUS
<1>2. /\ request \in Requests /\ RequestOk /\ bond' = [bond EXCEPT ![w] = bond[w] + n]
      /\ nonces' = [nonces EXCEPT ![w] = request.nonce] /\ Commit(bal, meta) /\ request' = None
      /\ stake' = stake /\ court' = court /\ vest' = vest /\ guardians' = guardians
  BY <1>1 DEF StakeWorkerBond, LedgerTypes, Take
<1>3. w \in Users /\ w \in Accounts /\ n \in Nat /\ request.locked \in Nat /\ request.nonce \in Nat
  BY <1>1, <1>2, SeConst DEF Requests
<1>4. n <= balances[w]
  <2>1. Monus(balances[w], request.locked) >= n
    BY <1>1, <1>2 DEF RequestOk
  <2>2. balances[w] \in Nat
    BY <1>3, LedgerNats
  <2> QED BY <2>1, <2>2, <1>3 DEF Monus
<1>5. bal \in Bal /\ SumFunction(bal) = SumFunction(balances) - n
  <2>1. balances \in Bal
    BY DEF LedgerTypes
  <2> QED BY <2>1, <1>1, <1>3, <1>4, DebitIs
<1>6. bond' \in Purse /\ SumFunction(bond') = SumFunction(bond) + n
  <2>1. bond \in Purse /\ w \in Users /\ n \in Int /\ bond[w] + n \in Nat
    BY <1>3, LedgerNats DEF LedgerTypes
  <2> QED BY ONLY <2>1, <1>2, PurseAdd
<1>7. Locked' = Locked + n
  BY <1>2, <1>3, <1>6, LedgerNats DEF Locked
<1>8. nonces' \in [Users \cup {Dex} -> Nat]
  BY <1>2, <1>3, NonceSet DEF LedgerTypes
<1>9. stake' \in Purse /\ court' \in Purse /\ vest' \in Purse /\ guardians' \subseteq Users /\ meta \in Goods
  BY <1>2 DEF LedgerTypes
<1>10. SumFunction(bal) + Locked' + 0 = SumFunction(balances) + Locked /\ meta.supply = Monus(meta.supply, 0)
  BY <1>3, <1>5, <1>7, LedgerNats DEF Monus
<1> QED BY <1>2, <1>5, <1>6, <1>8, <1>9, <1>10, LedgerNats, RestFrom

\* which unstaking gives back.
LEMMA RestUnstakeWorkerBond ==
    ASSUME LedgerTypes, NEW w \in Users, NEW n \in Nat, NEW nonce \in Nat, UnstakeWorkerBond(w, n, nonce)
    PROVE  RestStep
<1>1. PICK bal : bal = Credit(balances, w, n)
  OBVIOUS
<1>2. /\ bond[w] >= n /\ bond' = [bond EXCEPT ![w] = bond[w] - n] /\ nonces' = [nonces EXCEPT ![w] = nonce] /\ Commit(bal, meta)
      /\ stake' = stake /\ court' = court /\ vest' = vest /\ guardians' = guardians /\ request' = request
  BY <1>1 DEF UnstakeWorkerBond, Give, Take
<1>3. w \in Users /\ w \in Accounts /\ Ecosystem \in Accounts /\ ChallengerBond \in Nat /\ bond \in Purse /\ bond[w] \in Nat
      /\ SumFunction(bond) \in Nat
  BY SeConst, SeNats, LedgerNats DEF LedgerTypes
<1>5. bal \in Bal /\ SumFunction(bal) = SumFunction(balances) + n
  <2>1. balances \in Bal /\ w \in Accounts /\ n \in Nat
    BY <1>3 DEF LedgerTypes
  <2> QED BY ONLY <2>1, <1>1, CreditIs
<1>6. bond' \in Purse /\ SumFunction(bond') = SumFunction(bond) + (-n)
  <2>1. bond \in Purse /\ w \in Users /\ -n \in Int /\ bond[w] + (-n) \in Nat
    BY <1>2, <1>3
  <2>2. bond' = [bond EXCEPT ![w] = bond[w] + (-n)]
    BY <1>2, <1>3
  <2> QED BY ONLY <2>1, <2>2, PurseAdd
<1>7. Locked' = Locked + (-n)
  BY <1>2, <1>3, <1>6, LedgerNats DEF Locked
<1>8. nonces' \in [Users \cup {Dex} -> Nat]
  BY <1>2, NonceSet DEF LedgerTypes
<1>90. stake' \in Purse /\ bond' \in Purse /\ court' \in Purse /\ vest' \in Purse
      /\ nonces' \in [Users \cup {Dex} -> Nat] /\ guardians' \subseteq Users /\ (request' # None => request' \in Requests)
  BY <1>2, <1>6, <1>8 DEF LedgerTypes
<1>91. bal \in Bal /\ meta \in Goods /\ Commit(bal, meta)
  BY <1>2, <1>5 DEF LedgerTypes
<1>92. SumFunction(bal) + Locked' + 0 = SumFunction(balances) + Locked /\ meta.supply = Monus(meta.supply, 0)
  BY <1>2, <1>3, <1>5, <1>7, LedgerNats DEF Monus
<1> QED BY <1>90, <1>91, <1>92, LedgerNats, RestFrom

\* A challenger's bond is locked,
LEMMA RestLockChallengerBond ==
    ASSUME LedgerTypes, NEW w \in Users, LockChallengerBond(w)
    PROVE  RestStep
<1>1. PICK bal : bal = Debit(balances, w, ChallengerBond)
  OBVIOUS
<1>2. /\ court[w] = 0 /\ balances[w] >= ChallengerBond /\ court' = [court EXCEPT ![w] = ChallengerBond] /\ nonces' = nonces /\ Commit(bal, meta)
      /\ stake' = stake /\ bond' = bond /\ vest' = vest /\ guardians' = guardians /\ request' = request
  BY <1>1 DEF LockChallengerBond, Give, Take
<1>3. w \in Users /\ w \in Accounts /\ Ecosystem \in Accounts /\ ChallengerBond \in Nat /\ court \in Purse /\ court[w] \in Nat
      /\ SumFunction(court) \in Nat
  BY SeConst, SeNats, LedgerNats DEF LedgerTypes
<1>5. bal \in Bal /\ SumFunction(bal) = SumFunction(balances) - ChallengerBond
  <2>1. balances \in Bal /\ w \in Accounts /\ ChallengerBond \in Nat /\ ChallengerBond <= balances[w]
    BY <1>2, <1>3, LedgerNats DEF LedgerTypes
  <2> QED BY ONLY <2>1, <1>1, DebitIs
<1>6. court' \in Purse /\ SumFunction(court') = SumFunction(court) + (ChallengerBond)
  <2>1. court \in Purse /\ w \in Users /\ ChallengerBond \in Int /\ court[w] + (ChallengerBond) \in Nat
    BY <1>2, <1>3
  <2>2. court' = [court EXCEPT ![w] = court[w] + (ChallengerBond)]
    BY <1>2, <1>3
  <2> QED BY ONLY <2>1, <2>2, PurseAdd
<1>7. Locked' = Locked + (ChallengerBond)
  BY <1>2, <1>3, <1>6, LedgerNats DEF Locked
<1>8. nonces' \in [Users \cup {Dex} -> Nat]
  BY <1>2 DEF LedgerTypes
<1>90. stake' \in Purse /\ bond' \in Purse /\ court' \in Purse /\ vest' \in Purse
      /\ nonces' \in [Users \cup {Dex} -> Nat] /\ guardians' \subseteq Users /\ (request' # None => request' \in Requests)
  BY <1>2, <1>6, <1>8 DEF LedgerTypes
<1>91. bal \in Bal /\ meta \in Goods /\ Commit(bal, meta)
  BY <1>2, <1>5 DEF LedgerTypes
<1>92. SumFunction(bal) + Locked' + 0 = SumFunction(balances) + Locked /\ meta.supply = Monus(meta.supply, 0)
  BY <1>2, <1>3, <1>5, <1>7, LedgerNats DEF Monus
<1> QED BY <1>90, <1>91, <1>92, LedgerNats, RestFrom

\* and goes back or to the ecosystem wallet.
LEMMA RestSettleChallengerBond ==
    ASSUME LedgerTypes, NEW w \in Users, NEW valid \in BOOLEAN, SettleChallengerBond(w, valid)
    PROVE  RestStep
<1>1. PICK bal : bal = Credit(balances, IF valid THEN w ELSE Ecosystem, court[w])
  OBVIOUS
<1>2. /\ court' = [court EXCEPT ![w] = 0] /\ nonces' = nonces /\ Commit(bal, meta)
      /\ stake' = stake /\ bond' = bond /\ vest' = vest /\ guardians' = guardians /\ request' = request
  BY <1>1 DEF SettleChallengerBond, Give, Take
<1>3. w \in Users /\ w \in Accounts /\ Ecosystem \in Accounts /\ ChallengerBond \in Nat /\ court \in Purse /\ court[w] \in Nat
      /\ SumFunction(court) \in Nat
  BY SeConst, SeNats, LedgerNats DEF LedgerTypes
<1>5. bal \in Bal /\ SumFunction(bal) = SumFunction(balances) + court[w]
  <2>1. balances \in Bal /\ (IF valid THEN w ELSE Ecosystem) \in Accounts /\ court[w] \in Nat
    BY <1>3 DEF LedgerTypes
  <2> QED BY ONLY <2>1, <1>1, CreditIs
<1>6. court' \in Purse /\ SumFunction(court') = SumFunction(court) + (-court[w])
  <2>1. court \in Purse /\ w \in Users /\ -court[w] \in Int /\ court[w] + (-court[w]) \in Nat
    BY <1>2, <1>3
  <2>2. court' = [court EXCEPT ![w] = court[w] + (-court[w])]
    <3>1. court[w] + (-court[w]) = 0
      BY <1>3
    <3>2. court' = [court EXCEPT ![w] = 0]
      BY <1>2
    <3> QED BY ONLY <3>1, <3>2
  <2> QED BY ONLY <2>1, <2>2, PurseAdd
<1>7. Locked' = Locked + (-court[w])
  BY <1>2, <1>3, <1>6, LedgerNats DEF Locked
<1>8. nonces' \in [Users \cup {Dex} -> Nat]
  BY <1>2 DEF LedgerTypes
<1>90. stake' \in Purse /\ bond' \in Purse /\ court' \in Purse /\ vest' \in Purse
      /\ nonces' \in [Users \cup {Dex} -> Nat] /\ guardians' \subseteq Users /\ (request' # None => request' \in Requests)
  BY <1>2, <1>6, <1>8 DEF LedgerTypes
<1>91. bal \in Bal /\ meta \in Goods /\ Commit(bal, meta)
  BY <1>2, <1>5 DEF LedgerTypes
<1>92. SumFunction(bal) + Locked' + 0 = SumFunction(balances) + Locked /\ meta.supply = Monus(meta.supply, 0)
  BY <1>2, <1>3, <1>5, <1>7, LedgerNats DEF Monus
<1> QED BY <1>90, <1>91, <1>92, LedgerNats, RestFrom

\* A slashed bond goes to the ecosystem wallet.
LEMMA RestSlashWorkerBond ==
    ASSUME LedgerTypes, NEW w \in Users, SlashWorkerBond(w)
    PROVE  RestStep
<1>1. PICK bal : bal = Credit(balances, Ecosystem, bond[w])
  OBVIOUS
<1>2. /\ bond' = [bond EXCEPT ![w] = 0] /\ nonces' = nonces /\ Commit(bal, meta)
      /\ stake' = stake /\ court' = court /\ vest' = vest /\ guardians' = guardians /\ request' = request
  BY <1>1 DEF SlashWorkerBond, Give, Take
<1>3. w \in Users /\ w \in Accounts /\ Ecosystem \in Accounts /\ ChallengerBond \in Nat /\ bond \in Purse /\ bond[w] \in Nat
      /\ SumFunction(bond) \in Nat
  BY SeConst, SeNats, LedgerNats DEF LedgerTypes
<1>5. bal \in Bal /\ SumFunction(bal) = SumFunction(balances) + bond[w]
  <2>1. balances \in Bal /\ Ecosystem \in Accounts /\ bond[w] \in Nat
    BY <1>3 DEF LedgerTypes
  <2> QED BY ONLY <2>1, <1>1, CreditIs
<1>6. bond' \in Purse /\ SumFunction(bond') = SumFunction(bond) + (-bond[w])
  <2>1. bond \in Purse /\ w \in Users /\ -bond[w] \in Int /\ bond[w] + (-bond[w]) \in Nat
    BY <1>2, <1>3
  <2>2. bond' = [bond EXCEPT ![w] = bond[w] + (-bond[w])]
    <3>1. bond[w] + (-bond[w]) = 0
      BY <1>3
    <3>2. bond' = [bond EXCEPT ![w] = 0]
      BY <1>2
    <3> QED BY ONLY <3>1, <3>2
  <2> QED BY ONLY <2>1, <2>2, PurseAdd
<1>7. Locked' = Locked + (-bond[w])
  BY <1>2, <1>3, <1>6, LedgerNats DEF Locked
<1>8. nonces' \in [Users \cup {Dex} -> Nat]
  BY <1>2 DEF LedgerTypes
<1>90. stake' \in Purse /\ bond' \in Purse /\ court' \in Purse /\ vest' \in Purse
      /\ nonces' \in [Users \cup {Dex} -> Nat] /\ guardians' \subseteq Users /\ (request' # None => request' \in Requests)
  BY <1>2, <1>6, <1>8 DEF LedgerTypes
<1>91. bal \in Bal /\ meta \in Goods /\ Commit(bal, meta)
  BY <1>2, <1>5 DEF LedgerTypes
<1>92. SumFunction(bal) + Locked' + 0 = SumFunction(balances) + Locked /\ meta.supply = Monus(meta.supply, 0)
  BY <1>2, <1>3, <1>5, <1>7, LedgerNats DEF Monus
<1> QED BY <1>90, <1>91, <1>92, LedgerNats, RestFrom

\* A withdrawal moves money to the founder.
LEMMA RestWithdrawTreasury ==
    ASSUME LedgerTypes, NEW n \in Nat, NEW nonce \in Nat, WithdrawTreasury(n, nonce)
    PROVE  RestStep
<1>1. PICK bal : bal = Credit(Debit(balances, Dex, n), Founder, n)
  OBVIOUS
<1>2. /\ NonceOk(Dex, nonce) /\ Commit(bal, meta) /\ stake' = stake /\ bond' = bond /\ court' = court /\ request' = request
      /\ vest' = vest /\ nonces' = [nonces EXCEPT ![Dex] = nonce] /\ guardians' = guardians /\ n <= balances[Dex]
  <2>1. balances[Dex] \in Nat /\ n \in Nat
    BY SeConst, SeNats, LedgerNats
  <2> QED BY <1>1, <2>1 DEF WithdrawTreasury, Move
<1>5. bal \in Bal /\ SumFunction(bal) = SumFunction(balances)
  <2>1. balances \in Bal /\ Dex \in Accounts /\ Founder \in Accounts /\ n \in Nat /\ n <= balances[Dex]
    BY <1>2, SeConst, SeNats DEF LedgerTypes
  <2> QED BY ONLY <2>1, <1>1, MoveIs
<1>7. Locked' = Locked
  BY <1>2 DEF Locked
<1>8. nonces' \in [Users \cup {Dex} -> Nat]
  BY <1>2, NonceSet DEF LedgerTypes
<1>90. stake' \in Purse /\ bond' \in Purse /\ court' \in Purse /\ vest' \in Purse
      /\ nonces' \in [Users \cup {Dex} -> Nat] /\ guardians' \subseteq Users /\ (request' # None => request' \in Requests)
  BY <1>2, <1>8 DEF LedgerTypes
<1>91. bal \in Bal /\ meta \in Goods /\ Commit(bal, meta)
  BY <1>2, <1>5 DEF LedgerTypes
<1>92. SumFunction(bal) + Locked' + 0 = SumFunction(balances) + Locked /\ meta.supply = Monus(meta.supply, 0)
  BY <1>5, <1>7, LedgerNats DEF Monus
<1> QED BY <1>90, <1>91, <1>92, LedgerNats, RestFrom

\* A guardian grant comes from the pool.
LEMMA RestGrantGuardian ==
    ASSUME LedgerTypes, NEW w \in Users, GrantGuardian(w)
    PROVE  RestStep
<1>1. PICK bal : bal = Credit(Debit(balances, Pool, GuardianGrant), w, GuardianGrant)
  OBVIOUS
<1>2. /\ TRUE /\ Commit(bal, meta) /\ stake' = stake /\ bond' = bond /\ court' = court /\ request' = request
      /\ vest' = vest /\ nonces' = nonces /\ guardians' = guardians \cup {w} /\ GuardianGrant <= balances[Pool]
  <2>1. balances[Pool] \in Nat /\ GuardianGrant \in Nat
    BY SeConst, SeNats, LedgerNats
  <2> QED BY <1>1, <2>1 DEF GrantGuardian, Move
<1>5. bal \in Bal /\ SumFunction(bal) = SumFunction(balances)
  <2>1. balances \in Bal /\ Pool \in Accounts /\ w \in Accounts /\ GuardianGrant \in Nat /\ GuardianGrant <= balances[Pool]
    BY <1>2, SeConst, SeNats DEF LedgerTypes
  <2> QED BY ONLY <2>1, <1>1, MoveIs
<1>7. Locked' = Locked
  BY <1>2 DEF Locked
<1>8. nonces' \in [Users \cup {Dex} -> Nat]
  BY <1>2 DEF LedgerTypes
<1>90. stake' \in Purse /\ bond' \in Purse /\ court' \in Purse /\ vest' \in Purse
      /\ nonces' \in [Users \cup {Dex} -> Nat] /\ guardians' \subseteq Users /\ (request' # None => request' \in Requests)
  BY <1>2, <1>8 DEF LedgerTypes
<1>91. bal \in Bal /\ meta \in Goods /\ Commit(bal, meta)
  BY <1>2, <1>5 DEF LedgerTypes
<1>92. SumFunction(bal) + Locked' + 0 = SumFunction(balances) + Locked /\ meta.supply = Monus(meta.supply, 0)
  BY <1>5, <1>7, LedgerNats DEF Monus
<1> QED BY <1>90, <1>91, <1>92, LedgerNats, RestFrom

\* So does a worker's reward, locked for a while,
LEMMA RestMintWorkerReward ==
    ASSUME LedgerTypes, NEW w \in Users, NEW n \in Nat, MintWorkerReward(w, n)
    PROVE  RestStep
<1>1. PICK bal : bal = Credit(Debit(balances, Pool, n), w, n)
  OBVIOUS
<1>2. /\ TRUE /\ Commit(bal, meta) /\ stake' = stake /\ bond' = bond /\ court' = court /\ request' = request
      /\ vest' = [vest EXCEPT ![w] = vest[w] + n] /\ nonces' = nonces /\ guardians' = guardians /\ n <= balances[Pool]
  <2>1. balances[Pool] \in Nat /\ n \in Nat
    BY SeConst, SeNats, LedgerNats
  <2> QED BY <1>1, <2>1 DEF MintWorkerReward, Move
<1>5. bal \in Bal /\ SumFunction(bal) = SumFunction(balances)
  <2>1. balances \in Bal /\ Pool \in Accounts /\ w \in Accounts /\ n \in Nat /\ n <= balances[Pool]
    BY <1>2, SeConst, SeNats DEF LedgerTypes
  <2> QED BY ONLY <2>1, <1>1, MoveIs
<1>7. Locked' = Locked
  BY <1>2 DEF Locked
<1>8. vest' \in Purse
  <2>1. vest \in Purse /\ w \in Users /\ n \in Int /\ vest[w] + n \in Nat
    BY LedgerNats DEF LedgerTypes
  <2> QED BY ONLY <2>1, <1>2, PurseAdd
<1>90. stake' \in Purse /\ bond' \in Purse /\ court' \in Purse /\ vest' \in Purse
      /\ nonces' \in [Users \cup {Dex} -> Nat] /\ guardians' \subseteq Users /\ (request' # None => request' \in Requests)
  BY <1>2, <1>8 DEF LedgerTypes
<1>91. bal \in Bal /\ meta \in Goods /\ Commit(bal, meta)
  BY <1>2, <1>5 DEF LedgerTypes
<1>92. SumFunction(bal) + Locked' + 0 = SumFunction(balances) + Locked /\ meta.supply = Monus(meta.supply, 0)
  BY <1>5, <1>7, LedgerNats DEF Monus
<1> QED BY <1>90, <1>91, <1>92, LedgerNats, RestFrom

\* and then not.
LEMMA RestVestUnlocks ==
    ASSUME LedgerTypes, NEW w \in Users, VestUnlocks(w)
    PROVE  RestStep
<1>1. vest' = [vest EXCEPT ![w] = 0] /\ request' = request
      /\ UNCHANGED <<balances, meta, stake, bond, court, nonces, guardians, chain, job, version, raced>>
  BY DEF VestUnlocks, trees
<1>2. vest' \in Purse
  BY <1>1 DEF LedgerTypes, Purse
<1> QED BY <1>1, <1>2, QuietRest DEF LedgerTypes

\* Reading the locks changes nothing,
LEMMA RestReadLocks ==
    ASSUME LedgerTypes, NEW op \in {"stake", "bond", "transfer"}, NEW w \in Users, NEW n \in Nat, NEW nonce \in Nat, ReadLocks(op, w, n, nonce)
    PROVE  RestStep
<1>1. request' = [op |-> op, wallet |-> w, amount |-> n, nonce |-> nonce, locked |-> vest[w]] /\ vest' = vest
      /\ UNCHANGED <<balances, meta, stake, bond, court, nonces, guardians, chain, job, version, raced>>
  BY DEF ReadLocks, trees, outside
<1>2. vest[w] \in Nat
  BY LedgerNats
<1>3. request' \in Requests
  BY <1>1, <1>2 DEF Requests
<1> QED BY <1>1, <1>3, QuietRest DEF LedgerTypes

\* nor does a refusal.
LEMMA RestRequestRefused ==
    ASSUME LedgerTypes, RequestRefused
    PROVE  RestStep
<1>1. request' = None /\ vest' = vest
      /\ UNCHANGED <<balances, meta, stake, bond, court, nonces, guardians, chain, job, version, raced>>
  BY DEF RequestRefused, trees, outside
<1> QED BY <1>1, QuietRest DEF LedgerTypes

\* A debit and a credit of a part of it.
LEMMA PayOne ==
    ASSUME NEW bal \in Bal, NEW from \in Accounts, NEW n \in Nat, n <= bal[from], NEW to \in Accounts, NEW k \in Nat, k <= n,
           NEW t, t = Credit(Debit(bal, from, n), to, k)
    PROVE  /\ t \in Bal /\ SumFunction(t) = SumFunction(bal) - n + k
           /\ k < n => t[from] # bal[from]
<1>1. PICK d : d = Debit(bal, from, n)
  OBVIOUS
<1>3. d \in Bal /\ SumFunction(d) = SumFunction(bal) - n /\ \A x \in Accounts : d[x] = IF x = from THEN bal[from] - n ELSE bal[x]
  BY <1>1, DebitIs
<1>4. t \in Bal /\ SumFunction(t) = SumFunction(d) + k /\ \A x \in Accounts : t[x] = IF x = to THEN d[to] + k ELSE d[x]
  <2>1. d \in Bal /\ t = Credit(d, to, k) /\ to \in Accounts /\ k \in Nat
    BY <1>1, <1>3
  <2> QED BY ONLY <2>1, CreditIs
<1>6. SumFunction(bal) \in Nat /\ SumFunction(d) \in Nat /\ bal[from] \in Nat
  BY <1>3, BalSum
<1>7. d[from] = bal[from] - n /\ (to # from => t[from] = d[from]) /\ (to = from => t[from] = d[from] + k)
  BY <1>3, <1>4
<1>8. k < n => t[from] # bal[from]
  BY <1>6, <1>7
<1> QED BY <1>3, <1>4, <1>6, <1>8

\* An operation that burns what it debits from a wallet and credits to none.
LEMMA RestPay ==
    ASSUME LedgerTypes, NEW bal, bal \in Bal, NEW s, NEW fee \in Nat, s.burn \in Nat, NEW p \in Accounts, s.burn <= balances[p],
           s.burn > 0 => bal[p] # balances[p], SumFunction(bal) = SumFunction(balances) - s.burn,
           Commit(bal, Burn(meta, s, fee)), UNCHANGED outside, request' # None => request' \in Requests
    PROVE  RestStep
<1>1. PICK m : m = Burn(meta, s, fee)
  OBVIOUS
<1>2. meta \in Goods
  BY DEF LedgerTypes
<1>3. m \in Goods /\ SameBlock(meta, m) /\ m.supply = Monus(meta.supply, s.burn)
  BY <1>1, <1>2, BurnIs
<1>4. stake' = stake /\ bond' = bond /\ court' = court /\ vest' = vest /\ nonces' = nonces /\ guardians' = guardians
  BY DEF outside
<1>5. stake' \in Purse /\ bond' \in Purse /\ court' \in Purse /\ vest' \in Purse
      /\ nonces' \in [Users \cup {Dex} -> Nat] /\ guardians' \subseteq Users
  BY <1>4 DEF LedgerTypes
<1>6. Locked' = Locked
  BY <1>4 DEF Locked
<1>7. SumFunction(bal) + Locked' + s.burn = SumFunction(balances) + Locked
  BY <1>6, LedgerNats
<1>8. s.burn = 0 \/ s.burn <= Locked \/ \E q \in Accounts : bal[q] # balances[q] /\ s.burn <= balances[q]
  <2>1. CASE s.burn = 0
    BY <2>1
  <2>2. CASE s.burn > 0
    BY <2>2
  <2> QED BY <2>1, <2>2
<1>9. Commit(bal, m)
  BY <1>1
<1>10. m.burned = meta.burned + s.burn
  BY <1>1, <1>2, BurnIs
<1> QED BY <1>3, <1>5, <1>7, <1>8, <1>9, <1>10, RestFrom

\* A transfer burns its share,
LEMMA RestSettleTransfer ==
    ASSUME LedgerTypes, SettleTransfer
    PROVE  RestStep
<1>1. PICK p, n, kd, s, bal : p = request.wallet /\ n = request.amount /\ kd = Transfer(TRANSFER_FEE_BPS_MIN) /\ s = Charge(kd, n)
                             /\ bal = Credit(Credit(Debit(balances, p, n), ApiPool, s.net), Pool, s.pool)
  <2>1. PICK p, n, kd : p = request.wallet /\ n = request.amount /\ kd = Transfer(TRANSFER_FEE_BPS_MIN)
    OBVIOUS
  <2> QED BY <2>1
<1>2. request \in Requests /\ RequestOk /\ request' = None /\ UNCHANGED outside /\ Commit(bal, Burn(meta, s, FeeMicro(s)))
  BY <1>1 DEF SettleTransfer, Take, LedgerTypes
<1>3. p \in Users /\ p \in Accounts /\ n \in Nat /\ n <= balances[p]
  <2>1. request.wallet \in Users /\ request.amount \in Nat /\ request.locked \in Nat
    BY <1>2 DEF Requests
  <2>2. Monus(balances[p], request.locked) >= n
    BY <1>1, <1>2 DEF RequestOk
  <2>3. balances[p] \in Nat /\ p \in Accounts
    BY <1>1, <2>1, SeConst, LedgerNats
  <2> QED BY <1>1, <2>1, <2>2, <2>3 DEF Monus
<1>4. kd \in FeeKinds /\ kd.tag = "transfer" /\ kd.bps \in TRANSFER_FEE_BPS_MIN..TRANSFER_FEE_BPS_MAX
  BY <1>1 DEF FeeKinds, Transfer, TRANSFER_FEE_BPS_MIN, TRANSFER_FEE_BPS_MAX
<1>5. s \in [net : Nat, pool : Nat, treasury : Nat, burn : Nat] /\ s.net + FeeMicro(s) = n /\ s.treasury = 0
  <2>1. n \in Nat /\ s = Charge(kd, n)
    BY <1>1, <1>3
  <2> QED BY ONLY <2>1, <1>4, ChargeSplits
<1>6. s.net \in Nat /\ s.pool \in Nat /\ s.treasury \in Nat /\ s.burn \in Nat /\ FeeMicro(s) \in Nat /\ s.net + s.pool + s.burn = n
  BY <1>5 DEF FeeMicro
<1>7. bal \in Bal /\ SumFunction(bal) = SumFunction(balances) - s.burn /\ (s.burn > 0 => bal[p] # balances[p])
  <2>1. balances \in Bal /\ p \in Accounts /\ n \in Nat /\ n <= balances[p] /\ ApiPool \in Accounts /\ Pool \in Accounts
        /\ s.net \in Nat /\ s.pool \in Nat /\ s.net + s.pool <= n
    BY <1>2, <1>3, <1>6, SeConst DEF LedgerTypes
  <2>2. Paid(bal, balances, p, n, ApiPool, s.net, Pool, s.pool)
    BY ONLY <2>1, <1>1, PayIs
  <2>3. bal \in Bal /\ SumFunction(bal) = SumFunction(balances) - n + s.net + s.pool /\ (s.net + s.pool < n => bal[p] # balances[p])
    BY <2>2 DEF Paid
  <2> QED BY <2>1, <2>3, <1>6, LedgerNats
<1>8. s.burn <= balances[p] /\ p \in Accounts
  BY <1>3, <1>6, LedgerNats
<1>9. FeeMicro(s) \in Nat /\ s.burn \in Nat
  BY <1>6
<1>10. request' # None => request' \in Requests
  BY <1>2 DEF LedgerTypes
<1> QED BY <1>2, <1>7, <1>8, <1>9, <1>10, RestPay

\* AI utility its own,
LEMMA RestSettleAiUtility ==
    ASSUME LedgerTypes, NEW payer \in Users, NEW worker \in Users, NEW amount \in Nat, SettleAiUtility(payer, worker, amount)
    PROVE  RestStep
<1>1. PICK p, n, kd, s, bal : p = payer /\ n = amount /\ kd = AiUtility /\ s = Charge(kd, n)
                             /\ bal = Credit(Credit(Debit(balances, p, n), worker, s.net), Treasury, s.treasury)
  <2>1. PICK p, n, kd : p = payer /\ n = amount /\ kd = AiUtility
    OBVIOUS
  <2> QED BY <2>1
<1>2. balances[payer] >= amount /\ request' = request /\ UNCHANGED outside /\ Commit(bal, Burn(meta, s, s.treasury))
  BY <1>1 DEF SettleAiUtility, Take, LedgerTypes
<1>3. p \in Users /\ p \in Accounts /\ n \in Nat /\ n <= balances[p]
  BY <1>1, <1>2, SeConst, LedgerNats
<1>4. kd \in FeeKinds /\ kd.tag = "ai_utility"
  BY <1>1 DEF FeeKinds, AiUtility
<1>5. s \in [net : Nat, pool : Nat, treasury : Nat, burn : Nat] /\ s.net + FeeMicro(s) = n /\ s.pool = 0
  <2>1. n \in Nat /\ s = Charge(kd, n)
    BY <1>1, <1>3
  <2> QED BY ONLY <2>1, <1>4, ChargeSplits
<1>6. s.net \in Nat /\ s.pool \in Nat /\ s.treasury \in Nat /\ s.burn \in Nat /\ FeeMicro(s) \in Nat /\ s.net + s.treasury + s.burn = n
  BY <1>5 DEF FeeMicro
<1>7. bal \in Bal /\ SumFunction(bal) = SumFunction(balances) - s.burn /\ (s.burn > 0 => bal[p] # balances[p])
  <2>1. balances \in Bal /\ p \in Accounts /\ n \in Nat /\ n <= balances[p] /\ worker \in Accounts /\ Treasury \in Accounts
        /\ s.net \in Nat /\ s.treasury \in Nat /\ s.net + s.treasury <= n
    BY <1>2, <1>3, <1>6, SeConst DEF LedgerTypes
  <2>2. Paid(bal, balances, p, n, worker, s.net, Treasury, s.treasury)
    BY ONLY <2>1, <1>1, PayIs
  <2>3. bal \in Bal /\ SumFunction(bal) = SumFunction(balances) - n + s.net + s.treasury /\ (s.net + s.treasury < n => bal[p] # balances[p])
    BY <2>2 DEF Paid
  <2> QED BY <2>1, <2>3, <1>6, LedgerNats
<1>8. s.burn <= balances[p] /\ p \in Accounts
  BY <1>3, <1>6, LedgerNats
<1>9. s.treasury \in Nat /\ s.burn \in Nat
  BY <1>6
<1>10. request' # None => request' \in Requests
  BY <1>2 DEF LedgerTypes
<1> QED BY <1>2, <1>7, <1>8, <1>9, <1>10, RestPay

\* and AI inference its own.
LEMMA RestSettleAiInference ==
    ASSUME LedgerTypes, NEW payer \in Users, NEW amount \in Nat, SettleAiInference(payer, amount)
    PROVE  RestStep
<1>1. PICK p, n, kd, s, bal : p = payer /\ n = amount /\ kd = AiInference /\ s = Charge(kd, n)
                             /\ bal = Credit(Debit(balances, p, n), Pool, s.pool)
  <2>1. PICK p, n, kd : p = payer /\ n = amount /\ kd = AiInference
    OBVIOUS
  <2> QED BY <2>1
<1>2. balances[payer] >= amount /\ request' = request /\ UNCHANGED outside /\ Commit(bal, Burn(meta, s, 0))
  BY <1>1 DEF SettleAiInference, Take, LedgerTypes
<1>3. p \in Users /\ p \in Accounts /\ n \in Nat /\ n <= balances[p]
  BY <1>1, <1>2, SeConst, LedgerNats
<1>4. kd \in FeeKinds /\ kd.tag = "ai_inference"
  BY <1>1 DEF FeeKinds, AiInference
<1>5. s \in [net : Nat, pool : Nat, treasury : Nat, burn : Nat] /\ s.net + FeeMicro(s) = n /\ s.net = 0 /\ s.treasury = 0
  <2>1. n \in Nat /\ s = Charge(kd, n)
    BY <1>1, <1>3
  <2> QED BY ONLY <2>1, <1>4, ChargeSplits
<1>6. s.net \in Nat /\ s.pool \in Nat /\ s.treasury \in Nat /\ s.burn \in Nat /\ FeeMicro(s) \in Nat /\ s.pool + s.burn = n
  BY <1>5 DEF FeeMicro
<1>7. bal \in Bal /\ SumFunction(bal) = SumFunction(balances) - s.burn /\ (s.burn > 0 => bal[p] # balances[p])
  <2>1. balances \in Bal /\ p \in Accounts /\ n \in Nat /\ n <= balances[p] /\ Pool \in Accounts
        /\ s.pool \in Nat /\ s.pool <= n
    BY <1>2, <1>3, <1>6, SeConst DEF LedgerTypes
  <2>2. bal \in Bal /\ SumFunction(bal) = SumFunction(balances) - n + s.pool /\ (s.pool < n => bal[p] # balances[p])
    BY ONLY <2>1, <1>1, PayOne
  <2> QED BY <2>1, <2>2, <1>6, LedgerNats
<1>8. s.burn <= balances[p] /\ p \in Accounts
  BY <1>3, <1>6, LedgerNats
<1>9. 0 \in Nat /\ s.burn \in Nat
  BY <1>6
<1>10. request' # None => request' \in Requests
  BY <1>2 DEF LedgerTypes
<1> QED BY <1>2, <1>7, <1>8, <1>9, <1>10, RestPay

\* A slashed stake is burned.
LEMMA RestSlashStake ==
    ASSUME LedgerTypes, NEW w \in Users, NEW n \in Nat, SlashStake(w, n)
    PROVE  RestStep
<1>1. PICK m : m = [meta EXCEPT !.supply = Monus(meta.supply, n), !.burned = meta.burned + n]
  OBVIOUS
<1>2. /\ stake[w] >= n /\ stake' = [stake EXCEPT ![w] = stake[w] - n] /\ Commit(balances, m)
      /\ bond' = bond /\ court' = court /\ vest' = vest /\ nonces' = nonces /\ guardians' = guardians /\ request' = request
  BY <1>1 DEF SlashStake
<1>3. m \in Goods /\ SameBlock(meta, m) /\ m.supply = Monus(meta.supply, n) /\ m.burned = meta.burned + n
  <2>1. meta \in Metas /\ Burnt(meta) /\ meta.supply \in Nat /\ meta.burned \in Nat
    BY MetaShape DEF LedgerTypes, Goods
  <2>2. PICK s : s = Monus(meta.supply, n)
    OBVIOUS
  <2>3. PICK b : b = meta.burned + n
    OBVIOUS
  <2>4. s \in Nat /\ b \in Nat
    BY <2>1, <2>2, <2>3 DEF Monus
  <2>5. m = [meta EXCEPT !.supply = s, !.burned = b]
    BY <1>1, <2>2, <2>3
  <2>6. m \in Metas /\ SameBlock(meta, m) /\ m.supply = s /\ m.burned = b
    BY <2>1, <2>4, <2>5 DEF Metas, SameBlock, SameMarks
  <2>7. Burnt(m)
    BY <2>1, <2>2, <2>3, <2>6, GenesisNat DEF Burnt, Monus
  <2> QED BY <2>2, <2>3, <2>6, <2>7 DEF Goods
<1>4. stake' \in Purse /\ SumFunction(stake') = SumFunction(stake) - n
  <2>1. stake \in Purse /\ w \in Users /\ -n \in Int /\ stake[w] + (-n) \in Nat /\ SumFunction(stake) \in Nat
    BY <1>2, LedgerNats DEF LedgerTypes
  <2>2. stake' = [stake EXCEPT ![w] = stake[w] + (-n)]
    BY <1>2, <2>1
  <2>3. stake' \in Purse /\ SumFunction(stake') = SumFunction(stake) + (-n)
    BY ONLY <2>1, <2>2, PurseAdd
  <2> QED BY <2>1, <2>3
<1>5. stake' \in Purse /\ bond' \in Purse /\ court' \in Purse /\ vest' \in Purse
      /\ nonces' \in [Users \cup {Dex} -> Nat] /\ guardians' \subseteq Users /\ (request' # None => request' \in Requests)
  BY <1>2, <1>4 DEF LedgerTypes
<1>6. SumFunction(balances) + Locked' + n = SumFunction(balances) + Locked /\ n <= Locked
  BY <1>2, <1>4, LedgerNats DEF Locked
<1>7. balances \in Bal
  BY DEF LedgerTypes
<1> QED BY <1>2, <1>3, <1>5, <1>6, <1>7, RestFrom

-----------------------------------------------------------------------------
(* Types.                                                                    *)

\* Every REST operation is a RestStep.
LEMMA RestIs ==
    ASSUME LedgerTypes, RestNext
    PROVE  RestStep
<1>1. /\ \A n \in Amounts : n \in Nat
      /\ \A w \in RestUsers : w \in Users
  BY SeNats, SeConst
<1>2. /\ \A w \in RestUsers : \A nonce \in Nonces(w) : nonce \in Nat
      /\ \A nonce \in Nonces(Dex) : nonce \in Nat
  BY <1>1 DEF Nonces, LedgerTypes
<1>3. CASE \E w \in RestUsers, n \in Amounts :
             \/ \E nonce \in Nonces(w) :
                   \/ \E op \in {"stake", "bond"} : ReadLocks(op, w, n, nonce)
                   \/ UnstakeWorkerBond(w, n, nonce)
             \/ ReadLocks("transfer", w, n, 0)
             \/ SlashStake(w, n)
             \/ MintWorkerReward(w, n)
             \/ SettleAiInference(w, n)
             \/ \E worker \in Users : SettleAiUtility(w, worker, n)
  <2>1. PICK w \in RestUsers, n \in Amounts :
             \/ \E nonce \in Nonces(w) :
                   \/ \E op \in {"stake", "bond"} : ReadLocks(op, w, n, nonce)
                   \/ UnstakeWorkerBond(w, n, nonce)
             \/ ReadLocks("transfer", w, n, 0)
             \/ SlashStake(w, n)
             \/ MintWorkerReward(w, n)
             \/ SettleAiInference(w, n)
             \/ \E worker \in Users : SettleAiUtility(w, worker, n)
    BY <1>3
  <2>2. w \in Users /\ n \in Nat /\ 0 \in Nat
    BY <1>1
  <2>3. ASSUME NEW nonce \in Nonces(w), NEW op \in {"stake", "bond"}, ReadLocks(op, w, n, nonce) PROVE RestStep
    <3>1. nonce \in Nat /\ op \in {"stake", "bond", "transfer"}
      BY <1>2
    <3> QED BY <2>2, <2>3, <3>1, RestReadLocks
  <2>4. ASSUME NEW nonce \in Nonces(w), UnstakeWorkerBond(w, n, nonce) PROVE RestStep
    BY <1>2, <2>2, <2>4, RestUnstakeWorkerBond
  <2>5. CASE ReadLocks("transfer", w, n, 0)
    <3>1. "transfer" \in {"stake", "bond", "transfer"}
      OBVIOUS
    <3> QED BY <2>2, <2>5, <3>1, RestReadLocks
  <2>6. CASE SlashStake(w, n)
    BY <2>2, <2>6, RestSlashStake
  <2>7. CASE MintWorkerReward(w, n)
    BY <2>2, <2>7, RestMintWorkerReward
  <2>8. CASE SettleAiInference(w, n)
    BY <2>2, <2>8, RestSettleAiInference
  <2>9. ASSUME NEW worker \in Users, SettleAiUtility(w, worker, n) PROVE RestStep
    BY <2>2, <2>9, RestSettleAiUtility
  <2> QED BY <2>1, <2>3, <2>4, <2>5, <2>6, <2>7, <2>8, <2>9
<1>4. CASE StakeMicro \/ StakeWorkerBond \/ SettleTransfer \/ RequestRefused
  BY <1>4, RestStakeMicro, RestStakeWorkerBond, RestSettleTransfer, RestRequestRefused
<1>5. ASSUME NEW w \in RestUsers,
             \/ LockChallengerBond(w)
             \/ \E valid \in BOOLEAN : SettleChallengerBond(w, valid)
             \/ SlashWorkerBond(w) \/ GrantGuardian(w) \/ VestUnlocks(w)
      PROVE RestStep
  <2>1. w \in Users
    BY <1>1
  <2>2. ASSUME NEW valid \in BOOLEAN, SettleChallengerBond(w, valid) PROVE RestStep
    BY <2>1, <2>2, RestSettleChallengerBond
  <2>3. CASE LockChallengerBond(w)
    BY <2>1, <2>3, RestLockChallengerBond
  <2>4. CASE SlashWorkerBond(w)
    BY <2>1, <2>4, RestSlashWorkerBond
  <2>5. CASE GrantGuardian(w)
    BY <2>1, <2>5, RestGrantGuardian
  <2>6. CASE VestUnlocks(w)
    BY <2>1, <2>6, RestVestUnlocks
  <2> QED BY <1>5, <2>2, <2>3, <2>4, <2>5, <2>6
<1>6. ASSUME NEW n \in Amounts, NEW nonce \in Nonces(Dex), WithdrawTreasury(n, nonce) PROVE RestStep
  BY <1>1, <1>2, <1>6, RestWithdrawTreasury
<1>7. \/ \E w \in RestUsers, n \in Amounts :
             \/ \E nonce \in Nonces(w) :
                   \/ \E op \in {"stake", "bond"} : ReadLocks(op, w, n, nonce)
                   \/ UnstakeWorkerBond(w, n, nonce)
             \/ ReadLocks("transfer", w, n, 0)
             \/ SlashStake(w, n)
             \/ MintWorkerReward(w, n)
             \/ SettleAiInference(w, n)
             \/ \E worker \in Users : SettleAiUtility(w, worker, n)
      \/ StakeMicro \/ StakeWorkerBond \/ SettleTransfer \/ RequestRefused
      \/ \E w \in RestUsers :
             \/ LockChallengerBond(w)
             \/ \E valid \in BOOLEAN : SettleChallengerBond(w, valid)
             \/ SlashWorkerBond(w) \/ GrantGuardian(w) \/ VestUnlocks(w)
      \/ \E n \in Amounts, nonce \in Nonces(Dex) : WithdrawTreasury(n, nonce)
  BY Zenon DEF RestNext
<1> QED BY <1>3, <1>4, <1>5, <1>6, <1>7

\* Every row has at least as late a version in w as in v.
Below(v, w) == \A r \in Rows : v[r] <= w[r]
\* Undo records, trees and recorded blocks.
PartBals == UNION {[S -> Nat] : S \in SUBSET Accounts}
Undos == [balances : PartBals, meta : Goods]
Trees == [balances : Bal, meta : Goods]
Entries == [body : Bodies, undo : Undos, prep : Vers, before : Trees, after : Trees]
JobFields == {"step", "body", "mined", "root", "seen", "undo", "prep", "out", "read", "before"}
\* The undo record of a recorded block holds the rows of its transactions, read at a
\* version that was.
EntryTyped(e, v) == e \in Entries /\ e.undo.balances \in [UndoRows(e.body) -> Nat] /\ Below(e.prep, v)
Steps == {"idle", "previewed", "prepared", "computed", "written", "unwinding"}
\* What a block knows after each step of its apply.
Previewed(j, v) ==
    j.step \in {"previewed", "prepared", "computed", "written"} =>
        j.body \in Bodies /\ j.root \in Bal /\ j.seen \in Vers /\ Below(j.seen, v)
Prepared(j, v) ==
    j.step \in {"prepared", "computed", "written"} =>
        j.undo \in Undos /\ j.undo.balances \in [UndoRows(j.body) -> Nat] /\ j.prep \in Vers /\ Below(j.prep, v)
Computed(j, v) ==
    j.step \in {"computed", "written"} =>
        /\ DOMAIN j = JobFields /\ j = [x \in DOMAIN j |-> j[x]]
        /\ j.out \in St /\ j.read \in Vers /\ j.before \in Trees
        /\ Below(j.prep, j.read) /\ Below(j.read, v)
        /\ j.out.bal # j.root => \E a \in Accounts : j.read[a] # j.seen[a]
\* The block being applied: with a root that came out different only where a wallet was
\* written since the preview.
JobTyped(j, v) ==
    /\ j.step \in Steps /\ (j.step = "idle" => j = Idle)
    /\ Previewed(j, v) /\ Prepared(j, v) /\ Computed(j, v)
\* The recorded blocks.
ChainTyped(ch, v) == ch \in Seq(Entries) /\ \A i \in 1..Len(ch) : EntryTyped(ch[i], v)
\* Before the ledger is read no transaction of the block is settled, and the previewed
\* root is the one it would have now, unless a wallet was written.
Fresh(j, b, m, v) ==
    j.step \in {"previewed", "prepared"} =>
        /\ Range(j.body) \cap m.applied = {}
        /\ (\A a \in Accounts : v[a] = j.seen[a]) => IsRoot(b, m.airdrops, j.body, j.root)
\* Types, and what holds of a block whatever races: the first half of the invariant.
SetTypes ==
    /\ LedgerTypes /\ raced \in BOOLEAN /\ ChainTyped(chain, version) /\ JobTyped(job, version)
    /\ Fresh(job, balances, meta, version)
    /\ job.step = "unwinding" => chain # <<>>

\* An undo record holds wallets only.
LEMMA RowsShape == ASSUME NEW body \in Bodies PROVE UndoRows(body) \subseteq Accounts
<1>1. Range(body) \subseteq Txs
  BY SettlementAssumption DEF Range
<1>2. ASSUME NEW tx \in Txs PROVE UndoRowsOfTx(tx) \subseteq Accounts
  <2>1. CASE tx.kind = "transfer"
    BY <2>1, TxShape, SeConst DEF UndoRowsOfTx
  <2>2. CASE tx.kind = "file_fee"
    BY <2>2, TxShape, SeConst DEF UndoRowsOfTx
  <2>3. CASE tx.kind = "airdrop"
    BY <2>3, TxShape, SeConst DEF UndoRowsOfTx
  <2>4. CASE tx.kind \in {"register", "proof", "inference"}
    BY <2>4 DEF UndoRowsOfTx
  <2> QED BY <2>1, <2>2, <2>3, <2>4, TxShape
<1>3. {Pool, Producer} \subseteq Accounts
  BY SeConst
<1> QED BY <1>1, <1>2, <1>3 DEF UndoRows

\* Below is transitive.
LEMMA BelowTrans ==
    ASSUME NEW u \in Vers, NEW v \in Vers, NEW w \in Vers, Below(u, v), Below(v, w)
    PROVE  Below(u, w)
<1>1. \A r \in Rows : u[r] \in Nat /\ v[r] \in Nat /\ w[r] \in Nat
  BY DEF Vers
<1> QED BY <1>1 DEF Below

\* Below is reflexive.
LEMMA BelowSelf == ASSUME NEW v \in Vers PROVE Below(v, v)
<1>1. \A r \in Rows : v[r] \in Nat
  BY DEF Vers
<1> QED BY <1>1 DEF Below

\* A row that has the version it had, had it in between.
LEMMA BetweenSame ==
    ASSUME NEW u \in Vers, NEW v \in Vers, NEW w \in Vers, Below(u, v), Below(v, w), NEW r \in Rows, w[r] = u[r]
    PROVE  v[r] = u[r] /\ w[r] = v[r]
<1>1. u[r] \in Nat /\ v[r] \in Nat /\ w[r] \in Nat
  BY DEF Vers
<1> QED BY <1>1 DEF Below

\* A block being applied keeps its types while versions grow,
LEMMA JobTypedOn ==
    ASSUME NEW j, NEW v \in Vers, NEW w \in Vers, Below(v, w), JobTyped(j, v)
    PROVE  JobTyped(j, w)
<1>1. Previewed(j, w)
  BY BelowTrans DEF JobTyped, Previewed
<1>2. Prepared(j, w)
  BY BelowTrans DEF JobTyped, Prepared
<1>3. Computed(j, w)
  BY BelowTrans DEF JobTyped, Computed
<1> QED BY <1>1, <1>2, <1>3 DEF JobTyped

\* the recorded ones too,
LEMMA ChainTypedOn ==
    ASSUME NEW ch, NEW v \in Vers, NEW w \in Vers, Below(v, w), ChainTyped(ch, v)
    PROVE  ChainTyped(ch, w)
<1>1. ASSUME NEW i \in 1..Len(ch) PROVE EntryTyped(ch[i], w)
  <2>1. EntryTyped(ch[i], v)
    BY DEF ChainTyped
  <2>2. ch[i].prep \in Vers /\ Below(ch[i].prep, v)
    BY <2>1 DEF EntryTyped, Entries
  <2>3. Below(ch[i].prep, w)
    BY <2>2, BelowTrans
  <2> QED BY <2>1, <2>3 DEF EntryTyped
<1> QED BY <1>1 DEF ChainTyped

\* and a preview is fresh as long as no wallet is written.
LEMMA FreshOn ==
    ASSUME NEW j, NEW v \in Vers, NEW w \in Vers, NEW b \in Bal, NEW c \in Bal, NEW m, NEW n,
           JobTyped(j, v), Grown(v, w, b, c, m, n), Fresh(j, b, m, v)
    PROVE  Fresh(j, c, n, w)
<1>1. SUFFICES ASSUME j.step \in {"previewed", "prepared"}
               PROVE  /\ Range(j.body) \cap n.applied = {}
                      /\ (\A a \in Accounts : w[a] = j.seen[a]) => IsRoot(c, n.airdrops, j.body, j.root)
  BY DEF Fresh
<1>2. n.applied = m.applied /\ n.airdrops = m.airdrops /\ Below(v, w)
  BY DEF Grown, SameBlock, SameMarks, Below
<1>3. Range(j.body) \cap m.applied = {}
  BY <1>1 DEF Fresh
<1>4. j.seen \in Vers /\ Below(j.seen, v)
  BY <1>1 DEF JobTyped, Previewed
<1>5. ASSUME \A a \in Accounts : w[a] = j.seen[a] PROVE IsRoot(c, n.airdrops, j.body, j.root)
  <2>1. ASSUME NEW a \in Accounts PROVE v[a] = j.seen[a] /\ c[a] = b[a]
    <3>1. a \in Rows /\ w[a] = j.seen[a]
      BY <1>5, RowIs
    <3>2. v[a] = j.seen[a] /\ w[a] = v[a]
      BY <1>2, <1>4, <3>1, BetweenSame
    <3> QED BY <3>2 DEF Grown
  <2>2. c = b
    BY <2>1 DEF Bal
  <2>3. IsRoot(b, m.airdrops, j.body, j.root)
    BY <1>1, <2>1 DEF Fresh
  <2> QED BY <1>2, <2>2, <2>3
<1> QED BY <1>2, <1>3, <1>5

\* REST operations keep the types.
LEMMA RestTypes ==
    ASSUME SetTypes, RestStep
    PROVE  SetTypes'
<1>1. /\ chain' = chain /\ job' = job /\ raced' = raced /\ LedgerTypes'
      /\ Grown(version, version', balances, balances', meta, meta')
  BY DEF RestStep
<1>2. PICK v, w, b, c, m, n, j, ch : v = version /\ w = version' /\ b = balances /\ c = balances' /\ m = meta /\ n = meta'
                                      /\ j = job /\ ch = chain
  OBVIOUS
<1>3. v \in Vers /\ b \in Bal /\ JobTyped(j, v) /\ ChainTyped(ch, v) /\ Fresh(j, b, m, v)
  BY <1>2 DEF SetTypes, LedgerTypes
<1>4. w \in Vers /\ c \in Bal
  BY <1>1, <1>2 DEF LedgerTypes
<1>5. Grown(v, w, b, c, m, n)
  BY <1>1, <1>2
<1>6. Below(v, w)
  BY <1>5 DEF Grown, Below
<1>7. JobTyped(j, w)
  BY <1>3, <1>4, <1>6, JobTypedOn
<1>8. ChainTyped(ch, w)
  BY <1>3, <1>4, <1>6, ChainTypedOn
<1>9. Fresh(j, c, n, w)
  BY <1>3, <1>4, <1>5, FreshOn
<1>10. ChainTyped(chain, version)' /\ JobTyped(job, version)' /\ Fresh(job, balances, meta, version)'
  BY <1>1, <1>2, <1>7, <1>8, <1>9
<1> QED BY <1>1, <1>10 DEF SetTypes

\* The ledger after genesis has them.
LEMMA TypesStart == Init => SetTypes
<1> SUFFICES ASSUME Init PROVE SetTypes
  OBVIOUS
<1>1. balances \in Bal
  BY SeNats DEF Init
<1>2. meta \in Goods
  <2>1. meta \in Metas
    BY GenesisNat DEF Init, Metas
  <2>2. Burnt(meta)
    <3>1. meta.supply = GenesisSupply /\ meta.burned = 0
      BY DEF Init
    <3> QED BY <3>1, GenesisNat DEF Burnt, Monus
  <2> QED BY <2>1, <2>2 DEF Goods
<1>3. Zero \in Purse
  BY DEF Zero, Purse
<1>4. LedgerTypes
  BY <1>1, <1>2, <1>3 DEF Init, LedgerTypes, Vers
<1>5. chain = <<>> /\ job = Idle /\ raced = FALSE
  BY DEF Init
<1>6. job.step = "idle"
  BY <1>5 DEF Idle
<1>7. JobTyped(job, version)
  BY <1>5, <1>6 DEF JobTyped, Steps, Previewed, Prepared, Computed
<1>8. ChainTyped(chain, version)
  BY <1>5 DEF ChainTyped
<1>9. Fresh(job, balances, meta, version)
  BY <1>6 DEF Fresh
<1> QED BY <1>4, <1>5, <1>6, <1>7, <1>8, <1>9 DEF SetTypes

\* New trees of the right types.
LEMMA LedgerOn ==
    ASSUME LedgerTypes, balances' \in Bal, meta' \in Goods, UNCHANGED <<outside, request, version>>
    PROVE  LedgerTypes'
<1>1. stake' = stake /\ bond' = bond /\ court' = court /\ vest' = vest /\ nonces' = nonces /\ guardians' = guardians
      /\ request' = request /\ version' = version
  BY DEF outside
<1> QED BY <1>1 DEF LedgerTypes

\* A step that changes only the job.
LEMMA QuietTypes ==
    ASSUME SetTypes, UNCHANGED <<trees, outside, request, chain, version, raced>>,
           JobTyped(job', version), Fresh(job', balances, meta, version), job'.step # "unwinding"
    PROVE  SetTypes'
<1>1. balances' = balances /\ meta' = meta /\ chain' = chain /\ version' = version /\ raced' = raced
  BY DEF trees
<1>2. UNCHANGED <<outside, request, version>> /\ LedgerTypes /\ balances' \in Bal /\ meta' \in Goods
  BY <1>1 DEF SetTypes, LedgerTypes
<1>3. LedgerTypes'
  BY <1>2, LedgerOn
<1>4. JobTyped(job, version)' /\ Fresh(job, balances, meta, version)'
  BY <1>1
<1>5. ChainTyped(chain, version)' /\ raced' \in BOOLEAN
  BY <1>1 DEF SetTypes
<1> QED BY <1>3, <1>4, <1>5 DEF SetTypes

\* The preview.
LEMMA TypesStartBlock ==
    ASSUME SetTypes, NEW body \in Bodies, NEW mined \in BOOLEAN, StartBlock(body, mined)
    PROVE  SetTypes'
<1>1. PICK root : root = Preview(body).bal
  OBVIOUS
<1>2. /\ job' = [step |-> "previewed", body |-> body, mined |-> mined, root |-> root, seen |-> version]
      /\ Range(body) \cap meta.applied = {} /\ Preview(body).ok
      /\ UNCHANGED <<trees, outside, request, chain, version, raced>>
  BY <1>1 DEF StartBlock
<1>3. balances \in Bal /\ meta \in Goods /\ vest \in [Users -> Nat] /\ version \in Vers
  BY DEF SetTypes, LedgerTypes, Purse
<1>4. root \in Bal /\ IsRoot(balances, meta.airdrops, body, root)
  BY <1>1, <1>2, <1>3, PreviewIs
<1>5. PICK j : j = job'
  OBVIOUS
<1>6. j.step = "previewed" /\ j.body = body /\ j.root = root /\ j.seen = version
  BY <1>2, <1>5
<1>7. JobTyped(j, version)
  <2>1. Previewed(j, version)
    BY <1>3, <1>4, <1>6, BelowSelf DEF Previewed
  <2> QED BY <2>1, <1>6 DEF JobTyped, Prepared, Computed, Steps
<1>8. Fresh(j, balances, meta, version)
  BY <1>2, <1>4, <1>6 DEF Fresh
<1> QED BY <1>2, <1>5, <1>6, <1>7, <1>8, QuietTypes

\* An undo record is what the trees hold when it is read.
LEMMA UndoIs ==
    ASSUME balances \in Bal, meta \in Goods, NEW body \in Bodies, NEW u, u = UndoRecord(body)
    PROVE  u \in Undos /\ u.balances \in [UndoRows(body) -> Nat] /\ u.meta = meta
           /\ \A a \in UndoRows(body) : u.balances[a] = balances[a]
<1>1. UndoRows(body) \subseteq Accounts
  BY RowsShape
<1>2. u = [balances |-> [a \in UndoRows(body) |-> balances[a]], meta |-> meta]
  BY DEF UndoRecord
<1>3. u.balances \in [UndoRows(body) -> Nat] /\ u.meta = meta /\ \A a \in UndoRows(body) : u.balances[a] = balances[a]
  BY <1>1, <1>2 DEF Bal
<1>4. u.balances \in PartBals
  BY <1>1, <1>3 DEF PartBals
<1> QED BY <1>2, <1>3, <1>4 DEF Undos

\* Reading it.
LEMMA TypesPrepareUndo ==
    ASSUME SetTypes, PrepareUndo
    PROVE  SetTypes'
<1>1. PICK j, u : j = job' /\ u = UndoRecord(job.body)
  OBVIOUS
<1>2. /\ job.step = "previewed"
      /\ j = [step |-> "prepared", body |-> job.body, mined |-> job.mined, root |-> job.root, seen |-> job.seen,
              undo |-> u, prep |-> version]
      /\ UNCHANGED <<trees, outside, request, chain, version, raced>>
  BY <1>1 DEF PrepareUndo
<1>3. balances \in Bal /\ meta \in Goods /\ version \in Vers
  BY DEF SetTypes, LedgerTypes
<1>4. job.body \in Bodies /\ job.root \in Bal /\ job.seen \in Vers /\ Below(job.seen, version)
  BY <1>2 DEF SetTypes, JobTyped, Previewed
<1>5. u \in Undos /\ u.balances \in [UndoRows(job.body) -> Nat]
  BY <1>1, <1>3, <1>4, UndoIs
<1>6. j.step = "prepared" /\ j.body = job.body /\ j.root = job.root /\ j.seen = job.seen /\ j.undo = u /\ j.prep = version
  BY <1>2
<1>7. JobTyped(j, version)
  <2>1. Previewed(j, version)
    BY <1>4, <1>6 DEF Previewed
  <2>2. Prepared(j, version)
    BY <1>3, <1>5, <1>6, BelowSelf DEF Prepared
  <2> QED BY <2>1, <2>2, <1>6 DEF JobTyped, Computed, Steps
<1>8. Fresh(j, balances, meta, version)
  <2>1. Fresh(job, balances, meta, version)
    BY DEF SetTypes
  <2> QED BY <2>1, <1>2, <1>6 DEF Fresh
<1> QED BY <1>1, <1>2, <1>6, <1>7, <1>8, QuietTypes

\* Reading the ledger: a root that differs from the preview's tells of a written wallet.
LEMMA TypesReadLedger ==
    ASSUME SetTypes, ReadLedger
    PROVE  SetTypes'
<1>1. PICK j, t : j = job' /\ t = Compute(job.body)
  OBVIOUS
<1>2. /\ job.step = "prepared" /\ t.ok
      /\ j = [step |-> "computed", body |-> job.body, mined |-> job.mined, root |-> job.root, seen |-> job.seen,
              undo |-> job.undo, prep |-> job.prep, out |-> t, read |-> version,
              before |-> [balances |-> balances, meta |-> meta]]
      /\ UNCHANGED <<trees, outside, request, chain, version, raced>>
  BY <1>1 DEF ReadLedger
<1>3. balances \in Bal /\ meta \in Goods /\ version \in Vers /\ vest \in [Users -> Nat] /\ Len(chain) \in Nat
  BY DEF SetTypes, LedgerTypes, Purse, ChainTyped
<1>4. job.body \in Bodies /\ job.root \in Bal /\ job.seen \in Vers /\ Below(job.seen, version)
  BY <1>2 DEF SetTypes, JobTyped, Previewed
<1>5. job.undo \in Undos /\ job.undo.balances \in [UndoRows(job.body) -> Nat] /\ job.prep \in Vers /\ Below(job.prep, version)
  BY <1>2 DEF SetTypes, JobTyped, Prepared
<1>6. Range(job.body) \cap meta.applied = {}
      /\ ((\A a \in Accounts : version[a] = job.seen[a]) => IsRoot(balances, meta.airdrops, job.body, job.root))
  BY <1>2 DEF SetTypes, Fresh
<1>7. t \in St /\ IsRoot(balances, meta.airdrops, job.body, t.bal)
  BY <1>1, <1>2, <1>3, <1>4, <1>6, ComputeIs
<1>8. j.step = "computed" /\ j.body = job.body /\ j.root = job.root /\ j.seen = job.seen /\ j.undo = job.undo /\ j.prep = job.prep
      /\ j.out = t /\ j.read = version /\ j.before = [balances |-> balances, meta |-> meta]
  BY <1>2
<1>9. DOMAIN j = JobFields /\ j = [x \in DOMAIN j |-> j[x]]
  BY <1>2 DEF JobFields
<1>10. t.bal # job.root => \E a \in Accounts : version[a] # job.seen[a]
  BY <1>4, <1>6, <1>7, RootUnique
<1>11. JobTyped(j, version)
  <2>1. Previewed(j, version)
    BY <1>4, <1>8 DEF Previewed
  <2>2. Prepared(j, version)
    BY <1>5, <1>8 DEF Prepared
  <2>3. j.before \in Trees
    BY <1>3, <1>8 DEF Trees
  <2>4. Below(version, version)
    BY <1>3, BelowSelf
  <2>5. Computed(j, version)
    BY <1>3, <1>5, <1>7, <1>8, <1>9, <1>10, <2>3, <2>4 DEF Computed
  <2> QED BY <2>1, <2>2, <2>5, <1>8 DEF JobTyped, Steps
<1>12. Fresh(j, balances, meta, version)
  BY <1>8 DEF Fresh
<1> QED BY <1>1, <1>2, <1>8, <1>11, <1>12, QuietTypes

\* No block is being applied.
LEMMA IdleTyped ==
    ASSUME NEW j, j = Idle, NEW v, NEW b, NEW m
    PROVE  j.step = "idle" /\ JobTyped(j, v) /\ Fresh(j, b, m, v)
<1>1. j.step = "idle"
  BY DEF Idle
<1> QED BY <1>1 DEF JobTyped, Steps, Previewed, Prepared, Computed, Fresh

\* A refused apply.
LEMMA TypesApplyRefused ==
    ASSUME SetTypes, ApplyRefused
    PROVE  SetTypes'
<1>1. job' = Idle /\ UNCHANGED <<trees, outside, request, chain, version, raced>>
  BY DEF ApplyRefused
<1>2. job'.step = "idle" /\ JobTyped(job', version) /\ Fresh(job', balances, meta, version)
  BY <1>1, IdleTyped
<1> QED BY <1>1, <1>2, QuietTypes

\* The block as it will be recorded.
JobEntry(j) == [body |-> j.body, undo |-> j.undo, prep |-> j.prep, before |-> j.before,
                after |-> [balances |-> j.out.bal, meta |-> j.out.meta]]

\* Writing the balances changes nothing else of the job.
LEMMA JobWritten ==
    ASSUME NEW j, NEW v, JobTyped(j, v), j.step = "computed", NEW k, k = [j EXCEPT !.step = "written"]
    PROVE  /\ k.step = "written" /\ k.body = j.body /\ k.mined = j.mined /\ k.root = j.root /\ k.seen = j.seen
           /\ k.undo = j.undo /\ k.prep = j.prep /\ k.out = j.out /\ k.read = j.read /\ k.before = j.before
           /\ JobTyped(k, v) /\ JobEntry(k) = JobEntry(j)
<1>1. DOMAIN j = JobFields /\ j = [x \in DOMAIN j |-> j[x]]
  BY DEF JobTyped, Computed
<1>2. DOMAIN k = JobFields /\ k = [x \in DOMAIN k |-> k[x]]
  BY <1>1
<1>3. k.step = "written" /\ k.body = j.body /\ k.mined = j.mined /\ k.root = j.root /\ k.seen = j.seen
      /\ k.undo = j.undo /\ k.prep = j.prep /\ k.out = j.out /\ k.read = j.read /\ k.before = j.before
  BY <1>1 DEF JobFields
<1>4. Previewed(k, v)
  BY <1>3 DEF JobTyped, Previewed
<1>5. Prepared(k, v)
  BY <1>3 DEF JobTyped, Prepared
<1>6. Computed(k, v)
  BY <1>2, <1>3 DEF JobTyped, Computed
<1>7. JobTyped(k, v)
  BY <1>3, <1>4, <1>5, <1>6 DEF JobTyped, Steps
<1>8. JobEntry(k) = JobEntry(j)
  BY <1>3 DEF JobEntry
<1> QED BY <1>3, <1>7, <1>8

\* The balances batch writes the dirty rows.
LEMMA WriteIs ==
    ASSUME SetTypes, WriteBalances
    PROVE  /\ job.step = "computed" /\ job.out \in St
           /\ balances' \in Bal /\ \A a \in Accounts : balances'[a] = IF a \in job.out.dirty THEN job.out.bal[a] ELSE balances[a]
<1>1. job.step = "computed"
      /\ balances' = [a \in Accounts |-> IF a \in job.out.dirty THEN job.out.bal[a] ELSE balances[a]]
  BY DEF WriteBalances
<1>2. job.out \in St
  BY <1>1 DEF SetTypes, JobTyped, Computed
<1>3. PICK o : o = job.out
  OBVIOUS
<1>4. o.bal \in Bal /\ balances \in Bal
  BY <1>2, <1>3 DEF St, SetTypes, LedgerTypes
<1>5. balances' \in Bal
  BY <1>1, <1>3, <1>4 DEF Bal
<1> QED BY <1>1, <1>2, <1>5

\* It keeps the types.
LEMMA TypesWriteBalances ==
    ASSUME SetTypes, WriteBalances
    PROVE  SetTypes'
<1>1. job.step = "computed" /\ balances' \in Bal
  BY WriteIs
<1>2. job' = [job EXCEPT !.step = "written"] /\ UNCHANGED <<meta, outside, request, chain, version>>
      /\ raced' = (raced \/ Changed(job.out.dirty, job.read))
  BY DEF WriteBalances
<1>3. PICK k : k = job'
  OBVIOUS
<1>4. k.step = "written" /\ JobTyped(k, version)
  BY <1>1, <1>2, <1>3, JobWritten DEF SetTypes
<1>5. meta' \in Goods /\ LedgerTypes
  BY <1>2 DEF SetTypes, LedgerTypes
<1>6. LedgerTypes'
  BY <1>1, <1>2, <1>5, LedgerOn
<1>7. ChainTyped(chain, version)' /\ JobTyped(job, version)'
  BY <1>2, <1>3, <1>4 DEF SetTypes
<1>8. raced' \in BOOLEAN
  BY <1>2
<1>9. Fresh(k, balances', meta', version')
  BY <1>4 DEF Fresh
<1>10. Fresh(job, balances, meta, version)'
  BY <1>3, <1>9
<1> QED BY <1>3, <1>4, <1>6, <1>7, <1>8, <1>10 DEF SetTypes

\* The block to be recorded has its types.
LEMMA JobEntryTyped ==
    ASSUME NEW j, NEW v, JobTyped(j, v), j.step \in {"computed", "written"}
    PROVE  JobEntry(j) \in Entries /\ EntryTyped(JobEntry(j), v)
<1>1. j.body \in Bodies /\ j.undo \in Undos /\ j.undo.balances \in [UndoRows(j.body) -> Nat] /\ j.prep \in Vers /\ Below(j.prep, v)
      /\ j.out \in St /\ j.before \in Trees
  BY DEF JobTyped, Previewed, Prepared, Computed
<1>2. [balances |-> j.out.bal, meta |-> j.out.meta] \in Trees
  BY <1>1 DEF St, Trees
<1>3. JobEntry(j) \in Entries
  BY <1>1, <1>2 DEF JobEntry, Entries
<1>4. JobEntry(j).body = j.body /\ JobEntry(j).undo = j.undo /\ JobEntry(j).prep = j.prep
  BY DEF JobEntry
<1> QED BY <1>1, <1>3, <1>4 DEF EntryTyped

\* The chain c is ch and e on top of it.
Longer(c, ch, e, v) ==
    /\ ChainTyped(c, v) /\ Len(c) = Len(ch) + 1 /\ Last(c) = e /\ c # <<>>
    /\ \A i \in 1..Len(ch) : c[i] = ch[i]
    /\ c[Len(ch) + 1] = e

\* Recording a block.
LEMMA ChainAppend ==
    ASSUME NEW ch, NEW v, ChainTyped(ch, v), NEW e \in Entries, EntryTyped(e, v), NEW c, c = Append(ch, e)
    PROVE  Longer(c, ch, e, v)
<1>1. ch \in Seq(Entries) /\ Len(ch) \in Nat
  BY DEF ChainTyped
<1>2. c \in Seq(Entries) /\ Len(c) = Len(ch) + 1 /\ (\A i \in 1..Len(ch) : c[i] = ch[i]) /\ c[Len(ch) + 1] = e
  BY <1>1
<1>3. \A i \in 1..Len(c) : EntryTyped(c[i], v)
  <2>1. ASSUME NEW i \in 1..Len(c) PROVE EntryTyped(c[i], v)
    <3>1. i \in 1..Len(ch) \/ i = Len(ch) + 1
      BY <1>1, <1>2
    <3> QED BY <3>1, <1>2 DEF ChainTyped
  <2> QED BY <2>1
<1>4. Last(c) = e /\ c # <<>>
  BY <1>1, <1>2 DEF Last
<1> QED BY <1>2, <1>3, <1>4 DEF ChainTyped, Longer

\* The chain without its last block.
LEMMA ChainFront ==
    ASSUME NEW ch, NEW v, ChainTyped(ch, v), ch # <<>>, NEW c, c = Front(ch)
    PROVE  /\ ChainTyped(c, v) /\ Len(ch) \in Nat /\ Len(ch) >= 1 /\ Len(c) = Len(ch) - 1
           /\ Last(ch) = ch[Len(ch)] /\ Last(ch) \in Entries /\ EntryTyped(Last(ch), v)
           /\ \A i \in 1..Len(c) : c[i] = ch[i]
<1>1. ch \in Seq(Entries) /\ Len(ch) \in Nat /\ Len(ch) >= 1
  BY DEF ChainTyped
<1>2. Last(ch) = ch[Len(ch)]
  BY DEF Last
<1>3. Last(ch) \in Entries /\ EntryTyped(Last(ch), v)
  BY <1>1, <1>2 DEF ChainTyped
<1>4. c \in Seq(Entries) /\ Len(c) = Len(ch) - 1 /\ (\A i \in 1..Len(c) : c[i] = ch[i])
  <2>1. c = SubSeq(ch, 1, Len(ch) - 1)
    BY DEF Front
  <2>2. PICK n : n = Len(ch) - 1
    OBVIOUS
  <2>3. n \in Nat /\ \A i \in 1..n : ch[i] \in Entries
    BY <1>1, <2>2
  <2>4. c = [i \in 1..n |-> ch[i]]
    <3>1. c = SubSeq(ch, 1, n)
      BY <2>1, <2>2
    <3>2. 1 - 1 = 0 /\ n - 1 + 1 = n /\ \A i \in 1..n : i + 1 - 1 = i
      BY <2>3
    <3> QED BY <3>1, <3>2, <2>3
  <2>5. c \in Seq(Entries) /\ Len(c) = n
    BY <2>3, <2>4
  <2> QED BY <2>2, <2>4, <2>5
<1>5. \A i \in 1..Len(c) : EntryTyped(c[i], v)
  BY <1>1, <1>4 DEF ChainTyped
<1> QED BY <1>1, <1>2, <1>3, <1>4, <1>5 DEF ChainTyped

\* The meta batch keeps the types.
LEMMA TypesWriteMeta ==
    ASSUME SetTypes, WriteMeta
    PROVE  SetTypes'
<1>1. job.step = "written" /\ job' = Idle /\ UNCHANGED <<balances, outside, request, version>> /\ meta' = job.out.meta
      /\ raced' = (raced \/ Changed({Counters}, job.read) \/ ~(job.mined \/ job.out.bal = job.root))
      /\ (chain' = chain \/ chain' = Append(chain, JobEntry(job)))
  BY DEF WriteMeta, JobEntry
<1>2. JobEntry(job) \in Entries /\ EntryTyped(JobEntry(job), version) /\ ChainTyped(chain, version)
  BY <1>1, JobEntryTyped DEF SetTypes
<1>3. ChainTyped(chain', version)
  BY <1>1, <1>2, ChainAppend DEF Longer
<1>4. job.out \in St
  BY <1>1 DEF SetTypes, JobTyped, Computed
<1>5. meta' \in Goods /\ balances' \in Bal /\ LedgerTypes
  BY <1>1, <1>4 DEF SetTypes, LedgerTypes, St
<1>6. LedgerTypes'
  BY <1>1, <1>5, LedgerOn
<1>7. PICK b, m, j, v : b = balances' /\ m = meta' /\ j = job' /\ v = version'
  OBVIOUS
<1>8. j.step = "idle" /\ JobTyped(j, v) /\ Fresh(j, b, m, v)
  BY <1>1, <1>7, IdleTyped
<1>9. JobTyped(job, version)' /\ Fresh(job, balances, meta, version)' /\ job'.step = "idle"
  BY <1>7, <1>8
<1>10. raced' \in BOOLEAN
  BY <1>1
<1>11. ChainTyped(chain, version)'
  BY <1>1, <1>3
<1> QED BY <1>6, <1>9, <1>10, <1>11 DEF SetTypes

\* What apply_block_undo writes back of the meta rows: n from m and the saved old.
Undone(body, m, old, n) ==
    /\ n \in Goods /\ n.height = old.height
    /\ UndoCounters(body) => SameCounts(old, n)
    /\ ~UndoCounters(body) => SameCounts(m, n)
    /\ n.airdrops = IF Range(body) \cap Airdrops # {} THEN old.airdrops ELSE m.airdrops
    /\ n.applied = RestoreSet(m.applied, old.applied, Range(body))
    /\ n.tasks = RestoreSet(m.tasks, old.tasks, UndoTasks(body))
    /\ n.done = RestoreSet(m.done, old.done, UndoTasks(body))
    /\ n.registered = RestoreSet(m.registered, old.registered, WorkersOf(Range(body)))

\* RestoreMeta does that.
LEMMA UndoneIs ==
    ASSUME meta \in Goods, NEW body \in Bodies, NEW old \in Goods, NEW n, n = RestoreMeta(body, old)
    PROVE  Undone(body, meta, old, n)
<1>1. {tx.wallet : tx \in {t \in Range(body) : t.kind = "register"}} = WorkersOf(Range(body))
  BY DEF WorkersOf, WorkerOf
<1>2. PICK m, T, U, W : m = meta /\ T = Range(body) /\ U = UndoTasks(body) /\ W = WorkersOf(Range(body))
  OBVIOUS
<1>3. m \in Metas /\ old \in Metas /\ Burnt(m) /\ Burnt(old)
  BY <1>2 DEF Goods
<1>4. n = [m EXCEPT
           !.height = old.height,
           !.supply = IF UndoCounters(body) THEN old.supply ELSE @,
           !.burned = IF UndoCounters(body) THEN old.burned ELSE @,
           !.fees = IF UndoCounters(body) THEN old.fees ELSE @,
           !.airdrops = IF T \cap Airdrops # {} THEN old.airdrops ELSE @,
           !.applied = RestoreSet(@, old.applied, T),
           !.tasks = RestoreSet(@, old.tasks, U),
           !.done = RestoreSet(@, old.done, U),
           !.registered = RestoreSet(@, old.registered, W)]
  BY <1>1, <1>2 DEF RestoreMeta
<1>5. RestoreSet(m.applied, old.applied, T) \subseteq Txs /\ RestoreSet(m.tasks, old.tasks, U) \subseteq Tasks
      /\ RestoreSet(m.done, old.done, U) \subseteq Tasks /\ RestoreSet(m.registered, old.registered, W) \subseteq Users
  BY <1>3, MetaShape DEF RestoreSet
<1>60. PICK su, bu, fe, ai, ap, ta, do, re :
          /\ su = (IF UndoCounters(body) THEN old.supply ELSE m.supply)
          /\ bu = (IF UndoCounters(body) THEN old.burned ELSE m.burned)
          /\ fe = (IF UndoCounters(body) THEN old.fees ELSE m.fees)
          /\ ai = (IF T \cap Airdrops # {} THEN old.airdrops ELSE m.airdrops)
          /\ ap = RestoreSet(m.applied, old.applied, T) /\ ta = RestoreSet(m.tasks, old.tasks, U)
          /\ do = RestoreSet(m.done, old.done, U) /\ re = RestoreSet(m.registered, old.registered, W)
  OBVIOUS
<1>61. n = [m EXCEPT !.height = old.height, !.supply = su, !.burned = bu, !.fees = fe, !.airdrops = ai,
                     !.applied = ap, !.tasks = ta, !.done = do, !.registered = re]
  BY <1>4, <1>60
<1>62. su \in Nat /\ bu \in Nat /\ fe \in Nat /\ ai \in Nat /\ ap \subseteq Txs /\ ta \subseteq Tasks
       /\ do \subseteq Tasks /\ re \subseteq Users /\ old.height \in Nat
  BY <1>3, <1>5, <1>60, MetaShape
<1>63. /\ n \in Metas /\ n.height = old.height /\ n.supply = su /\ n.burned = bu /\ n.fees = fe /\ n.airdrops = ai
       /\ n.applied = ap /\ n.tasks = ta /\ n.done = do /\ n.registered = re
  BY <1>3, <1>61, <1>62 DEF Metas
<1>6. /\ n \in Metas /\ n.height = old.height
      /\ n.supply = (IF UndoCounters(body) THEN old.supply ELSE m.supply)
      /\ n.burned = (IF UndoCounters(body) THEN old.burned ELSE m.burned)
      /\ n.fees = (IF UndoCounters(body) THEN old.fees ELSE m.fees)
      /\ n.airdrops = (IF T \cap Airdrops # {} THEN old.airdrops ELSE m.airdrops)
      /\ n.applied = RestoreSet(m.applied, old.applied, T)
      /\ n.tasks = RestoreSet(m.tasks, old.tasks, U)
      /\ n.done = RestoreSet(m.done, old.done, U)
      /\ n.registered = RestoreSet(m.registered, old.registered, W)
  BY <1>60, <1>63
<1>7. n \in Goods
  BY <1>3, <1>6 DEF Goods, Burnt
<1> QED BY <1>2, <1>6, <1>7 DEF Undone, SameCounts

\* The fields of a recorded block.
LEMMA EntryIs ==
    ASSUME NEW e \in Entries, NEW v, EntryTyped(e, v)
    PROVE  /\ e.body \in Bodies /\ e.undo \in Undos /\ e.undo.meta \in Goods /\ DOMAIN e.undo.balances = UndoRows(e.body)
           /\ UndoRows(e.body) \subseteq Accounts /\ \A a \in UndoRows(e.body) : e.undo.balances[a] \in Nat
           /\ e.prep \in Vers /\ Below(e.prep, v) /\ e.before.balances \in Bal /\ e.before.meta \in Goods
           /\ e.after.balances \in Bal /\ e.after.meta \in Goods
<1>1. e.body \in Bodies /\ e.undo \in Undos /\ e.prep \in Vers /\ e.before \in Trees /\ e.after \in Trees
  BY DEF Entries
<1>2. e.undo.balances \in [UndoRows(e.body) -> Nat] /\ Below(e.prep, v)
  BY DEF EntryTyped
<1>3. e.undo.meta \in Goods
  BY <1>1 DEF Undos
<1>4. e.before.balances \in Bal /\ e.before.meta \in Goods /\ e.after.balances \in Bal /\ e.after.meta \in Goods
  BY <1>1 DEF Trees
<1> QED BY <1>1, <1>2, <1>3, <1>4, RowsShape

\* The meta rows of an unwind keep the types.
LEMMA TypesUndoMeta ==
    ASSUME SetTypes, UndoMeta
    PROVE  SetTypes'
<1>1. PICK e, n : e = Last(chain) /\ n = RestoreMeta(e.body, e.undo.meta)
  <2>1. PICK e : e = Last(chain)
    OBVIOUS
  <2> QED BY <2>1
<1>2. job' = [step |-> "unwinding"] /\ chain # <<>> /\ meta' = n /\ UNCHANGED <<balances, outside, request, chain, version>>
      /\ raced' = (raced \/ (UndoCounters(e.body) /\ Changed({Counters}, e.prep)))
  BY <1>1 DEF UndoMeta
<1>3. PICK ch, v : ch = chain /\ v = version
  OBVIOUS
<1>4. ChainTyped(ch, v) /\ ch # <<>> /\ e = Last(ch)
  BY <1>1, <1>2, <1>3 DEF SetTypes
<1>5. e \in Entries /\ EntryTyped(e, v)
  BY <1>4, ChainFront
<1>6. e.body \in Bodies /\ e.undo.meta \in Goods
  BY <1>5, EntryIs
<1>7. meta \in Goods /\ LedgerTypes /\ balances' \in Bal
  BY <1>2 DEF SetTypes, LedgerTypes
<1>8. meta' \in Goods
  BY <1>1, <1>2, <1>6, <1>7, UndoneIs DEF Undone
<1>9. LedgerTypes'
  BY <1>2, <1>7, <1>8, LedgerOn
<1>10. PICK b, m, j : b = balances' /\ m = meta' /\ j = job'
  OBVIOUS
<1>11. j.step = "unwinding"
  BY <1>2, <1>10
<1>12. JobTyped(j, v) /\ Fresh(j, b, m, v)
  BY <1>11 DEF JobTyped, Steps, Previewed, Prepared, Computed, Fresh
<1>13. JobTyped(job, version)' /\ Fresh(job, balances, meta, version)' /\ ChainTyped(chain, version)'
  BY <1>2, <1>3, <1>4, <1>10, <1>12
<1>14. raced' \in BOOLEAN /\ chain' # <<>>
  BY <1>2 DEF SetTypes
<1> QED BY <1>9, <1>13, <1>14 DEF SetTypes

\* What it writes back of the balances: c from b.
Rewound(e, b, c) ==
    c \in Bal /\ \A a \in Accounts : c[a] = IF a \in UndoRows(e.body) THEN e.undo.balances[a] ELSE b[a]

\* Restored does that.
LEMMA RestoredIs ==
    ASSUME NEW e \in Entries, NEW v, EntryTyped(e, v), balances \in Bal
    PROVE  Rewound(e, balances, Restored(e))
<1>1. DOMAIN e.undo.balances = UndoRows(e.body) /\ \A a \in UndoRows(e.body) : e.undo.balances[a] \in Nat
  BY EntryIs
<1>2. PICK u, b : u = e.undo.balances /\ b = balances
  OBVIOUS
<1>3. Restored(e) = [a \in Accounts |-> IF a \in UndoRows(e.body) THEN u[a] ELSE b[a]]
  BY <1>1, <1>2 DEF Restored
<1> QED BY <1>1, <1>2, <1>3 DEF Rewound, Bal

\* They keep the types too.
LEMMA TypesUndoBalances ==
    ASSUME SetTypes, UndoBalances
    PROVE  SetTypes'
<1>1. PICK e, ch, v : e = Last(chain) /\ ch = chain /\ v = version
  OBVIOUS
<1>2. job.step = "unwinding" /\ balances' = Restored(e) /\ chain' = Front(ch) /\ job' = Idle
      /\ UNCHANGED <<meta, outside, request, version>> /\ raced' = (raced \/ Changed(DOMAIN e.undo.balances, e.prep))
  BY <1>1 DEF UndoBalances
<1>3. ChainTyped(ch, v) /\ ch # <<>> /\ e = Last(ch)
  BY <1>1, <1>2 DEF SetTypes
<1>4. e \in Entries /\ EntryTyped(e, v) /\ ChainTyped(chain', v)
  BY <1>2, <1>3, ChainFront
<1>5. meta' \in Goods /\ LedgerTypes /\ balances \in Bal
  BY <1>2 DEF SetTypes, LedgerTypes
<1>6. balances' \in Bal
  BY <1>2, <1>4, <1>5, RestoredIs DEF Rewound
<1>7. LedgerTypes'
  BY <1>2, <1>5, <1>6, LedgerOn
<1>8. PICK b, m, j : b = balances' /\ m = meta' /\ j = job'
  OBVIOUS
<1>9. j.step = "idle" /\ JobTyped(j, v) /\ Fresh(j, b, m, v)
  BY <1>2, <1>8, IdleTyped
<1>10. JobTyped(job, version)' /\ Fresh(job, balances, meta, version)' /\ job'.step = "idle" /\ ChainTyped(chain, version)'
  BY <1>1, <1>2, <1>4, <1>8, <1>9
<1>11. raced' \in BOOLEAN
  BY <1>2
<1> QED BY <1>7, <1>10, <1>11 DEF SetTypes

-----------------------------------------------------------------------------
(* The invariant of blocks and money.                                        *)

\* The transactions of the first k blocks.
Held(ch, k) == UNION {Range(ch[i].body) : i \in 1..k}
\* Markers, tasks, recipient counter and height stand for the transactions held.
MarksOk(m, k, held) ==
    /\ m.height = k /\ m.applied \subseteq held /\ held \ (m.applied \cup Tasks) \subseteq Airdrops
    /\ FewDrops(m) /\ m.tasks = held \cap Tasks
\* Supply and burned add up to the genesis supply.
Whole(m) == m.supply + m.burned = GenesisSupply
\* A recorded block: what it did to the trees, and an undo record with the markers it
\* found.
EntryEffect(e) ==
    /\ Whole(e.before.meta) /\ Whole(e.after.meta)
    /\ SumFunction(e.after.balances) - SumFunction(e.before.balances) = e.after.meta.supply - e.before.meta.supply
    /\ \A a \in Accounts : a \notin UndoRows(e.body) => e.after.balances[a] = e.before.balances[a]
    /\ Range(e.body) \cap e.before.meta.applied = {}
    /\ BodyMarks(e.before.meta, e.after.meta, Range(e.body))
    /\ RunCounts(e.before.meta, e.after.meta, Range(e.body))
    /\ RunDrops(e.before.meta, e.after.meta, Range(e.body))
    /\ SameBlock(e.undo.meta, e.before.meta)
\* The undo record holds what the block found, in rows no REST operation wrote since it
\* was read.
UndoMatches(e, v) ==
    /\ \A a \in UndoRows(e.body) : v[a] = e.prep[a] => e.undo.balances[a] = e.before.balances[a]
    /\ v[Counters] = e.prep[Counters] => SameCounts(e.undo.meta, e.before.meta)
\* A block found what the block below it left, in the same rows.
LinkOk(d, e, v) ==
    /\ Below(d.prep, e.prep) /\ SameBlock(d.after.meta, e.before.meta)
    /\ \A a \in Accounts : v[a] = d.prep[a] => e.before.balances[a] = d.after.balances[a]
    /\ v[Counters] = d.prep[Counters] => SameCounts(d.after.meta, e.before.meta)
\* Every recorded block and every link between two of them.
ChainSound(ch, v) ==
    /\ \A i \in 1..Len(ch) :
          EntryEffect(ch[i]) /\ UndoMatches(ch[i], v) /\ MarksOk(ch[i].before.meta, i - 1, Held(ch, i - 1))
    /\ \A i \in 2..Len(ch) : LinkOk(ch[i - 1], ch[i], v)
\* The trees are what the last block left, in rows not written since.
TopMeta(t, m, v) ==
    SameBlock(t.after.meta, m) /\ (v[Counters] = t.prep[Counters] => SameCounts(t.after.meta, m))
TopRows(t, b, v) == \A a \in Accounts : v[a] = t.prep[a] => b[a] = t.after.balances[a]
\* Between blocks: money is the supply, markers are the chain's, and the trees are the
\* last block's.
SettledSound(ch, b, m, v, k) ==
    /\ SumFunction(b) + k = m.supply /\ Whole(m) /\ MarksOk(m, Len(ch), Held(ch, Len(ch)))
    /\ ch # <<>> => TopMeta(Last(ch), m, v) /\ TopRows(Last(ch), b, v)
\* The undo record read for the block being applied is what the trees hold, in rows not
\* written since.
PreparedSound(j, ch, b, m, v) ==
    /\ SameBlock(j.undo.meta, m) /\ (v[Counters] = j.prep[Counters] => SameCounts(j.undo.meta, m))
    /\ \A a \in UndoRows(j.body) : v[a] = j.prep[a] => j.undo.balances[a] = b[a]
    /\ ch # <<>> => Below(Last(ch).prep, j.prep)
\* The block being applied is one that could be recorded.
EntrySound(j, ch, v) ==
    /\ EntryEffect(JobEntry(j)) /\ UndoMatches(JobEntry(j), v)
    /\ ch # <<>> => LinkOk(Last(ch), JobEntry(j), v)
    /\ MarksOk(j.before.meta, Len(ch), Held(ch, Len(ch))) /\ j.out.meta.height = Len(ch) + 1
\* The trees are what the block was computed from, in rows not written since.
ComputedSound(j, b, m, v) ==
    /\ \A a \in Accounts : v[a] = j.read[a] => b[a] = j.before.balances[a]
    /\ v[Counters] = j.read[Counters] => SameCounts(j.before.meta, m)
    /\ \A a \in Accounts : a \notin j.out.dirty => j.out.bal[a] = j.before.balances[a]
\* Between the two writes: with the counters still to be written, money is the supply.
WrittenSound(j, b, v, k) ==
    /\ v[Counters] = j.read[Counters] => SumFunction(b) + k = j.out.meta.supply
    /\ \A a \in Accounts : v[a] = j.prep[a] => b[a] = j.out.bal[a]
\* The balances after the unwind that is under way.
Rewind(t, b) == [a \in Accounts |-> IF a \in UndoRows(t.body) THEN t.undo.balances[a] ELSE b[a]]
\* Between the two writes of an unwind: the markers are those before the block, and so
\* will the balances be.
UnwindingSound(t, b, m, v, k) ==
    /\ SameBlock(t.before.meta, m) /\ (v[Counters] = t.prep[Counters] => SameCounts(t.before.meta, m))
    /\ TopRows(t, b, v)
    /\ (\A a \in UndoRows(t.body) : v[a] = t.prep[a]) => SumFunction(Rewind(t, b)) + k = m.supply /\ Whole(m)
\* The second half of the invariant, of the job j, the chain, the trees, the versions and
\* the locked money k.
Sound(j, ch, b, m, v, k) ==
    /\ ChainSound(ch, v)
    /\ j.step \notin {"written", "unwinding"} => SettledSound(ch, b, m, v, k)
    /\ j.step = "prepared" => PreparedSound(j, ch, b, m, v)
    /\ j.step \in {"computed", "written"} => EntrySound(j, ch, v)
    /\ j.step = "computed" => ComputedSound(j, b, m, v)
    /\ j.step = "written" => WrittenSound(j, b, v, k)
    /\ j.step = "unwinding" => UnwindingSound(Last(ch), b, m, v, k)
\* A RestStep, as a relation between the trees, versions and locked money before and
\* after.
RestOf(v, w, b, c, m, n, k, l) ==
    /\ v \in Vers /\ w \in Vers /\ b \in Bal /\ c \in Bal /\ m \in Goods /\ n \in Goods /\ k \in Nat /\ l \in Nat
    /\ Below(v, w) /\ Grown(v, w, b, c, m, n)
    /\ \E x : Burned(x, k, l, b, c, v, w, m.supply, n.supply) /\ n.burned = m.burned + x

\* A row of an old version is one no operation wrote.
LEMMA SameSince ==
    ASSUME NEW v, NEW w, NEW b, NEW c, NEW m, NEW n, NEW k, NEW l, RestOf(v, w, b, c, m, n, k, l), NEW p \in Vers, Below(p, v)
    PROVE  /\ \A a \in Accounts : w[a] = p[a] => v[a] = p[a] /\ c[a] = b[a]
           /\ w[Counters] = p[Counters] => v[Counters] = p[Counters] /\ n = m
           /\ SameBlock(m, n)
<1>1. v \in Vers /\ w \in Vers /\ Below(v, w) /\ Grown(v, w, b, c, m, n)
  BY DEF RestOf
<1>2. \A r \in Rows : w[r] = p[r] => v[r] = p[r] /\ w[r] = v[r]
  BY <1>1, BetweenSame
<1>3. ASSUME NEW a \in Accounts, w[a] = p[a] PROVE v[a] = p[a] /\ c[a] = b[a]
  <2>1. a \in Rows
    BY RowIs
  <2>2. v[a] = p[a] /\ w[a] = v[a]
    BY <1>2, <1>3, <2>1
  <2> QED BY <2>2, <1>1 DEF Grown
<1>4. ASSUME w[Counters] = p[Counters] PROVE v[Counters] = p[Counters] /\ n = m
  <2>1. v[Counters] = p[Counters] /\ w[Counters] = v[Counters]
    BY <1>2, <1>4, RowIs
  <2> QED BY <2>1, <1>1 DEF Grown
<1>5. SameBlock(m, n)
  BY <1>1 DEF Grown
<1> QED BY <1>3, <1>4, <1>5

\* Equal markers and equal counters are equivalences.
LEMMA SameTrans ==
    ASSUME NEW x, NEW y, NEW z
    PROVE  /\ SameBlock(x, y) /\ SameBlock(y, z) => SameBlock(x, z)
           /\ SameCounts(x, y) /\ SameCounts(y, z) => SameCounts(x, z)
           /\ SameBlock(x, y) => SameBlock(y, x)
           /\ SameCounts(x, y) => SameCounts(y, x)
           /\ SameBlock(x, x) /\ SameCounts(x, x)
BY DEF SameBlock, SameMarks, SameCounts

\* A row of an old version had it in between.
LEMMA SoonerSame ==
    ASSUME NEW p \in Vers, NEW v \in Vers, NEW w \in Vers, Below(p, v), Below(v, w)
    PROVE  \A r \in Rows : w[r] = p[r] => v[r] = p[r]
BY BetweenSame

\* Undo records keep matching while versions grow,
LEMMA MatchesOn ==
    ASSUME NEW e \in Entries, NEW v \in Vers, NEW w \in Vers, Below(v, w), EntryTyped(e, v), UndoMatches(e, v)
    PROVE  UndoMatches(e, w)
<1>1. e.prep \in Vers /\ Below(e.prep, v) /\ UndoRows(e.body) \subseteq Accounts
  BY EntryIs
<1>2. \A r \in Rows : w[r] = e.prep[r] => v[r] = e.prep[r]
  BY <1>1, SoonerSame
<1> QED BY <1>1, <1>2, RowIs DEF UndoMatches

\* links too,
LEMMA LinkOn ==
    ASSUME NEW d \in Entries, NEW e, NEW v \in Vers, NEW w \in Vers, Below(v, w), EntryTyped(d, v), LinkOk(d, e, v)
    PROVE  LinkOk(d, e, w)
<1>1. d.prep \in Vers /\ Below(d.prep, v)
  BY EntryIs
<1>2. \A r \in Rows : w[r] = d.prep[r] => v[r] = d.prep[r]
  BY <1>1, SoonerSame
<1> QED BY <1>2, RowIs DEF LinkOk

\* and so does the chain.
LEMMA ChainSoundOn ==
    ASSUME NEW ch, NEW v \in Vers, NEW w \in Vers, Below(v, w), ChainTyped(ch, v), ChainSound(ch, v)
    PROVE  ChainSound(ch, w)
<1>1. ch \in Seq(Entries) /\ Len(ch) \in Nat /\ \A i \in 1..Len(ch) : ch[i] \in Entries /\ EntryTyped(ch[i], v)
  BY DEF ChainTyped
<1>2. ASSUME NEW i \in 1..Len(ch)
      PROVE EntryEffect(ch[i]) /\ UndoMatches(ch[i], w) /\ MarksOk(ch[i].before.meta, i - 1, Held(ch, i - 1))
  <2>1. EntryEffect(ch[i]) /\ UndoMatches(ch[i], v) /\ MarksOk(ch[i].before.meta, i - 1, Held(ch, i - 1))
    BY DEF ChainSound
  <2> QED BY <1>1, <2>1, MatchesOn
<1>3. ASSUME NEW i \in 2..Len(ch) PROVE LinkOk(ch[i - 1], ch[i], w)
  <2>1. LinkOk(ch[i - 1], ch[i], v) /\ i - 1 \in 1..Len(ch)
    BY <1>1 DEF ChainSound
  <2> QED BY <1>1, <2>1, LinkOn
<1> QED BY <1>2, <1>3 DEF ChainSound

-----------------------------------------------------------------------------
(* REST operations keep it.                                                  *)

\* A burn that the supply covers keeps supply and burned adding up.
LEMMA WholeOn ==
    ASSUME NEW m, NEW n, Whole(m), NEW x \in Nat, m.supply \in Nat, m.burned \in Nat, x <= m.supply,
           n.supply = Monus(m.supply, x), n.burned = m.burned + x
    PROVE  Whole(n)
BY DEF Whole, Monus

\* A REST operation keeps money equal to the supply: it burns no more than a wallet or a
\* lock holds.
LEMMA SumKept ==
    ASSUME NEW v, NEW w, NEW b, NEW c, NEW m, NEW n, NEW k, NEW l, RestOf(v, w, b, c, m, n, k, l),
           SumFunction(b) + k = m.supply, Whole(m)
    PROVE  SumFunction(c) + l = n.supply /\ Whole(n)
<1>1. PICK x : Burned(x, k, l, b, c, v, w, m.supply, n.supply) /\ n.burned = m.burned + x
  BY DEF RestOf
<1>2. SumFunction(b) \in Nat /\ SumFunction(c) \in Nat /\ k \in Nat /\ l \in Nat
  BY BalSum DEF RestOf
<1>3. x \in Nat /\ n.supply = Monus(m.supply, x) /\ SumFunction(c) + l + x = SumFunction(b) + k
  BY <1>1 DEF Burned
<1>4. m.burned \in Nat /\ m.supply \in Nat /\ x <= m.supply
  BY <1>2, <1>3, MetaShape DEF RestOf, Goods
<1>5. Whole(n)
  BY <1>1, <1>3, <1>4, WholeOn
<1> QED BY <1>2, <1>3, <1>5 DEF Monus

\* REST operations mark nothing.
LEMMA MarksOn ==
    ASSUME NEW m, NEW n, SameBlock(m, n), NEW k, NEW held, MarksOk(m, k, held)
    PROVE  MarksOk(n, k, held)
BY DEF SameBlock, SameMarks, MarksOk, FewDrops

\* REST operations keep every part of the invariant: what the last block left,
LEMMA TopOn ==
    ASSUME NEW v, NEW w, NEW b, NEW c, NEW m, NEW n, NEW k, NEW l, RestOf(v, w, b, c, m, n, k, l),
           NEW t \in Entries, EntryTyped(t, v)
    PROVE  /\ TopMeta(t, m, v) => TopMeta(t, n, w)
           /\ TopRows(t, b, v) => TopRows(t, c, w)
<1>1. t.prep \in Vers /\ Below(t.prep, v)
  BY EntryIs
<1>2. /\ \A a \in Accounts : w[a] = t.prep[a] => v[a] = t.prep[a] /\ c[a] = b[a]
      /\ w[Counters] = t.prep[Counters] => v[Counters] = t.prep[Counters] /\ n = m
      /\ SameBlock(m, n)
  BY <1>1, SameSince
<1>3. TopMeta(t, m, v) => TopMeta(t, n, w)
  BY <1>2, SameTrans DEF TopMeta
<1>4. TopRows(t, b, v) => TopRows(t, c, w)
  BY <1>2 DEF TopRows
<1> QED BY <1>3, <1>4

\* what holds between blocks,
LEMMA SettledOn ==
    ASSUME NEW v, NEW w, NEW b, NEW c, NEW m, NEW n, NEW k, NEW l, RestOf(v, w, b, c, m, n, k, l),
           NEW ch, ChainTyped(ch, v), SettledSound(ch, b, m, v, k)
    PROVE  SettledSound(ch, c, n, w, l)
<1>1. SumFunction(c) + l = n.supply /\ Whole(n)
  BY SumKept DEF SettledSound
<1>2. SameBlock(m, n)
  BY DEF RestOf, Grown
<1>3. MarksOk(n, Len(ch), Held(ch, Len(ch)))
  BY <1>2, MarksOn DEF SettledSound
<1>4. ASSUME ch # <<>> PROVE TopMeta(Last(ch), n, w) /\ TopRows(Last(ch), c, w)
  <2>1. Last(ch) \in Entries /\ EntryTyped(Last(ch), v)
    BY <1>4, ChainFront
  <2>2. TopMeta(Last(ch), m, v) /\ TopRows(Last(ch), b, v)
    BY <1>4 DEF SettledSound
  <2> QED BY <2>1, <2>2, TopOn
<1> QED BY <1>1, <1>3, <1>4 DEF SettledSound

\* the undo record,
LEMMA PreparedOn ==
    ASSUME NEW v, NEW w, NEW b, NEW c, NEW m, NEW n, NEW k, NEW l, RestOf(v, w, b, c, m, n, k, l),
           NEW j, JobTyped(j, v), j.step = "prepared", NEW ch, PreparedSound(j, ch, b, m, v)
    PROVE  PreparedSound(j, ch, c, n, w)
<1>1. j.prep \in Vers /\ Below(j.prep, v) /\ j.body \in Bodies
  BY DEF JobTyped, Prepared, Previewed
<1>2. /\ \A a \in Accounts : w[a] = j.prep[a] => v[a] = j.prep[a] /\ c[a] = b[a]
      /\ w[Counters] = j.prep[Counters] => v[Counters] = j.prep[Counters] /\ n = m
      /\ SameBlock(m, n)
  BY <1>1, SameSince
<1>3. SameBlock(j.undo.meta, n)
  BY <1>2, SameTrans DEF PreparedSound
<1>4. w[Counters] = j.prep[Counters] => SameCounts(j.undo.meta, n)
  BY <1>2 DEF PreparedSound
<1>5. \A a \in UndoRows(j.body) : w[a] = j.prep[a] => j.undo.balances[a] = c[a]
  BY <1>1, <1>2, RowsShape DEF PreparedSound
<1> QED BY <1>3, <1>4, <1>5 DEF PreparedSound

\* the block that could be recorded,
LEMMA EntryOn ==
    ASSUME NEW v \in Vers, NEW w \in Vers, Below(v, w),
           NEW j, JobTyped(j, v), j.step \in {"computed", "written"}, NEW ch, ChainTyped(ch, v), EntrySound(j, ch, v)
    PROVE  EntrySound(j, ch, w)
<1>1. JobEntry(j) \in Entries /\ EntryTyped(JobEntry(j), v)
  BY JobEntryTyped
<1>2. UndoMatches(JobEntry(j), w)
  BY <1>1, MatchesOn DEF EntrySound
<1>3. ASSUME ch # <<>> PROVE LinkOk(Last(ch), JobEntry(j), w)
  <2>1. Last(ch) \in Entries /\ EntryTyped(Last(ch), v)
    BY <1>3, ChainFront
  <2> QED BY <1>3, <2>1, LinkOn DEF EntrySound
<1> QED BY <1>2, <1>3 DEF EntrySound

\* what it was computed from,
LEMMA ComputedOn ==
    ASSUME NEW v, NEW w, NEW b, NEW c, NEW m, NEW n, NEW k, NEW l, RestOf(v, w, b, c, m, n, k, l),
           NEW j, JobTyped(j, v), j.step = "computed", ComputedSound(j, b, m, v)
    PROVE  ComputedSound(j, c, n, w)
<1>1. j.read \in Vers /\ Below(j.read, v)
  BY DEF JobTyped, Computed
<1>2. /\ \A a \in Accounts : w[a] = j.read[a] => v[a] = j.read[a] /\ c[a] = b[a]
      /\ w[Counters] = j.read[Counters] => v[Counters] = j.read[Counters] /\ n = m
  BY <1>1, SameSince
<1> QED BY <1>2 DEF ComputedSound

\* and what it wrote.
LEMMA WrittenOn ==
    ASSUME NEW v, NEW w, NEW b, NEW c, NEW m, NEW n, NEW k, NEW l, RestOf(v, w, b, c, m, n, k, l),
           NEW j, JobTyped(j, v), j.step = "written", WrittenSound(j, b, v, k)
    PROVE  WrittenSound(j, c, w, l)
<1>1. j.read \in Vers /\ Below(j.read, v) /\ j.prep \in Vers /\ Below(j.prep, v)
  BY DEF JobTyped, Computed, Prepared
<1>2. w[Counters] = j.read[Counters] => v[Counters] = j.read[Counters] /\ n = m
  BY <1>1, SameSince
<1>3. \A a \in Accounts : w[a] = j.prep[a] => v[a] = j.prep[a] /\ c[a] = b[a]
  BY <1>1, SameSince
<1>4. ASSUME w[Counters] = j.read[Counters] PROVE SumFunction(c) + l = j.out.meta.supply
  <2>1. PICK x : Burned(x, k, l, b, c, v, w, m.supply, n.supply) /\ n.burned = m.burned + x
    BY DEF RestOf
  <2>2. x = 0 /\ SumFunction(c) + l + x = SumFunction(b) + k
    <3>1. m.burned \in Nat /\ x \in Nat /\ n = m
      BY <1>2, <1>4, <2>1, MetaShape DEF Burned, RestOf, Goods
    <3> QED BY <2>1, <3>1 DEF Burned
  <2>3. SumFunction(b) \in Nat /\ SumFunction(c) \in Nat /\ k \in Nat /\ l \in Nat
    BY BalSum DEF RestOf
  <2>4. SumFunction(b) + k = j.out.meta.supply
    BY <1>2, <1>4 DEF WrittenSound
  <2>5. SumFunction(c) + l = SumFunction(b) + k
    BY <2>2, <2>3
  <2> QED BY <2>4, <2>5
<1> QED BY <1>3, <1>4 DEF WrittenSound

\* The balances after the unwind under way.
LEMMA RewindIs ==
    ASSUME NEW t \in Entries, NEW v, EntryTyped(t, v), NEW b \in Bal
    PROVE  Rewound(t, b, Rewind(t, b))
<1>1. UndoRows(t.body) \subseteq Accounts /\ \A a \in UndoRows(t.body) : t.undo.balances[a] \in Nat
  BY EntryIs
<1> QED BY <1>1 DEF Rewound, Rewind, Bal

\* From f to g and from h to k every wallet moves alike.
BalMoves(f, g, h, k) ==
    /\ f \in Bal /\ g \in Bal /\ h \in Bal /\ k \in Bal
    /\ \A x \in Accounts : (g[x] = f[x] /\ k[x] = h[x]) \/ (g[x] = k[x] /\ f[x] = h[x])

\* Then so do the sums.
LEMMA BalsMove ==
    ASSUME NEW f, NEW g, NEW h, NEW k, BalMoves(f, g, h, k)
    PROVE  SumFunction(g) - SumFunction(f) = SumFunction(k) - SumFunction(h)
<1>1. f \in Bal /\ g \in Bal /\ h \in Bal /\ k \in Bal
  BY DEF BalMoves
<1>2. \A x \in Accounts : f[x] \in Int /\ g[x] \in Int /\ h[x] \in Int /\ k[x] \in Int
  BY <1>1 DEF Bal
<1>3. \A x \in Accounts : g[x] - f[x] = k[x] - h[x]
  <2>1. ASSUME NEW x \in Accounts PROVE g[x] - f[x] = k[x] - h[x]
    <3>1. f[x] \in Int /\ g[x] \in Int /\ h[x] \in Int /\ k[x] \in Int
      BY <1>2
    <3>2. (g[x] = f[x] /\ k[x] = h[x]) \/ (g[x] = k[x] /\ f[x] = h[x])
      BY DEF BalMoves
    <3> QED BY <3>1, <3>2
  <2> QED BY <2>1
<1>4. SumFunctionOnSet(g, Accounts) - SumFunctionOnSet(f, Accounts) = SumFunctionOnSet(k, Accounts) - SumFunctionOnSet(h, Accounts)
  <2>1. IsFiniteSet(Accounts)
    BY SeConst
  <2> QED BY ONLY <2>1, <1>2, <1>3, SumMoves
<1> QED BY <1>1, <1>4, BalSum

\* The numbers of a burn while an unwind is under way.
Burnable(s, x, k, l, r, rr, b, c, t) ==
    /\ s \in Nat /\ x \in Nat /\ k \in Nat /\ l \in Nat /\ r \in Nat /\ rr \in Nat /\ b \in Nat /\ c \in Nat
    /\ r + k = s /\ rr - r = c - b /\ c + l + x = b + k /\ t = Monus(s, x) /\ x <= s

\* It leaves money and supply equal.
LEMMA BurnLeaves ==
    ASSUME NEW s, NEW x, NEW k, NEW l, NEW r, NEW rr, NEW b, NEW c, NEW t, Burnable(s, x, k, l, r, rr, b, c, t)
    PROVE  rr + l = t
BY DEF Burnable, Monus

\* REST operations keep what holds between the two writes of an unwind: what they write
\* is not restored.
LEMMA UnwindingOn ==
    ASSUME NEW v, NEW w, NEW b, NEW c, NEW m, NEW n, NEW k, NEW l, RestOf(v, w, b, c, m, n, k, l),
           NEW t \in Entries, EntryTyped(t, v), UnwindingSound(t, b, m, v, k)
    PROVE  UnwindingSound(t, c, n, w, l)
<1>1. t.prep \in Vers /\ Below(t.prep, v) /\ UndoRows(t.body) \subseteq Accounts
  BY EntryIs
<1>2. /\ \A a \in Accounts : w[a] = t.prep[a] => v[a] = t.prep[a] /\ c[a] = b[a]
      /\ w[Counters] = t.prep[Counters] => v[Counters] = t.prep[Counters] /\ n = m
      /\ SameBlock(m, n)
  BY <1>1, SameSince
<1>3. SameBlock(t.before.meta, n)
  BY <1>2, SameTrans DEF UnwindingSound
<1>4. w[Counters] = t.prep[Counters] => SameCounts(t.before.meta, n)
  BY <1>2 DEF UnwindingSound
<1>5. TopRows(t, c, w)
  BY TopOn DEF UnwindingSound
<1>6. ASSUME \A a \in UndoRows(t.body) : w[a] = t.prep[a] PROVE SumFunction(Rewind(t, c)) + l = n.supply /\ Whole(n)
  <2>1. \A a \in UndoRows(t.body) : v[a] = t.prep[a] /\ c[a] = b[a]
    BY <1>1, <1>2, <1>6
  <2>2. PICK r, q : r = Rewind(t, b) /\ q = Rewind(t, c)
    OBVIOUS
  <2>3. b \in Bal /\ c \in Bal /\ m \in Goods /\ k \in Nat /\ l \in Nat
    BY DEF RestOf
  <2>4. Rewound(t, b, r) /\ Rewound(t, c, q)
    BY <2>2, <2>3, RewindIs
  <2>5. SumFunction(r) + k = m.supply /\ Whole(m)
    BY <2>1, <2>2 DEF UnwindingSound
  <2>6. BalMoves(r, q, b, c)
    BY <2>1, <2>3, <2>4 DEF BalMoves, Rewound
  <2>7. SumFunction(q) - SumFunction(r) = SumFunction(c) - SumFunction(b)
    BY <2>6, BalsMove
  <2>8. PICK x : Burned(x, k, l, b, c, v, w, m.supply, n.supply) /\ n.burned = m.burned + x
    BY DEF RestOf
  <2>9. x \in Nat /\ n.supply = Monus(m.supply, x) /\ SumFunction(c) + l + x = SumFunction(b) + k
        /\ (x = 0 \/ x <= k \/ \E p \in Accounts : w[p] # v[p] /\ x <= b[p])
    BY <2>8 DEF Burned
  <2>10. r \in Bal /\ q \in Bal
    BY <2>4 DEF Rewound
  <2>11. SumFunction(r) \in Nat /\ SumFunction(q) \in Nat /\ SumFunction(b) \in Nat /\ SumFunction(c) \in Nat /\ m.supply \in Nat
    BY <2>3, <2>10, BalSum, MetaShape DEF Goods
  <2>12. x <= m.supply
    <3>1. CASE x = 0 \/ x <= k
      BY <3>1, <2>3, <2>5, <2>9, <2>11
    <3>2. ASSUME NEW p \in Accounts, w[p] # v[p], x <= b[p] PROVE x <= m.supply
      <4>1. p \notin UndoRows(t.body)
        BY <1>6, <2>1, <3>2
      <4>2. r[p] = b[p]
        BY <4>1, <2>4 DEF Rewound
      <4>3. r[p] \in Nat /\ r[p] <= SumFunction(r)
        BY <2>10, BalSum
      <4> QED BY <3>2, <4>2, <4>3, <2>3, <2>5, <2>9, <2>11
    <3> QED BY <3>1, <3>2, <2>9
  <2>13. Burnable(m.supply, x, k, l, SumFunction(r), SumFunction(q), SumFunction(b), SumFunction(c), n.supply)
    BY <2>3, <2>5, <2>7, <2>9, <2>11, <2>12 DEF Burnable
  <2>14. SumFunction(q) + l = n.supply
    BY <2>13, BurnLeaves
  <2>15. Whole(n)
    <3>1. m.burned \in Nat
      BY <2>3, MetaShape DEF Goods
    <3> QED BY <3>1, <2>5, <2>8, <2>9, <2>11, <2>12, WholeOn
  <2> QED BY <2>2, <2>14, <2>15
<1> QED BY <1>3, <1>4, <1>5, <1>6 DEF UnwindingSound

\* All parts together.
LEMMA SoundOn ==
    ASSUME NEW v, NEW w, NEW b, NEW c, NEW m, NEW n, NEW k, NEW l, RestOf(v, w, b, c, m, n, k, l),
           NEW j, JobTyped(j, v), NEW ch, ChainTyped(ch, v), j.step = "unwinding" => ch # <<>>, Sound(j, ch, b, m, v, k)
    PROVE  Sound(j, ch, c, n, w, l)
<1>1. v \in Vers /\ w \in Vers /\ Below(v, w)
  BY DEF RestOf
<1>2. ChainSound(ch, w)
  BY <1>1, ChainSoundOn DEF Sound
<1>3. j.step \notin {"written", "unwinding"} => SettledSound(ch, c, n, w, l)
  BY SettledOn DEF Sound
<1>4. j.step = "prepared" => PreparedSound(j, ch, c, n, w)
  BY PreparedOn DEF Sound
<1>5. j.step \in {"computed", "written"} => EntrySound(j, ch, w)
  BY <1>1, EntryOn DEF Sound
<1>6. j.step = "computed" => ComputedSound(j, c, n, w)
  BY ComputedOn DEF Sound
<1>7. j.step = "written" => WrittenSound(j, c, w, l)
  BY WrittenOn DEF Sound
<1>8. ASSUME j.step = "unwinding" PROVE UnwindingSound(Last(ch), c, n, w, l)
  <2>1. Last(ch) \in Entries /\ EntryTyped(Last(ch), v)
    BY <1>8, ChainFront
  <2>2. UnwindingSound(Last(ch), b, m, v, k)
    BY <1>8 DEF Sound
  <2> QED BY <2>1, <2>2, UnwindingOn
<1> QED BY <1>2, <1>3, <1>4, <1>5, <1>6, <1>7, <1>8 DEF Sound

-----------------------------------------------------------------------------
(* The steps of an apply keep it.                                            *)

\* A sum of zeros is zero.
LEMMA SumNothing ==
    ASSUME NEW S, IsFiniteSet(S), NEW f, \A x \in S : f[x] = 0
    PROVE  SumFunctionOnSet(f, S) = 0
<1> DEFINE P == {T \in SUBSET S : SumFunctionOnSet(f, T) = 0}
<1>1. {} \in P
  BY SumEmpty
<1>2. ASSUME NEW T \in SUBSET S, T # {}, \A x \in T : T \ {x} \in P PROVE T \in P
  <2>1. First(T) \in T /\ IsFiniteSet(T)
    BY <1>2, FirstIn, FS_Subset
  <2>2. SumFunctionOnSet(f, T) = f[First(T)] + SumFunctionOnSet(f, T \ {First(T)})
    BY <1>2, <2>1, SumFirst
  <2> QED BY <1>2, <2>1, <2>2
<1>3. P \in SUBSET (SUBSET S)
  OBVIOUS
<1>4. P = SUBSET S
  <2> HIDE DEF P
  <2> QED BY <1>1, <1>2, <1>3, FiniteInduction
<1> QED BY <1>4

\* The ledger after genesis.
LEMMA SoundStart ==
    ASSUME Init
    PROVE  Sound(job, chain, balances, meta, version, Locked)
<1>1. chain = <<>> /\ job = Idle /\ Len(chain) = 0
  BY DEF Init
<1>2. job.step = "idle"
  BY <1>1 DEF Idle
<1>3. Zero \in [Users -> Nat] /\ \A w \in Users : Zero[w] = 0
  BY DEF Zero
<1>4. SumFunction(Zero) = 0
  BY <1>3, SumNothing, SumAll, SeConst
<1>5. Locked = 0
  BY <1>4 DEF Init, Locked
<1>6. SumFunction(balances) + Locked = meta.supply
  <2>1. SumFunction(balances) = GenesisSupply /\ meta.supply = GenesisSupply
    BY DEF Init, GenesisSupply
  <2> QED BY <2>1, <1>5, GenesisNat
<1>7. MarksOk(meta, Len(chain), Held(chain, Len(chain)))
  <2>1. meta.height = 0 /\ meta.applied = {} /\ meta.tasks = {} /\ meta.airdrops = 0
    BY DEF Init
  <2>2. Held(chain, 0) = {}
    BY DEF Held
  <2>3. FewDrops(meta)
    <3>1. meta.applied \cap Airdrops = {}
      BY <2>1
    <3> QED BY <3>1, <2>1, FS_EmptySet DEF FewDrops
  <2> QED BY <1>1, <2>1, <2>2, <2>3 DEF MarksOk
<1>70. Whole(meta)
  <2>1. meta.supply = GenesisSupply /\ meta.burned = 0
    BY DEF Init
  <2> QED BY <2>1, GenesisNat DEF Whole
<1>8. SettledSound(chain, balances, meta, version, Locked)
  BY <1>1, <1>6, <1>7, <1>70 DEF SettledSound
<1>9. ChainSound(chain, version)
  BY <1>1 DEF ChainSound
<1> QED BY <1>2, <1>8, <1>9 DEF Sound

\* A preview or a refusal changes nothing.
LEMMA QuietSound ==
    ASSUME NEW j, NEW ch, NEW b, NEW m, NEW v, NEW k, Sound(j, ch, b, m, v, k), j.step \notin {"written", "unwinding"},
           NEW i, i.step \in {"idle", "previewed"}
    PROVE  Sound(i, ch, b, m, v, k)
BY DEF Sound

\* Reading the undo record.
LEMMA SoundPrepare ==
    ASSUME NEW j, NEW ch, NEW b \in Bal, NEW m, NEW v \in Vers, NEW k, Sound(j, ch, b, m, v, k), j.step = "previewed",
           ChainTyped(ch, v), NEW i, i.step = "prepared", i.undo.meta = m, i.prep = v,
           \A a \in UndoRows(i.body) : i.undo.balances[a] = b[a]
    PROVE  Sound(i, ch, b, m, v, k)
<1>1. ch # <<>> => Below(Last(ch).prep, i.prep)
  BY ChainFront, EntryIs
<1>2. PreparedSound(i, ch, b, m, v)
  BY <1>1, SameTrans DEF PreparedSound
<1> QED BY <1>2 DEF Sound

\* Reading the ledger: the computed block could be recorded.
LEMMA SoundRead ==
    ASSUME NEW j, NEW ch, NEW b \in Bal, NEW m \in Goods, NEW v \in Vers, NEW k \in Nat, Sound(j, ch, b, m, v, k),
           j.step = "prepared", JobTyped(j, v), ChainTyped(ch, v), Fresh(j, b, m, v),
           NEW t \in St, EffectOk(j.body, b, m, t), t.meta.height = Len(ch) + 1,
           NEW i, i.step = "computed", i.body = j.body, i.undo = j.undo, i.prep = j.prep, i.out = t, i.read = v,
           i.before = [balances |-> b, meta |-> m]
    PROVE  Sound(i, ch, b, m, v, k)
<1>1. PreparedSound(j, ch, b, m, v) /\ SettledSound(ch, b, m, v, k)
  BY DEF Sound
<1>2. PICK e : e = JobEntry(i)
  OBVIOUS
<1>3. /\ e.body = j.body /\ e.undo = j.undo /\ e.prep = j.prep /\ e.before.balances = b /\ e.before.meta = m
      /\ e.after.balances = t.bal /\ e.after.meta = t.meta
  BY <1>2 DEF JobEntry
<1>4. EntryEffect(e)
  <2>1. SumFunction(b) \in Nat /\ m.supply \in Nat /\ SumFunction(b) + k = m.supply
    BY <1>1, BalSum, MetaShape DEF SettledSound, Goods
  <2>2. t.meta.supply - SumFunction(t.bal) = m.supply - SumFunction(b)
    BY <2>1 DEF EffectOk
  <2>3. SumFunction(t.bal) - SumFunction(b) = t.meta.supply - m.supply
    <3>1. SumFunction(t.bal) \in Nat /\ t.meta.supply \in Nat
      BY StShape
    <3> QED BY <3>1, <2>1, <2>2
  <2>4. \A a \in Accounts : a \notin UndoRows(j.body) => t.bal[a] = b[a]
    BY DEF EffectOk
  <2>5. BodyMarks(m, t.meta, Range(j.body)) /\ RunCounts(m, t.meta, Range(j.body)) /\ RunDrops(m, t.meta, Range(j.body))
    BY DEF EffectOk
  <2>6. Range(j.body) \cap m.applied = {}
    BY DEF Fresh
  <2>7. SameBlock(j.undo.meta, m)
    BY <1>1 DEF PreparedSound
  <2>8. Whole(m) /\ Whole(t.meta)
    <3>1. t.meta.supply + t.meta.burned = m.supply + m.burned
      BY <2>1 DEF EffectOk
    <3> QED BY <3>1, <1>1 DEF Whole, SettledSound
  <2> QED BY <1>3, <2>3, <2>4, <2>5, <2>6, <2>7, <2>8 DEF EntryEffect
<1>5. UndoMatches(e, v)
  BY <1>1, <1>3 DEF UndoMatches, PreparedSound
<1>6. ASSUME ch # <<>> PROVE LinkOk(Last(ch), e, v)
  BY <1>1, <1>3, <1>6 DEF LinkOk, PreparedSound, SettledSound, TopMeta, TopRows
<1>7. MarksOk(m, Len(ch), Held(ch, Len(ch)))
  BY <1>1 DEF SettledSound
<1>8. EntrySound(i, ch, v)
  BY <1>2, <1>4, <1>5, <1>6, <1>7 DEF EntrySound
<1>9. ComputedSound(i, b, m, v)
  <2>1. i.before.balances = b /\ i.before.meta = m /\ \A a \in Accounts : a \notin t.dirty => t.bal[a] = b[a]
    BY DEF EffectOk
  <2> QED BY <2>1, SameTrans DEF ComputedSound
<1> QED BY <1>1, <1>8, <1>9 DEF Sound

\* Writing the balances, when no dirty row was written since it was read.
LEMMA SoundWrite ==
    ASSUME NEW j, NEW ch, NEW b \in Bal, NEW m \in Goods, NEW v \in Vers, NEW k \in Nat, Sound(j, ch, b, m, v, k),
           j.step = "computed", JobTyped(j, v), NEW c \in Bal,
           \A a \in Accounts : c[a] = IF a \in j.out.dirty THEN j.out.bal[a] ELSE b[a],
           \A a \in j.out.dirty : v[a] = j.read[a],
           NEW i, i = [j EXCEPT !.step = "written"]
    PROVE  Sound(i, ch, c, m, v, k)
<1>1. /\ i.step = "written" /\ i.prep = j.prep /\ i.out = j.out /\ i.read = j.read /\ i.before = j.before
      /\ JobEntry(i) = JobEntry(j)
  BY JobWritten
<1>2. EntrySound(j, ch, v) /\ ComputedSound(j, b, m, v) /\ SettledSound(ch, b, m, v, k)
  BY DEF Sound
<1>3. EntrySound(i, ch, v)
  BY <1>1, <1>2 DEF EntrySound
<1>4. j.out \in St /\ j.read \in Vers /\ j.before \in Trees /\ j.prep \in Vers /\ Below(j.prep, j.read) /\ Below(j.read, v)
  BY DEF JobTyped, Computed, Prepared
<1>5. PICK o, f, g : o = j.out /\ f = j.before.balances /\ g = j.before.meta
  OBVIOUS
<1>6. o.bal \in Bal /\ o.dirty \subseteq Accounts /\ o.meta.supply \in Nat /\ f \in Bal /\ g \in Goods
  BY <1>4, <1>5, StShape DEF Trees
<1>7. /\ \A a \in Accounts : v[a] = j.read[a] => b[a] = f[a]
      /\ v[Counters] = j.read[Counters] => SameCounts(g, m)
      /\ \A a \in Accounts : a \notin o.dirty => o.bal[a] = f[a]
  BY <1>2, <1>5 DEF ComputedSound
<1>8. BalMoves(b, c, f, o.bal)
  <2>1. ASSUME NEW a \in Accounts PROVE (c[a] = b[a] /\ o.bal[a] = f[a]) \/ (c[a] = o.bal[a] /\ b[a] = f[a])
    BY <1>5, <1>7
  <2> QED BY <2>1, <1>6 DEF BalMoves
<1>9. SumFunction(c) - SumFunction(b) = SumFunction(o.bal) - SumFunction(f)
  BY <1>8, BalsMove
<1>10. SumFunction(o.bal) - SumFunction(f) = o.meta.supply - g.supply
  <2>1. EntryEffect(JobEntry(j))
    BY <1>2 DEF EntrySound
  <2>2. JobEntry(j).after.balances = o.bal /\ JobEntry(j).after.meta = o.meta
        /\ JobEntry(j).before.balances = f /\ JobEntry(j).before.meta = g
    BY <1>5 DEF JobEntry
  <2> QED BY <2>1, <2>2 DEF EntryEffect
<1>11. SumFunction(b) + k = m.supply
  BY <1>2 DEF SettledSound
<1>12. SumFunction(b) \in Nat /\ SumFunction(c) \in Nat /\ SumFunction(o.bal) \in Nat /\ SumFunction(f) \in Nat
       /\ g.supply \in Nat /\ m.supply \in Nat
  BY <1>6, BalSum, MetaShape DEF Goods
<1>13. ASSUME v[Counters] = j.read[Counters] PROVE SumFunction(c) + k = o.meta.supply
  <2>1. m.supply = g.supply
    BY <1>7, <1>13 DEF SameCounts
  <2> QED BY <2>1, <1>6, <1>9, <1>10, <1>11, <1>12
<1>14. ASSUME NEW a \in Accounts, v[a] = j.prep[a] PROVE c[a] = o.bal[a]
  <2>1. v[a] = j.read[a]
    BY <1>4, <1>14, RowIs, BetweenSame
  <2> QED BY <2>1, <1>5, <1>7
<1>15. WrittenSound(i, c, v, k)
  BY <1>1, <1>5, <1>13, <1>14 DEF WrittenSound
<1>16. ChainSound(ch, v)
  BY DEF Sound
<1> QED BY <1>1, <1>3, <1>15, <1>16 DEF Sound

-----------------------------------------------------------------------------
(* Recording and unwinding a block keep it.                                  *)

\* The markers after a block stand for one block more.
LEMMA MarksAfter ==
    ASSUME NEW e, EntryEffect(e), NEW k, NEW held, MarksOk(e.before.meta, k, held), NEW h, e.after.meta.height = h
    PROVE  MarksOk(e.after.meta, h, held \cup Range(e.body))
<1>1. PICK m, n, T : m = e.before.meta /\ n = e.after.meta /\ T = Range(e.body)
  OBVIOUS
<1>2. BodyMarks(m, n, T) /\ RunDrops(m, n, T) /\ T \cap m.applied = {}
  BY <1>1 DEF EntryEffect
<1>3. /\ m.applied \subseteq held /\ held \ (m.applied \cup Tasks) \subseteq Airdrops
      /\ FewDrops(m) /\ m.tasks = held \cap Tasks
  BY <1>1 DEF MarksOk
<1>4. FewDrops(n)
  BY <1>2, <1>3 DEF RunDrops
<1>5. n.tasks = (held \cup T) \cap Tasks
  BY <1>2, <1>3 DEF BodyMarks
<1>6. n.applied \subseteq held \cup T
  BY <1>2, <1>3 DEF BodyMarks
<1>7. (held \cup T) \ (n.applied \cup Tasks) \subseteq Airdrops
  BY <1>2, <1>3 DEF BodyMarks
<1> QED BY <1>1, <1>4, <1>5, <1>6, <1>7 DEF MarksOk

\* The transactions held by the first blocks,
LEMMA HeldSame ==
    ASSUME NEW ch, NEW c, NEW k \in Nat, \A i \in 1..k : c[i] = ch[i]
    PROVE  Held(c, k) = Held(ch, k)
BY DEF Held

\* and by one more.
LEMMA HeldMore ==
    ASSUME NEW c, NEW k \in Nat
    PROVE  Held(c, k + 1) = Held(c, k) \cup Range(c[k + 1].body)
<1>1. 1..(k + 1) = (1..k) \cup {k + 1}
  OBVIOUS
<1> QED BY <1>1 DEF Held

\* Writing the meta rows and recording the block, when the counters were not written
\* since they were read.
LEMMA SoundRecord ==
    ASSUME NEW j, NEW ch, NEW b, NEW m, NEW v \in Vers, NEW k, Sound(j, ch, b, m, v, k), j.step = "written", JobTyped(j, v),
           ChainTyped(ch, v), v[Counters] = j.read[Counters],
           NEW c, c = Append(ch, JobEntry(j)), NEW i, i.step = "idle"
    PROVE  Sound(i, c, b, j.out.meta, v, k)
<1>1. EntrySound(j, ch, v) /\ WrittenSound(j, b, v, k) /\ ChainSound(ch, v)
  BY DEF Sound
<1>2. PICK e : e = JobEntry(j)
  OBVIOUS
<1>3. e \in Entries /\ EntryTyped(e, v)
  BY <1>2, JobEntryTyped
<1>4. ChainTyped(c, v) /\ Len(c) = Len(ch) + 1 /\ Last(c) = e /\ c # <<>> /\ (\A x \in 1..Len(ch) : c[x] = ch[x]) /\ c[Len(ch) + 1] = e
  <2>1. c = Append(ch, e) /\ ChainTyped(ch, v)
    BY <1>2
  <2>2. Longer(c, ch, e, v)
    BY ONLY <2>1, <1>3, ChainAppend
  <2> QED BY <2>2 DEF Longer
<1>5. Len(ch) \in Nat
  BY DEF ChainTyped
<1>6. e.prep = j.prep /\ e.before.meta = j.before.meta /\ e.after.meta = j.out.meta /\ e.after.balances = j.out.bal
  BY <1>2 DEF JobEntry
<1>7. /\ EntryEffect(e) /\ UndoMatches(e, v) /\ (ch # <<>> => LinkOk(Last(ch), e, v))
      /\ MarksOk(e.before.meta, Len(ch), Held(ch, Len(ch))) /\ e.after.meta.height = Len(ch) + 1
  BY <1>1, <1>2, <1>6 DEF EntrySound
<1>8. ASSUME NEW x \in Nat, x <= Len(ch) PROVE Held(c, x) = Held(ch, x)
  <2>1. \A y \in 1..x : c[y] = ch[y]
    BY <1>4, <1>5, <1>8
  <2> QED BY <2>1, HeldSame
<1>9. ChainSound(c, v)
  <2>1. ASSUME NEW x \in 1..Len(c)
        PROVE EntryEffect(c[x]) /\ UndoMatches(c[x], v) /\ MarksOk(c[x].before.meta, x - 1, Held(c, x - 1))
    <3>1. CASE x = Len(ch) + 1
      <4>1. c[x] = e /\ x - 1 = Len(ch) /\ Held(c, x - 1) = Held(ch, Len(ch))
        BY <3>1, <1>4, <1>5, <1>8
      <4> QED BY <4>1, <1>7
    <3>2. CASE x \in 1..Len(ch)
      <4>1. c[x] = ch[x] /\ x - 1 \in Nat /\ x - 1 <= Len(ch)
        BY <3>2, <1>4, <1>5
      <4>2. Held(c, x - 1) = Held(ch, x - 1)
        BY <4>1, <1>8
      <4> QED BY <3>2, <4>1, <4>2, <1>1 DEF ChainSound
    <3> QED BY <3>1, <3>2, <1>4, <1>5
  <2>2. ASSUME NEW x \in 2..Len(c) PROVE LinkOk(c[x - 1], c[x], v)
    <3>1. CASE x = Len(ch) + 1
      <4>1. ch # <<>> /\ x - 1 \in 1..Len(ch) /\ x - 1 = Len(ch)
        BY <3>1, <1>4, <1>5
      <4>2. c[x - 1] = Last(ch) /\ c[x] = e
        BY <3>1, <4>1, <1>4 DEF Last
      <4> QED BY <4>1, <4>2, <1>7
    <3>2. CASE x \in 2..Len(ch)
      <4>1. c[x] = ch[x] /\ c[x - 1] = ch[x - 1]
        BY <3>2, <1>4, <1>5
      <4> QED BY <3>2, <4>1, <1>1 DEF ChainSound
    <3> QED BY <3>1, <3>2, <1>4, <1>5
  <2> QED BY <2>1, <2>2 DEF ChainSound
<1>10. MarksOk(j.out.meta, Len(c), Held(c, Len(c)))
  <2>1. MarksOk(e.after.meta, Len(ch) + 1, Held(ch, Len(ch)) \cup Range(e.body))
    BY <1>7, MarksAfter
  <2>2. Held(c, Len(ch) + 1) = Held(c, Len(ch)) \cup Range(e.body)
    BY <1>4, <1>5, HeldMore
  <2>3. Held(c, Len(ch)) = Held(ch, Len(ch))
    BY <1>5, <1>8
  <2> QED BY <2>1, <2>2, <2>3, <1>4, <1>6
<1>11. TopMeta(e, j.out.meta, v)
  BY <1>6, SameTrans DEF TopMeta
<1>12. TopRows(e, b, v)
  BY <1>1, <1>6 DEF TopRows, WrittenSound
<1>120. Whole(j.out.meta)
  BY <1>6, <1>7 DEF EntryEffect
<1>13. SettledSound(c, b, j.out.meta, v, k)
  BY <1>1, <1>4, <1>10, <1>11, <1>12, <1>120 DEF SettledSound, WrittenSound
<1> QED BY <1>9, <1>13 DEF Sound

\* The undo record brings back all markers: its sets cover what the block marked.
LEMMA UndoneBlock ==
    ASSUME NEW e \in Entries, NEW v, EntryTyped(e, v), EntryEffect(e), NEW m \in Goods, SameBlock(e.after.meta, m),
           NEW n, Undone(e.body, m, e.undo.meta, n)
    PROVE  SameBlock(e.before.meta, n)
<1>1. PICK p, q, u, T : p = e.before.meta /\ q = e.after.meta /\ u = e.undo.meta /\ T = Range(e.body)
  OBVIOUS
<1>2. BodyMarks(p, q, T) /\ RunDrops(p, q, T) /\ SameBlock(u, p) /\ SameBlock(q, m)
  BY <1>1 DEF EntryEffect
<1>3. /\ p.height = u.height /\ p.applied = u.applied /\ p.tasks = u.tasks /\ p.done = u.done /\ p.registered = u.registered
      /\ p.airdrops = u.airdrops
      /\ m.applied = q.applied /\ m.tasks = q.tasks /\ m.done = q.done /\ m.registered = q.registered
      /\ m.airdrops = q.airdrops
  BY <1>2 DEF SameBlock, SameMarks
<1>4. n.height = p.height
  BY <1>1, <1>3 DEF Undone
<1>5. n.applied = p.applied
  BY <1>1, <1>2, <1>3 DEF Undone, RestoreSet, BodyMarks
<1>6. T \cap Tasks \subseteq UndoTasks(e.body) /\ DoneOf(T) \subseteq UndoTasks(e.body)
  BY <1>1 DEF UndoTasks, DoneOf, DoneBy
<1>7. n.tasks = p.tasks
  BY <1>1, <1>2, <1>3, <1>6 DEF Undone, RestoreSet, BodyMarks
<1>8. n.done = p.done
  BY <1>1, <1>2, <1>3, <1>6 DEF Undone, RestoreSet, BodyMarks
<1>9. n.registered = p.registered
  BY <1>1, <1>2, <1>3 DEF Undone, RestoreSet, BodyMarks
<1>10. n.airdrops = p.airdrops
  BY <1>1, <1>2, <1>3 DEF Undone, RunDrops
<1> QED BY <1>1, <1>4, <1>5, <1>7, <1>8, <1>9, <1>10 DEF SameBlock, SameMarks

\* The numbers of an unwind.
Unwinds(r, b, f, g, p, q, s, t, k) ==
    /\ r \in Nat /\ b \in Nat /\ f \in Nat /\ g \in Nat /\ p \in Nat /\ q \in Nat /\ s \in Nat /\ t \in Nat /\ k \in Nat
    /\ b + k = s /\ r - b = f - g /\ g - f = q - p /\ t - s = p - q

\* It leaves money and supply equal.
LEMMA UnwindLeaves ==
    ASSUME NEW r, NEW b, NEW f, NEW g, NEW p, NEW q, NEW s, NEW t, NEW k, Unwinds(r, b, f, g, p, q, s, t, k)
    PROVE  r + k = t
BY DEF Unwinds

\* Writing the meta rows back.
LEMMA SoundUnwind ==
    ASSUME NEW j, NEW ch, NEW b \in Bal, NEW m \in Goods, NEW v \in Vers, NEW k \in Nat, Sound(j, ch, b, m, v, k),
           j.step = "idle", ChainTyped(ch, v), ch # <<>>, NEW e, e = Last(ch),
           NEW n, Undone(e.body, m, e.undo.meta, n),
           UndoCounters(e.body) => v[Counters] = e.prep[Counters],
           NEW i, i.step = "unwinding"
    PROVE  Sound(i, ch, b, n, v, k)
<1>1. ChainSound(ch, v) /\ SettledSound(ch, b, m, v, k)
  BY DEF Sound
<1>2. e \in Entries /\ EntryTyped(e, v) /\ e = ch[Len(ch)] /\ Len(ch) \in 1..Len(ch)
  BY ChainFront
<1>3. EntryEffect(e) /\ UndoMatches(e, v)
  BY <1>1, <1>2 DEF ChainSound
<1>4. TopMeta(e, m, v) /\ TopRows(e, b, v) /\ SumFunction(b) + k = m.supply /\ Whole(m)
  BY <1>1 DEF SettledSound
<1>5. SameBlock(e.before.meta, n)
  BY <1>2, <1>3, <1>4, UndoneBlock DEF TopMeta
<1>6. ~UndoCounters(e.body) => SameCounts(e.before.meta, e.after.meta)
  BY <1>3 DEF EntryEffect, RunCounts, UndoCounters
<1>7. ASSUME v[Counters] = e.prep[Counters] PROVE SameCounts(e.before.meta, n)
  <2>1. SameCounts(e.undo.meta, e.before.meta) /\ SameCounts(e.after.meta, m)
    BY <1>3, <1>4, <1>7 DEF UndoMatches, TopMeta
  <2>2. CASE UndoCounters(e.body)
    <3>1. SameCounts(e.undo.meta, n)
      BY <2>2 DEF Undone
    <3> QED BY <2>1, <3>1, SameTrans
  <2>3. CASE ~UndoCounters(e.body)
    <3>1. SameCounts(m, n) /\ SameCounts(e.before.meta, e.after.meta)
      BY <2>3, <1>6 DEF Undone
    <3> QED BY <2>1, <3>1, SameTrans
  <2> QED BY <2>2, <2>3
<1>8. ASSUME \A a \in UndoRows(e.body) : v[a] = e.prep[a] PROVE SumFunction(Rewind(e, b)) + k = n.supply /\ Whole(n)
  <2>1. PICK r, f, g : r = Rewind(e, b) /\ f = e.before.balances /\ g = e.after.balances
    OBVIOUS
  <2>2. Rewound(e, b, r)
    BY <1>2, <2>1, RewindIs
  <2>3. UndoRows(e.body) \subseteq Accounts /\ f \in Bal /\ g \in Bal /\ r \in Bal /\ e.before.meta \in Goods /\ e.after.meta \in Goods
    BY <1>2, <2>1, <2>2, EntryIs DEF Rewound
  <2>4. ASSUME NEW a \in Accounts PROVE (r[a] = b[a] /\ f[a] = g[a]) \/ (r[a] = f[a] /\ b[a] = g[a])
    <3>1. CASE a \in UndoRows(e.body)
      <4>1. v[a] = e.prep[a]
        BY <3>1, <1>8
      <4>2. e.undo.balances[a] = f[a] /\ b[a] = g[a]
        BY <3>1, <4>1, <2>1, <1>3, <1>4 DEF UndoMatches, TopRows
      <4> QED BY <3>1, <4>2, <2>2 DEF Rewound
    <3>2. CASE a \notin UndoRows(e.body)
      BY <3>2, <2>1, <2>2, <1>3 DEF Rewound, EntryEffect
    <3> QED BY <3>1, <3>2
  <2>5. BalMoves(b, r, g, f)
    BY <2>3, <2>4 DEF BalMoves
  <2>6. SumFunction(r) - SumFunction(b) = SumFunction(f) - SumFunction(g)
    BY <2>5, BalsMove
  <2>7. SumFunction(g) - SumFunction(f) = e.after.meta.supply - e.before.meta.supply
    BY <2>1, <1>3 DEF EntryEffect
  <2>8. SumFunction(r) \in Nat /\ SumFunction(b) \in Nat /\ SumFunction(f) \in Nat /\ SumFunction(g) \in Nat
        /\ e.after.meta.supply \in Nat /\ e.before.meta.supply \in Nat /\ m.supply \in Nat
    BY <2>3, BalSum, MetaShape DEF Goods
  <2>9. n.supply - m.supply = e.before.meta.supply - e.after.meta.supply /\ n.supply \in Nat
    <3>1. CASE UndoCounters(e.body)
      <4>1. SameCounts(e.before.meta, n) /\ SameCounts(e.after.meta, m)
        BY <3>1, <1>4, <1>7 DEF TopMeta
      <4>2. n.supply = e.before.meta.supply /\ m.supply = e.after.meta.supply
        BY <4>1 DEF SameCounts
      <4> QED BY <4>2, <2>8
    <3>2. CASE ~UndoCounters(e.body)
      <4>1. SameCounts(m, n) /\ SameCounts(e.before.meta, e.after.meta)
        BY <3>2, <1>6 DEF Undone
      <4>2. n.supply = m.supply /\ e.after.meta.supply = e.before.meta.supply
        BY <4>1 DEF SameCounts
      <4> QED BY <4>2, <2>8
    <3> QED BY <3>1, <3>2
  <2>10. SumFunction(r) + k = n.supply
    <3>1. Unwinds(SumFunction(r), SumFunction(b), SumFunction(f), SumFunction(g), e.before.meta.supply, e.after.meta.supply,
                  m.supply, n.supply, k)
      BY <1>4, <2>6, <2>7, <2>8, <2>9 DEF Unwinds
    <3> QED BY ONLY <3>1, UnwindLeaves
  <2>11. Whole(n)
    <3>1. CASE UndoCounters(e.body)
      <4>1. SameCounts(e.before.meta, n)
        BY <3>1, <1>7
      <4> QED BY <4>1, <1>3 DEF SameCounts, Whole, EntryEffect
    <3>2. CASE ~UndoCounters(e.body)
      <4>1. SameCounts(m, n)
        BY <3>2 DEF Undone
      <4> QED BY <4>1, <1>4 DEF SameCounts, Whole
    <3> QED BY <3>1, <3>2
  <2> QED BY <2>1, <2>10, <2>11
<1>9. UnwindingSound(e, b, n, v, k)
  BY <1>4, <1>5, <1>7, <1>8 DEF UnwindingSound
<1> QED BY <1>1, <1>9 DEF Sound

\* Writing the balances back restores what the block found.
LEMMA RewoundRows ==
    ASSUME NEW e \in Entries, NEW v \in Vers, EntryTyped(e, v), EntryEffect(e), UndoMatches(e, v),
           NEW b, TopRows(e, b, v), \A a \in UndoRows(e.body) : v[a] = e.prep[a], NEW c, Rewound(e, b, c)
    PROVE  \A a \in Accounts : v[a] = e.prep[a] => c[a] = e.before.balances[a]
<1>1. ASSUME NEW a \in Accounts, v[a] = e.prep[a] PROVE c[a] = e.before.balances[a]
  <2>1. CASE a \in UndoRows(e.body)
    BY <1>1, <2>1 DEF Rewound, UndoMatches
  <2>2. CASE a \notin UndoRows(e.body)
    BY <1>1, <2>2 DEF Rewound, TopRows, EntryEffect
  <2> QED BY <2>1, <2>2
<1> QED BY <1>1

\* It leaves the chain without its last block, sound.
LEMMA SoundUnwound ==
    ASSUME NEW j, NEW ch, NEW b \in Bal, NEW m \in Goods, NEW v \in Vers, NEW k \in Nat, Sound(j, ch, b, m, v, k),
           j.step = "unwinding", ChainTyped(ch, v), ch # <<>>, NEW e, e = Last(ch),
           NEW c, Rewound(e, b, c), \A a \in UndoRows(e.body) : v[a] = e.prep[a],
           NEW d, d = Front(ch), NEW i, i.step = "idle"
    PROVE  Sound(i, d, c, m, v, k)
<1>1. ChainSound(ch, v) /\ UnwindingSound(e, b, m, v, k)
  BY DEF Sound
<1>2. /\ ChainTyped(d, v) /\ Len(ch) \in Nat /\ Len(ch) >= 1 /\ Len(d) = Len(ch) - 1 /\ e = ch[Len(ch)]
      /\ e \in Entries /\ EntryTyped(e, v) /\ \A x \in 1..Len(d) : d[x] = ch[x]
  BY ChainFront
<1>3. EntryEffect(e) /\ UndoMatches(e, v) /\ MarksOk(e.before.meta, Len(ch) - 1, Held(ch, Len(ch) - 1))
  BY <1>1, <1>2 DEF ChainSound
<1>4. ASSUME NEW x \in Nat, x <= Len(d) PROVE Held(d, x) = Held(ch, x)
  <2>1. \A y \in 1..x : d[y] = ch[y]
    BY <1>2, <1>4
  <2> QED BY <2>1, HeldSame
<1>5. ChainSound(d, v)
  <2>1. ASSUME NEW x \in 1..Len(d)
        PROVE EntryEffect(d[x]) /\ UndoMatches(d[x], v) /\ MarksOk(d[x].before.meta, x - 1, Held(d, x - 1))
    <3>1. x \in 1..Len(ch) /\ d[x] = ch[x] /\ x - 1 \in Nat /\ x - 1 <= Len(d)
      BY <1>2
    <3>2. Held(d, x - 1) = Held(ch, x - 1)
      BY <3>1, <1>4
    <3> QED BY <3>1, <3>2, <1>1 DEF ChainSound
  <2>2. ASSUME NEW x \in 2..Len(d) PROVE LinkOk(d[x - 1], d[x], v)
    <3>1. x \in 2..Len(ch) /\ x - 1 \in 1..Len(d) /\ x \in 1..Len(d)
      BY <1>2
    <3> QED BY <3>1, <1>1, <1>2 DEF ChainSound
  <2> QED BY <2>1, <2>2 DEF ChainSound
<1>6. SameBlock(e.before.meta, m) /\ (v[Counters] = e.prep[Counters] => SameCounts(e.before.meta, m)) /\ TopRows(e, b, v)
      /\ SumFunction(Rewind(e, b)) + k = m.supply /\ Whole(m)
  BY <1>1 DEF UnwindingSound
<1>7. c = Rewind(e, b)
  <2>1. Rewound(e, b, Rewind(e, b))
    BY <1>2, RewindIs
  <2> QED BY <2>1 DEF Rewound, Bal
<1>8. \A a \in Accounts : v[a] = e.prep[a] => c[a] = e.before.balances[a]
  BY <1>2, <1>3, <1>6, RewoundRows
<1>9. MarksOk(m, Len(d), Held(d, Len(d)))
  <2>1. MarksOk(m, Len(ch) - 1, Held(ch, Len(ch) - 1))
    BY <1>3, <1>6, MarksOn
  <2>2. Len(d) \in Nat /\ Len(d) <= Len(d)
    BY <1>2
  <2>3. Held(d, Len(d)) = Held(ch, Len(d))
    BY <2>2, <1>4
  <2> QED BY <2>1, <2>3, <1>2
<1>10. ASSUME d # <<>> PROVE TopMeta(Last(d), m, v) /\ TopRows(Last(d), c, v)
  <2>1. PICK t : t = Last(d)
    OBVIOUS
  <2>2. t = d[Len(d)] /\ Len(d) >= 1 /\ t \in Entries /\ EntryTyped(t, v)
    BY <2>1, <1>2, <1>10, ChainFront
  <2>3. LinkOk(t, e, v)
    <3>1. Len(ch) \in 2..Len(ch) /\ Len(ch) - 1 = Len(d) /\ Len(d) \in 1..Len(d)
      BY <1>2, <2>2
    <3>2. LinkOk(ch[Len(ch) - 1], ch[Len(ch)], v)
      BY <3>1, <1>1 DEF ChainSound
    <3> QED BY <3>1, <3>2, <2>2, <1>2
  <2>4. t.prep \in Vers /\ Below(t.prep, e.prep) /\ e.prep \in Vers /\ Below(e.prep, v)
    BY <1>2, <2>2, <2>3, EntryIs DEF LinkOk
  <2>5. \A r \in Rows : v[r] = t.prep[r] => v[r] = e.prep[r]
    BY <2>4, BetweenSame
  <2>6. TopMeta(t, m, v)
    <3>1. SameBlock(t.after.meta, m)
      BY <1>6, <2>3, SameTrans DEF LinkOk
    <3>2. ASSUME v[Counters] = t.prep[Counters] PROVE SameCounts(t.after.meta, m)
      <4>1. v[Counters] = e.prep[Counters]
        BY <3>2, <2>5, RowIs
      <4>2. SameCounts(t.after.meta, e.before.meta) /\ SameCounts(e.before.meta, m)
        BY <3>2, <4>1, <1>6, <2>3 DEF LinkOk
      <4> QED BY <4>2, SameTrans
    <3> QED BY <3>1, <3>2 DEF TopMeta
  <2>7. TopRows(t, c, v)
    <3>1. ASSUME NEW a \in Accounts, v[a] = t.prep[a] PROVE c[a] = t.after.balances[a]
      <4>1. v[a] = e.prep[a]
        BY <3>1, <2>5, RowIs
      <4> QED BY <3>1, <4>1, <1>8, <2>3 DEF LinkOk
    <3> QED BY <3>1 DEF TopRows
  <2> QED BY <2>1, <2>6, <2>7
<1>11. SettledSound(d, c, m, v, k)
  BY <1>6, <1>7, <1>9, <1>10 DEF SettledSound
<1> QED BY <1>5, <1>11 DEF Sound

-----------------------------------------------------------------------------
(* Every action keeps it.                                                    *)

\* The inductive invariant: types, and unless a block overwrote a row that a REST
\* operation had written, the rest.
SoundNow == Sound(job, chain, balances, meta, version, Locked)
Safe == SetTypes /\ (~raced => SoundNow)

\* The types of the ledger, the chain and the job.
LEMMA NowIs ==
    ASSUME SetTypes
    PROVE  /\ balances \in Bal /\ meta \in Goods /\ version \in Vers /\ Locked \in Nat /\ vest \in [Users -> Nat]
           /\ JobTyped(job, version) /\ ChainTyped(chain, version) /\ Fresh(job, balances, meta, version)
           /\ Len(chain) \in Nat /\ raced \in BOOLEAN
<1>1. stake \in Purse /\ bond \in Purse /\ court \in Purse
  BY DEF SetTypes, LedgerTypes
<1>2. SumFunction(stake) \in Nat /\ SumFunction(bond) \in Nat /\ SumFunction(court) \in Nat
  BY <1>1, PurseSum
<1>3. Locked \in Nat
  BY <1>2 DEF Locked
<1>4. Len(chain) \in Nat
  BY DEF SetTypes, ChainTyped
<1> QED BY <1>3, <1>4 DEF SetTypes, LedgerTypes, Purse

\* Blocks leave the locked money alone.
LEMMA LockedSame == ASSUME UNCHANGED outside PROVE Locked' = Locked
BY DEF outside, Locked

\* Rows that did not change have their versions.
LEMMA NotChanged ==
    ASSUME NEW rows, NEW since, ~Changed(rows, since)
    PROVE  \A r \in rows : version[r] = since[r]
BY DEF Changed

\* REST operations keep the invariant.
LEMMA SafeRest ==
    ASSUME Safe, RestStep
    PROVE  Safe'
<1>1. SetTypes
  BY DEF Safe
<1>2. SetTypes'
  BY <1>1, RestTypes
<1>3. ASSUME ~raced' PROVE SoundNow'
  <2>1. /\ chain' = chain /\ job' = job /\ ~raced
        /\ Grown(version, version', balances, balances', meta, meta')
        /\ \E x : /\ Burned(x, Locked, Locked', balances, balances', version, version', meta.supply, meta'.supply)
                  /\ meta'.burned = meta.burned + x
    BY <1>3 DEF RestStep
  <2>2. PICK v, w, b, c, m, n, k, l, j, ch :
            /\ v = version /\ w = version' /\ b = balances /\ c = balances' /\ m = meta /\ n = meta'
            /\ k = Locked /\ l = Locked' /\ j = job /\ ch = chain
    OBVIOUS
  <2>3. v \in Vers /\ b \in Bal /\ m \in Goods /\ k \in Nat /\ JobTyped(j, v) /\ ChainTyped(ch, v) /\ (j.step = "unwinding" => ch # <<>>)
    BY <1>1, <2>2, NowIs DEF SetTypes
  <2>4. w \in Vers /\ c \in Bal /\ n \in Goods
    BY <1>2, <2>2 DEF SetTypes, LedgerTypes
  <2>5. l \in Nat
    <3>1. stake' \in Purse /\ bond' \in Purse /\ court' \in Purse
      BY <1>2 DEF SetTypes, LedgerTypes
    <3>2. SumFunction(stake') \in Nat /\ SumFunction(bond') \in Nat /\ SumFunction(court') \in Nat
      BY <3>1, PurseSum
    <3> QED BY <3>2, <2>2 DEF Locked
  <2>6. Grown(v, w, b, c, m, n) /\ \E x : Burned(x, k, l, b, c, v, w, m.supply, n.supply) /\ n.burned = m.burned + x
    BY <2>1, <2>2
  <2>7. Below(v, w)
    BY <2>6 DEF Grown, Below
  <2>8. RestOf(v, w, b, c, m, n, k, l)
    BY <2>3, <2>4, <2>5, <2>6, <2>7 DEF RestOf
  <2>9. Sound(j, ch, b, m, v, k)
    BY <2>1, <2>2 DEF Safe, SoundNow
  <2>10. Sound(j, ch, c, n, w, l)
    BY <2>3, <2>8, <2>9, SoundOn
  <2>11. Sound(job', chain', balances', meta', version', Locked')
    BY <2>1, <2>2, <2>10
  <2> QED BY <2>11 DEF SoundNow
<1> QED BY <1>2, <1>3 DEF Safe

\* So does a step that changes only the job.
LEMMA QuietSafe ==
    ASSUME Safe, SetTypes', UNCHANGED <<trees, outside, chain, version, raced>>,
           ~raced => Sound(job', chain, balances, meta, version, Locked)
    PROVE  Safe'
<1>1. balances' = balances /\ meta' = meta /\ chain' = chain /\ version' = version /\ raced' = raced
  BY DEF trees
<1>2. Locked' = Locked
  BY LockedSame
<1>3. ~raced' => Sound(job', chain', balances', meta', version', Locked')
  BY <1>1, <1>2
<1> QED BY <1>3 DEF Safe, SoundNow

\* The preview.
LEMMA SafeStartBlock ==
    ASSUME Safe, NEW body \in Bodies, NEW mined \in BOOLEAN, StartBlock(body, mined)
    PROVE  Safe'
<1>1. SetTypes'
  BY TypesStartBlock DEF Safe
<1>2. /\ job = Idle /\ job'.step = "previewed" /\ UNCHANGED <<trees, outside, chain, version, raced>>
  BY DEF StartBlock
<1>3. job.step = "idle"
  BY <1>2 DEF Idle
<1>4. ~raced => Sound(job', chain, balances, meta, version, Locked)
  BY <1>2, <1>3, QuietSound DEF Safe, SoundNow
<1> QED BY <1>1, <1>2, <1>4, QuietSafe

\* Reading the undo record.
LEMMA SafePrepareUndo ==
    ASSUME Safe, PrepareUndo
    PROVE  Safe'
<1>1. SetTypes' /\ SetTypes
  BY TypesPrepareUndo DEF Safe
<1>2. PICK i, u : i = job' /\ u = UndoRecord(job.body)
  OBVIOUS
<1>3. /\ job.step = "previewed" /\ UNCHANGED <<trees, outside, chain, version, raced>>
      /\ i.step = "prepared" /\ i.body = job.body /\ i.undo = u /\ i.prep = version
  BY <1>2 DEF PrepareUndo
<1>4. balances \in Bal /\ meta \in Goods /\ version \in Vers /\ ChainTyped(chain, version) /\ job.body \in Bodies
  BY <1>1, <1>3, NowIs DEF JobTyped, Previewed
<1>5. u.meta = meta /\ \A a \in UndoRows(job.body) : u.balances[a] = balances[a]
  BY <1>2, <1>4, UndoIs
<1>6. ASSUME ~raced PROVE Sound(i, chain, balances, meta, version, Locked)
  <2>1. Sound(job, chain, balances, meta, version, Locked)
    BY <1>6 DEF Safe, SoundNow
  <2> QED BY <2>1, <1>3, <1>4, <1>5, SoundPrepare
<1> QED BY <1>1, <1>2, <1>3, <1>6, QuietSafe

\* Reading the ledger.
LEMMA SafeReadLedger ==
    ASSUME Safe, ReadLedger
    PROVE  Safe'
<1>1. SetTypes' /\ SetTypes
  BY TypesReadLedger DEF Safe
<1>2. PICK i, t : i = job' /\ t = Compute(job.body)
  OBVIOUS
<1>3. /\ job.step = "prepared" /\ t.ok /\ UNCHANGED <<trees, outside, chain, version, raced>>
      /\ i.step = "computed" /\ i.body = job.body /\ i.undo = job.undo /\ i.prep = job.prep /\ i.out = t /\ i.read = version
      /\ i.before = [balances |-> balances, meta |-> meta]
  BY <1>2 DEF ReadLedger
<1>4. /\ balances \in Bal /\ meta \in Goods /\ version \in Vers /\ ChainTyped(chain, version) /\ JobTyped(job, version)
      /\ Fresh(job, balances, meta, version) /\ Len(chain) \in Nat /\ vest \in [Users -> Nat] /\ Locked \in Nat
  BY <1>1, NowIs
<1>5. job.body \in Bodies /\ Range(job.body) \cap meta.applied = {}
  BY <1>3, <1>4 DEF JobTyped, Previewed, Fresh
<1>6. t \in St /\ EffectOk(job.body, balances, meta, t) /\ t.meta.height = Len(chain) + 1
  BY <1>2, <1>3, <1>4, <1>5, ComputeIs
<1>7. ASSUME ~raced PROVE Sound(i, chain, balances, meta, version, Locked)
  <2>1. Sound(job, chain, balances, meta, version, Locked)
    BY <1>7 DEF Safe, SoundNow
  <2>2. PICK j, ch, b, m, v, k : j = job /\ ch = chain /\ b = balances /\ m = meta /\ v = version /\ k = Locked
    OBVIOUS
  <2>3. Sound(j, ch, b, m, v, k) /\ b \in Bal /\ m \in Goods /\ v \in Vers /\ k \in Nat /\ j.step = "prepared"
        /\ JobTyped(j, v) /\ ChainTyped(ch, v) /\ Fresh(j, b, m, v)
    BY <2>1, <2>2, <1>3, <1>4
  <2>4. t \in St /\ EffectOk(j.body, b, m, t) /\ t.meta.height = Len(ch) + 1
    BY <2>2, <1>6
  <2>5. i.step = "computed" /\ i.body = j.body /\ i.undo = j.undo /\ i.prep = j.prep /\ i.out = t /\ i.read = v
        /\ i.before = [balances |-> b, meta |-> m]
    BY <2>2, <1>3
  <2>6. Sound(i, ch, b, m, v, k)
    BY ONLY <2>3, <2>4, <2>5, SoundRead
  <2> QED BY <2>2, <2>6
<1> QED BY <1>1, <1>2, <1>3, <1>7, QuietSafe

\* A refused apply.
LEMMA SafeApplyRefused ==
    ASSUME Safe, ApplyRefused
    PROVE  Safe'
<1>1. SetTypes'
  BY TypesApplyRefused DEF Safe
<1>2. job.step = "prepared" /\ job' = Idle /\ UNCHANGED <<trees, outside, chain, version, raced>>
  BY DEF ApplyRefused
<1>3. job'.step = "idle"
  BY <1>2 DEF Idle
<1>4. ~raced => Sound(job', chain, balances, meta, version, Locked)
  BY <1>2, <1>3, QuietSound DEF Safe, SoundNow
<1> QED BY <1>1, <1>2, <1>4, QuietSafe

\* Writing the balances.
LEMMA SafeWriteBalances ==
    ASSUME Safe, WriteBalances
    PROVE  Safe'
<1>1. SetTypes' /\ SetTypes
  BY TypesWriteBalances DEF Safe
<1>2. /\ job.step = "computed" /\ job.out \in St /\ balances' \in Bal
      /\ \A a \in Accounts : balances'[a] = IF a \in job.out.dirty THEN job.out.bal[a] ELSE balances[a]
  BY <1>1, WriteIs
<1>3. /\ job' = [job EXCEPT !.step = "written"] /\ meta' = meta /\ chain' = chain /\ version' = version /\ UNCHANGED outside
      /\ raced' = (raced \/ Changed(job.out.dirty, job.read))
  BY DEF WriteBalances
<1>4. ASSUME ~raced' PROVE SoundNow'
  <2>1. ~raced /\ \A a \in job.out.dirty : version[a] = job.read[a]
    BY <1>3, <1>4, NotChanged
  <2>2. PICK j, ch, b, m, v, k, c, i : /\ j = job /\ ch = chain /\ b = balances /\ m = meta /\ v = version /\ k = Locked
                                       /\ c = balances' /\ i = job'
    OBVIOUS
  <2>3. Sound(j, ch, b, m, v, k) /\ b \in Bal /\ m \in Goods /\ v \in Vers /\ k \in Nat /\ j.step = "computed" /\ JobTyped(j, v)
    BY <1>1, <1>2, <2>1, <2>2, NowIs DEF Safe, SoundNow
  <2>4. c \in Bal /\ \A a \in Accounts : c[a] = IF a \in j.out.dirty THEN j.out.bal[a] ELSE b[a]
    BY <1>2, <2>2
  <2>5. (\A a \in j.out.dirty : v[a] = j.read[a]) /\ i = [j EXCEPT !.step = "written"]
    BY <1>3, <2>1, <2>2
  <2>6. Sound(i, ch, c, m, v, k)
    BY ONLY <2>3, <2>4, <2>5, SoundWrite
  <2>7. Locked' = Locked
    BY <1>3, LockedSame
  <2> QED BY <1>3, <2>2, <2>6, <2>7 DEF SoundNow
<1> QED BY <1>1, <1>4 DEF Safe

\* Writing the meta rows, whether the block is recorded or not.
LEMMA SafeWriteMeta ==
    ASSUME Safe, WriteMeta
    PROVE  Safe'
<1>1. SetTypes' /\ SetTypes
  BY TypesWriteMeta DEF Safe
<1>2. /\ job.step = "written" /\ job' = Idle /\ meta' = job.out.meta /\ balances' = balances /\ version' = version /\ UNCHANGED outside
      /\ raced' = (raced \/ Changed({Counters}, job.read) \/ ~(job.mined \/ job.out.bal = job.root))
      /\ chain' = IF job.mined \/ job.out.bal = job.root THEN Append(chain, JobEntry(job)) ELSE chain
  BY DEF WriteMeta, JobEntry
<1>3. job'.step = "idle"
  BY <1>2 DEF Idle
<1>4. ASSUME ~raced' PROVE SoundNow'
  <2>1. ~raced /\ version[Counters] = job.read[Counters] /\ chain' = Append(chain, JobEntry(job))
    BY <1>2, <1>4, NotChanged
  <2>2. PICK j, ch, b, m, v, k, c, i : /\ j = job /\ ch = chain /\ b = balances /\ m = meta /\ v = version /\ k = Locked
                                       /\ c = chain' /\ i = job'
    OBVIOUS
  <2>3. Sound(j, ch, b, m, v, k) /\ v \in Vers /\ j.step = "written" /\ JobTyped(j, v) /\ ChainTyped(ch, v)
    BY <1>1, <1>2, <2>1, <2>2, NowIs DEF Safe, SoundNow
  <2>4. v[Counters] = j.read[Counters] /\ c = Append(ch, JobEntry(j)) /\ i.step = "idle"
    BY <1>3, <2>1, <2>2
  <2>5. Sound(i, c, b, j.out.meta, v, k)
    BY ONLY <2>3, <2>4, SoundRecord
  <2>6. Locked' = Locked
    BY <1>2, LockedSame
  <2> QED BY <1>2, <2>2, <2>5, <2>6 DEF SoundNow
<1> QED BY <1>1, <1>4 DEF Safe

\* Writing meta rows back.
LEMMA SafeUndoMeta ==
    ASSUME Safe, UndoMeta
    PROVE  Safe'
<1>1. SetTypes' /\ SetTypes
  BY TypesUndoMeta DEF Safe
<1>2. PICK e : e = Last(chain)
  OBVIOUS
<1>3. /\ job = Idle /\ job' = [step |-> "unwinding"] /\ chain # <<>> /\ meta' = RestoreMeta(e.body, e.undo.meta)
      /\ balances' = balances /\ chain' = chain /\ version' = version /\ UNCHANGED outside
      /\ raced' = (raced \/ (UndoCounters(e.body) /\ Changed({Counters}, e.prep)))
  BY <1>2 DEF UndoMeta
<1>4. job.step = "idle" /\ job'.step = "unwinding"
  BY <1>3 DEF Idle
<1>5. ASSUME ~raced' PROVE SoundNow'
  <2>1. ~raced /\ (UndoCounters(e.body) => version[Counters] = e.prep[Counters])
    BY <1>3, <1>5, NotChanged
  <2>2. PICK j, ch, b, m, v, k, n, i : /\ j = job /\ ch = chain /\ b = balances /\ m = meta /\ v = version /\ k = Locked
                                       /\ n = meta' /\ i = job'
    OBVIOUS
  <2>3. Sound(j, ch, b, m, v, k) /\ b \in Bal /\ m \in Goods /\ v \in Vers /\ k \in Nat /\ j.step = "idle"
        /\ ChainTyped(ch, v) /\ ch # <<>> /\ e = Last(ch)
    BY <1>1, <1>2, <1>3, <1>4, <2>1, <2>2, NowIs DEF Safe, SoundNow
  <2>4. e \in Entries /\ EntryTyped(e, v)
    BY <2>3, ChainFront
  <2>5. e.body \in Bodies /\ e.undo.meta \in Goods
    BY <2>4, EntryIs
  <2>6. Undone(e.body, m, e.undo.meta, n)
    BY <1>3, <2>2, <2>3, <2>5, UndoneIs
  <2>7. (UndoCounters(e.body) => v[Counters] = e.prep[Counters]) /\ i.step = "unwinding"
    BY <1>4, <2>1, <2>2
  <2>8. Sound(i, ch, b, n, v, k)
    BY ONLY <2>3, <2>6, <2>7, SoundUnwind
  <2>9. Locked' = Locked
    BY <1>3, LockedSame
  <2> QED BY <1>3, <2>2, <2>8, <2>9 DEF SoundNow
<1> QED BY <1>1, <1>5 DEF Safe

\* An unwind that overwrites nothing.
LEMMA UnwoundIs ==
    ASSUME Safe, UndoBalances, ~raced', NEW e, e = Last(chain)
    PROVE  /\ SoundNow /\ job.step = "unwinding" /\ chain # <<>> /\ e \in Entries /\ EntryTyped(e, version)
           /\ Rewound(e, balances, balances') /\ \A a \in UndoRows(e.body) : version[a] = e.prep[a]
<1>1. job.step = "unwinding" /\ balances' = Restored(e) /\ raced' = (raced \/ Changed(DOMAIN e.undo.balances, e.prep))
  BY DEF UndoBalances
<1>2. SetTypes /\ chain # <<>>
  BY <1>1 DEF Safe, SetTypes
<1>3. balances \in Bal /\ ChainTyped(chain, version)
  BY <1>2, NowIs
<1>4. e \in Entries /\ EntryTyped(e, version)
  BY <1>2, <1>3, ChainFront
<1>5. Rewound(e, balances, balances')
  BY <1>1, <1>3, <1>4, RestoredIs
<1>6. DOMAIN e.undo.balances = UndoRows(e.body)
  BY <1>4, EntryIs
<1>7. ~raced /\ \A a \in UndoRows(e.body) : version[a] = e.prep[a]
  BY <1>1, <1>6, NotChanged
<1> QED BY <1>1, <1>2, <1>4, <1>5, <1>7 DEF Safe

\* Writing balances back.
LEMMA SafeUndoBalances ==
    ASSUME Safe, UndoBalances
    PROVE  Safe'
<1>1. SetTypes' /\ SetTypes
  BY TypesUndoBalances DEF Safe
<1>2. PICK e : e = Last(chain)
  OBVIOUS
<1>3. job' = Idle /\ chain' = Front(chain) /\ meta' = meta /\ version' = version /\ UNCHANGED outside
  BY DEF UndoBalances
<1>4. job'.step = "idle"
  BY <1>3 DEF Idle
<1>5. ASSUME ~raced' PROVE SoundNow'
  <2>1. /\ SoundNow /\ job.step = "unwinding" /\ chain # <<>> /\ e \in Entries /\ EntryTyped(e, version)
        /\ Rewound(e, balances, balances') /\ \A a \in UndoRows(e.body) : version[a] = e.prep[a]
    BY <1>2, <1>5, UnwoundIs
  <2>2. PICK j, ch, b, m, v, k, c, d, i : /\ j = job /\ ch = chain /\ b = balances /\ m = meta /\ v = version /\ k = Locked
                                          /\ c = balances' /\ d = chain' /\ i = job'
    OBVIOUS
  <2>3. Sound(j, ch, b, m, v, k) /\ b \in Bal /\ m \in Goods /\ v \in Vers /\ k \in Nat /\ j.step = "unwinding"
        /\ ChainTyped(ch, v) /\ ch # <<>> /\ e = Last(ch)
    BY <1>1, <1>2, <2>1, <2>2, NowIs DEF SoundNow
  <2>4. Rewound(e, b, c) /\ (\A a \in UndoRows(e.body) : v[a] = e.prep[a]) /\ d = Front(ch) /\ i.step = "idle"
    BY <1>3, <1>4, <2>1, <2>2
  <2>5. Sound(i, d, c, m, v, k)
    BY ONLY <2>3, <2>4, SoundUnwound
  <2>6. Locked' = Locked
    BY <1>3, LockedSame
  <2> QED BY <1>3, <2>2, <2>5, <2>6 DEF SoundNow
<1> QED BY <1>1, <1>5 DEF Safe

-----------------------------------------------------------------------------
(* The theorems.                                                             *)

\* The ledger after genesis satisfies the invariant,
LEMMA SafeInit == Init => Safe
BY TypesStart, SoundStart DEF Safe, SoundNow

\* and every step keeps it.
LEMMA SafeNext == ASSUME Safe, [Next]_vars PROVE Safe'
<1>1. CASE UNCHANGED vars
  <2>1. UNCHANGED <<trees, outside, request, chain, job, version, raced>>
    BY <1>1 DEF vars
  <2>2. balances' = balances /\ meta' = meta /\ chain' = chain /\ job' = job /\ version' = version /\ raced' = raced
    BY <2>1 DEF trees
  <2>3. Locked' = Locked
    BY <2>1, LockedSame
  <2>4. LedgerTypes'
    <3>1. UNCHANGED <<outside, request, version>> /\ LedgerTypes /\ balances' \in Bal /\ meta' \in Goods
      BY <2>1, <2>2 DEF Safe, SetTypes, LedgerTypes
    <3> QED BY <3>1, LedgerOn
  <2>5. SetTypes'
    BY <2>2, <2>4 DEF Safe, SetTypes
  <2>6. ~raced' => Sound(job', chain', balances', meta', version', Locked')
    BY <2>2, <2>3 DEF Safe, SoundNow
  <2> QED BY <2>5, <2>6 DEF Safe, SoundNow
<1>2. CASE RestNext
  <2>1. LedgerTypes
    BY DEF Safe, SetTypes
  <2>2. RestStep
    BY <1>2, <2>1, RestIs
  <2> QED BY <2>2, SafeRest
<1>3. CASE BlockNext
  <2>1. ASSUME NEW body \in Bodies, NEW mined \in BOOLEAN, StartBlock(body, mined) PROVE Safe'
    BY <2>1, SafeStartBlock
  <2>2. CASE PrepareUndo
    BY <2>2, SafePrepareUndo
  <2>3. CASE ReadLedger
    BY <2>3, SafeReadLedger
  <2>4. CASE ApplyRefused
    BY <2>4, SafeApplyRefused
  <2>5. CASE WriteBalances
    BY <2>5, SafeWriteBalances
  <2>6. CASE WriteMeta
    BY <2>6, SafeWriteMeta
  <2>7. CASE UndoMeta
    BY <2>7, SafeUndoMeta
  <2>8. CASE UndoBalances
    BY <2>8, SafeUndoBalances
  <2> QED BY <1>3, <2>1, <2>2, <2>3, <2>4, <2>5, <2>6, <2>7, <2>8 DEF BlockNext
<1> QED BY <1>1, <1>2, <1>3 DEF Next

\* It implies what is claimed of the money,
LEMMA SafeMoney == Safe => MoneySound
<1> SUFFICES ASSUME Safe PROVE MoneySound
  OBVIOUS
<1>1. SetTypes
  BY DEF Safe
<1>2. meta \in Metas /\ Burnt(meta)
  BY <1>1 DEF SetTypes, LedgerTypes, Goods
<1>3. TypeOK
  BY <1>1, <1>2 DEF SetTypes, LedgerTypes, TypeOK, Bal, Purse
<1>4. BurnAccounted
  <2>1. meta.supply = Monus(GenesisSupply, meta.burned)
    BY <1>2 DEF Burnt
  <2>2. ASSUME Settled, ~raced PROVE meta.supply + meta.burned = GenesisSupply
    BY <2>2 DEF Settled, Safe, SoundNow, Sound, SettledSound, Whole
  <2> QED BY <2>1, <2>2 DEF BurnAccounted
<1>5. ASSUME Settled, ~raced PROVE Money = meta.supply
  <2>1. SettledSound(chain, balances, meta, version, Locked)
    BY <1>5 DEF Settled, Safe, SoundNow, Sound
  <2>2. SumFunction(balances) + Locked = meta.supply
    BY <2>1 DEF SettledSound
  <2>3. stake \in Purse /\ bond \in Purse /\ court \in Purse /\ balances \in Bal
    BY <1>1 DEF SetTypes, LedgerTypes
  <2>4. SumFunction(stake) \in Nat /\ SumFunction(bond) \in Nat /\ SumFunction(court) \in Nat /\ SumFunction(balances) \in Nat
    BY <2>3, PurseSum, BalSum
  <2> QED BY <2>2, <2>4 DEF Money, Locked
<1> QED BY <1>3, <1>4, <1>5 DEF MoneySound, Conserved

\* of the preview,
LEMMA SafePreview == Safe => PreviewMatchesApply
<1> SUFFICES ASSUME Safe, job.step = "computed", job.out.bal # job.root
             PROVE  \E a \in Accounts : job.read[a] # job.seen[a]
  BY DEF PreviewMatchesApply
<1> QED BY DEF Safe, SetTypes, JobTyped, Computed

\* and of the markers.
LEMMA SafeMarkers == Safe => MarkersMatchChain
<1> SUFFICES ASSUME Safe, job = Idle, ~raced PROVE MarkersMatchChain
  BY DEF MarkersMatchChain
<1>1. job.step = "idle"
  BY DEF Idle
<1>2. MarksOk(meta, Len(chain), Held(chain, Len(chain)))
  BY <1>1 DEF Safe, SoundNow, Sound, SettledSound
<1>3. DOMAIN chain = 1..Len(chain)
  BY DEF Safe, SetTypes, ChainTyped
<1>4. UNION {Range(chain[i].body) : i \in DOMAIN chain} = Held(chain, Len(chain))
  BY <1>3 DEF Held
<1> QED BY <1>2, <1>4 DEF MarkersMatchChain, MarksOk, FewDrops

\* Equal markers and counters are an equal meta tree.
LEMMA MetaSame ==
    ASSUME NEW m \in Metas, NEW n \in Metas, SameBlock(m, n), SameCounts(m, n)
    PROVE  n = m
BY DEF Metas, SameBlock, SameMarks, SameCounts

\* An unwind restores every row that no REST operation wrote since the undo record was
\* read.
LEMMA SafeUndo ==
    ASSUME Safe, UndoBalances, ~raced', NEW e, e = Last(chain)
    PROVE  /\ \A a \in Accounts : version[a] = e.prep[a] => balances'[a] = e.before.balances[a]
           /\ version[Counters] = e.prep[Counters] => meta = e.before.meta
<1>1. /\ SoundNow /\ job.step = "unwinding" /\ chain # <<>> /\ e \in Entries /\ EntryTyped(e, version)
      /\ Rewound(e, balances, balances') /\ \A a \in UndoRows(e.body) : version[a] = e.prep[a]
  BY UnwoundIs
<1>2. ChainSound(chain, version) /\ UnwindingSound(e, balances, meta, version, Locked)
  BY <1>1 DEF SoundNow, Sound
<1>3. meta \in Goods /\ version \in Vers /\ ChainTyped(chain, version)
  BY NowIs DEF Safe
<1>4. Len(chain) \in Nat /\ Len(chain) >= 1 /\ e = chain[Len(chain)]
  BY <1>1, <1>3, ChainFront
<1>5. EntryEffect(e) /\ UndoMatches(e, version)
  BY <1>2, <1>4 DEF ChainSound
<1>6. \A a \in Accounts : version[a] = e.prep[a] => balances'[a] = e.before.balances[a]
  BY <1>1, <1>2, <1>3, <1>5, RewoundRows DEF UnwindingSound
<1>7. ASSUME version[Counters] = e.prep[Counters] PROVE meta = e.before.meta
  <2>1. SameBlock(e.before.meta, meta) /\ SameCounts(e.before.meta, meta)
    BY <1>2, <1>7 DEF UnwindingSound
  <2>2. e.before.meta \in Goods
    BY <1>1, EntryIs
  <2> QED BY <2>1, <2>2, <1>3, MetaSame DEF Goods
<1> QED BY <1>6, <1>7

\* The invariant holds in every state.
LEMMA AlwaysSafe == Spec => []Safe
BY SafeInit, SafeNext, PTL DEF Spec

\* Whatever blocks are applied and unwound and whatever REST handlers do between their
\* steps: no balance, stake, bond or counter is negative, the wallets, stakes and bonds
\* hold the total supply, and what is missing of it was burned, as long as
\* apply_consensus_block_batch overwrote no row that a handler had written since it read
\* the ledger.
THEOREM MoneyIsSound == Spec => []MoneySound
BY AlwaysSafe, SafeMoney, PTL

\* The state root that compute_state_root_after_remote_block puts into a block is the one
\* apply_consensus_block_batch computes, unless a REST handler wrote a balance in
\* between.
THEOREM PreviewIsApplied == Spec => []PreviewMatchesApply
BY AlwaysSafe, SafePreview, PTL

\* Transaction markers, AI tasks, the recipient counter and the height stand for the
\* blocks recorded, after every sequence of apply_consensus_block_batch and
\* apply_block_undo.
THEOREM MarkersAreTheChains == Spec => []MarkersMatchChain
BY AlwaysSafe, SafeMarkers, PTL

\* apply_block_undo restores every row of both trees to what it was before the block,
\* except rows that REST handlers wrote since: what prepare_block_undo saves, from the
\* transactions alone, covers all that the apply writes.
THEOREM UndoExact == Spec => UndoIsExact
<1> DEFINE Exact ==
      UndoBalances /\ ~raced' =>
         LET b == Last(chain)
         IN  /\ \A a \in Accounts :
                   version[a] = b.prep[a] => balances'[a] = b.before.balances[a]
             /\ version[Counters] = b.prep[Counters] => meta = b.before.meta
<1>1. Safe /\ [Next]_vars => [Exact]_vars
  BY SafeUndo
<1>2. Spec => [][Exact]_vars
  <2> HIDE DEF Exact
  <2> QED BY <1>1, AlwaysSafe, PTL DEF Spec
<1> QED BY <1>2 DEF UndoIsExact
================================================================================
