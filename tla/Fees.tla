--------------------------------- MODULE Fees ---------------------------------
(***************************************************************************)
(* fees.rs: the schedules every protocol fee resolves through.  charge is  *)
(* pure: an amount and a kind in, four parts out.  The caller maps the     *)
(* parts to accounts.                                                      *)
(***************************************************************************)
EXTENDS Integers

CONSTANT MaxSupply      \* MAX_CHARGE_MICRO, tied to MAX_SUPPLY_MICRO

ASSUME FeesAssumption == MaxSupply \in Nat

BPS_DENOM == 10000
TRANSFER_FEE_BPS_MIN == 100
TRANSFER_FEE_BPS_MAX == 1000
NETWORK_FEE_BPS == 2000
BURN_FRACTION_OF_NETWORK_FEE_BPS == 2500
AI_INFERENCE_POOL_BPS == 5000
FILE_FEE_MICRO == 1000
FILE_SPLIT_TREASURY_BPS == 2500
FILE_SPLIT_STORAGE_BPS == 5000

\* The kinds of fee; only a transfer carries its own rate.
Transfer(bps) == [tag |-> "transfer", bps |-> bps]
AiUtility == [tag |-> "ai_utility", bps |-> NETWORK_FEE_BPS]
AiInference == [tag |-> "ai_inference", bps |-> AI_INFERENCE_POOL_BPS]
File == [tag |-> "file", bps |-> FILE_SPLIT_STORAGE_BPS]

FeeKinds == {Transfer(bps) : bps \in Nat} \cup {AiUtility, AiInference, File}

\* The product is taken in u128, so it is exact; the quotient rounds down.
BpsOf(amount, bps) == (amount * bps) \div BPS_DENOM

\* charge returns a split, not an error.
Chargeable(kind, amount) ==
    /\ amount <= MaxSupply
    /\ kind.tag = "transfer" => kind.bps \in TRANSFER_FEE_BPS_MIN..TRANSFER_FEE_BPS_MAX

Split(net, pool, treasury, burn) ==
    [net |-> net, pool |-> pool, treasury |-> treasury, burn |-> burn]

\* Mutant: the odd unit of a transfer fee goes nowhere.
ChargeHalves(kind, amount) ==
    LET fee == BpsOf(amount, kind.bps)
    IN  CASE kind.tag = "transfer" -> Split(amount - fee, fee \div 2, 0, fee \div 2)
          [] kind.tag = "ai_utility" ->
                LET burn == BpsOf(fee, BURN_FRACTION_OF_NETWORK_FEE_BPS)
                IN  Split(amount - fee, 0, fee - burn, burn)
          [] kind.tag = "ai_inference" -> Split(0, fee, 0, amount - fee)
          [] kind.tag = "file" ->
                LET treasury == BpsOf(amount, FILE_SPLIT_TREASURY_BPS)
                IN  Split(fee, 0, treasury, amount - fee - treasury)

\* Burn, or the treasury for AI utility, takes what the division leaves.
Charge(kind, amount) ==
    LET part == BpsOf(amount, kind.bps)
    IN  CASE kind.tag = "transfer" ->
                Split(amount - part, part \div 2, 0, part - part \div 2)
          [] kind.tag = "ai_utility" ->
                LET burn == BpsOf(part, BURN_FRACTION_OF_NETWORK_FEE_BPS)
                IN  Split(amount - part, 0, part - burn, burn)
          [] kind.tag = "ai_inference" -> Split(0, part, 0, amount - part)
          [] kind.tag = "file" ->
                LET treasury == BpsOf(amount, FILE_SPLIT_TREASURY_BPS)
                IN  Split(part, 0, treasury, amount - part - treasury)

FeeMicro(split) == split.pool + split.treasury + split.burn
===============================================================================
