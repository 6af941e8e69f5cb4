----------------------------- MODULE MCSettlement -----------------------------
(* An instance of Settlement: a client and a worker, one transaction of    *)
(* each kind, amounts that leave a remainder in every split.               *)
EXTENDS Settlement

CONSTANTS u, w

pay == [kind |-> "transfer", from |-> u, to |-> w, amount |-> 199, bps |-> 260]
drop == [kind |-> "airdrop", wallet |-> w]
file == [kind |-> "file_fee", from |-> u, storage |-> w]
stored == [kind |-> "file_fee", from |-> u, storage |-> None]
join == [kind |-> "register", wallet |-> w]
ask == [kind |-> "inference", id |-> 1]
prove == [kind |-> "proof", task |-> ask]

MCTxs == {pay, drop, file, stored, join, ask, prove}
MCBodies == {<<>>, <<pay>>, <<drop, pay>>, <<file, join>>, <<stored>>, <<ask>>, <<prove>>}
MCGenesis == [a \in Accounts |->
                CASE a = u -> 1300 [] a = w -> 101 [] a = Pool -> 400 [] a = Dex -> 101
                  [] a \notin {u, w, Pool, Dex} -> 0]
===============================================================================
