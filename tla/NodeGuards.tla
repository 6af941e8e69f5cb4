------------------------------- MODULE NodeGuards -------------------------------
(***************************************************************************)
(* What keeps a public node up: the gate in front of its REST API, with a  *)
(* token bucket per client and a daily upload budget                       *)
(* (tet-core/src/rest/public_api.rs), and the beacon of the block swarm's  *)
(* event loop with the watchdog that reads it (swarm_health.rs).  Two      *)
(* locks, one for the buckets and one for the budgets; a request reads the *)
(* day between them.                                                       *)
(***************************************************************************)
EXTENDS Naturals, FiniteSets, FiniteSetsExt

CONSTANTS
    Client,         \* addresses, as client_key makes them
    Rate, BurstSize,\* tokens per tick and at most, of one class of requests
    MaxClients, IdleDrop,   \* Limits::max_clients; ticks after which a bucket may be dropped
    UploadSizes, UploadCap, DayTicks,
    StallAfter, ExitAfter,  \* TET_SWARM_STALL_MS, TET_SWARM_EXIT_AFTER_MS, in ticks; 0: never exit
    MaxGuardTime, MaxGuardRestarts, MaxRequests     \* bounds

Overflow == "overflow"

ASSUME NodeGuardsAssumption ==
    /\ IsFiniteSet(Client) /\ Overflow \notin Client
    /\ Rate \in Nat /\ BurstSize \in Nat /\ MaxClients \in Nat /\ IdleDrop \in Nat /\ UploadCap \in Nat
    /\ StallAfter \in Nat /\ ExitAfter \in Nat
    /\ MaxGuardTime \in Nat /\ MaxGuardRestarts \in Nat /\ MaxRequests \in Nat
    /\ UploadSizes \subseteq Nat /\ DayTicks \in Nat \ {0}
    \* "idle long enough to be full again"
    /\ Rate * IdleDrop >= BurstSize

VARIABLES
    gclock,
    buckets,    \* PublicGate::buckets: [key -> [tokens, at]] over the keys it holds
    budgets,    \* PublicGate::uploads: [client -> [day, used]]
    uploading,  \* uploads past the token, with the day they read
    beacon,     \* SwarmHealth: [started, last]
    loop,       \* the swarm loop: "boot", "live" or "wedged" (external: what wedges it)
    guardHist   \* history: tokens granted by key, bytes charged by client and day, late charges, restarts

guardVars == <<gclock, buckets, budgets, uploading, beacon, loop, guardHist>>

(***************************************************************************)
(* The public gate                                                         *)
(***************************************************************************)
\* Mutant: every bucket goes when the map is full.
DropAll(b) == [k \in {} |-> b[k]]
DropIdle(b) == [k \in {c \in DOMAIN b : gclock < b[c].at + IdleDrop} |-> b[k]]
MakeRoom(b, c) == IF c \notin DOMAIN b /\ Cardinality(DOMAIN b) >= MaxClients THEN DropIdle(b) ELSE b
KeyFor(b, c) == IF c \notin DOMAIN b /\ Cardinality(DOMAIN b) >= MaxClients THEN Overflow ELSE c
\* Bucket::take
Refilled(bucket) == Min({bucket.tokens + (gclock - bucket.at) * Rate, BurstSize})
Taken(bucket) == [tokens |-> IF Refilled(bucket) >= 1 THEN Refilled(bucket) - 1 ELSE Refilled(bucket), at |-> gclock]

\* public_api_gate up to its answer, or up to the charge if the request is an upload.
Request(c, size) ==
    /\ guardHist.requests < MaxRequests
    /\ LET room == MakeRoom(buckets, c)
           k == KeyFor(room, c)
           bucket == IF k \in DOMAIN room THEN room[k] ELSE [tokens |-> BurstSize, at |-> gclock]
           allowed == Refilled(bucket) >= 1
       IN  /\ buckets' = [key \in DOMAIN room \cup {k} |-> IF key = k THEN Taken(bucket) ELSE room[key]]
           /\ uploading' = IF allowed /\ size > 0 THEN uploading \cup {[client |-> c, size |-> size, day |-> gclock \div DayTicks]}
                           ELSE uploading
           /\ guardHist' = [guardHist EXCEPT !.granted[k] = IF allowed THEN @ + 1 ELSE @, !.requests = @ + 1]
    /\ UNCHANGED <<gclock, budgets, beacon, loop>>

Today(d) == IF Cardinality(DOMAIN budgets) >= MaxClients THEN {c \in DOMAIN budgets : budgets[c].day = d} ELSE DOMAIN budgets
UsedOn(u) == IF u.client \in Today(u.day) /\ budgets[u.client].day = u.day THEN budgets[u.client].used ELSE 0
\* Mutant: the cap is compared with what was used before.
FitsBefore(u) == UsedOn(u) <= UploadCap
FitsBudget(u) == UsedOn(u) + u.size <= UploadCap
\* charge_upload: an entry of another day, older or newer, starts over.
ChargeUpload(u) ==
    /\ budgets' = [c \in Today(u.day) \cup {u.client} |->
                       IF c = u.client THEN [day |-> u.day, used |-> UsedOn(u) + (IF FitsBudget(u) THEN u.size ELSE 0)]
                       ELSE budgets[c]]
    /\ uploading' = uploading \ {u}
    /\ guardHist' = [guardHist EXCEPT !.charged[u.client][u.day] = IF FitsBudget(u) THEN @ + u.size ELSE @,
                                      !.late = IF u.day # gclock \div DayTicks THEN @ + 1 ELSE @]
    /\ UNCHANGED <<gclock, buckets, beacon, loop>>

(***************************************************************************)
(* The beacon and the watchdog                                             *)
(***************************************************************************)
LoopTick ==
    /\ loop # "wedged" /\ (loop = "boot" \/ beacon.last # gclock)
    /\ loop' = "live" /\ beacon' = [started |-> TRUE, last |-> gclock]
    /\ UNCHANGED <<gclock, buckets, budgets, uploading, guardHist>>
Wedge ==
    /\ loop = "live" /\ guardHist.restarts < MaxGuardRestarts
    /\ loop' = "wedged"
    /\ UNCHANGED <<gclock, buckets, budgets, uploading, beacon, guardHist>>

Age == gclock - beacon.last
\* watchdog_action
Healthy == ~beacon.started \/ Age <= StallAfter
\* Mutant: the ping is withheld and the process stays.
OnlyWithholds == FALSE
GivesUp == ~Healthy /\ ExitAfter > 0 /\ Age > ExitAfter
\* The watchdog exits the process and the supervisor starts it again, memory empty.
WatchdogExit ==
    /\ GivesUp
    /\ guardHist' = [guardHist EXCEPT !.restarts = @ + 1, !.exitedLive = @ \/ loop # "wedged"]
    /\ loop' = "boot" /\ beacon' = [started |-> FALSE, last |-> 0]
    /\ buckets' = [k \in {} |-> [tokens |-> 0, at |-> 0]] /\ budgets' = [c \in {} |-> [day |-> 0, used |-> 0]]
    /\ uploading' = {}
    /\ UNCHANGED gclock

\* Time goes by; a loop that is not wedged has ticked within the stall threshold.
GuardTick ==
    /\ gclock < MaxGuardTime
    /\ loop = "live" => Age < StallAfter
    /\ gclock' = gclock + 1
    /\ UNCHANGED <<buckets, budgets, uploading, beacon, loop, guardHist>>

GuardInit ==
    /\ gclock = 0
    /\ buckets = [k \in {} |-> [tokens |-> 0, at |-> 0]] /\ budgets = [c \in {} |-> [day |-> 0, used |-> 0]]
    /\ uploading = {} /\ loop = "boot" /\ beacon = [started |-> FALSE, last |-> 0]
    /\ guardHist = [granted |-> [k \in Client \cup {Overflow} |-> 0],
                    charged |-> [c \in Client |-> [d \in 0..MaxGuardTime \div DayTicks |-> 0]],
                    late |-> 0, requests |-> 0, restarts |-> 0, exitedLive |-> FALSE]

WatchNext == LoopTick \/ Wedge \/ WatchdogExit
GuardNext ==
    \/ \E c \in Client, size \in UploadSizes : Request(c, size)
    \/ \E u \in uploading : ChargeUpload(u)
    \/ WatchNext \/ GuardTick

\* Timers fire, the loop runs while it is not wedged, the supervisor restarts what exited.
GuardSpec ==
    GuardInit /\ [][GuardNext]_guardVars /\ WF_guardVars(GuardTick) /\ WF_guardVars(LoopTick) /\ WF_guardVars(WatchdogExit)

(***************************************************************************)
(* Properties                                                              *)
(***************************************************************************)
\* Types of the gate, its buckets and budgets, and of the swarm loop.
GuardTypeOK ==
    /\ gclock \in 0..MaxGuardTime /\ loop \in {"boot", "live", "wedged"}
    /\ DOMAIN buckets \subseteq Client \cup {Overflow} /\ DOMAIN budgets \subseteq Client
    /\ \A k \in DOMAIN buckets : buckets[k].tokens \in 0..BurstSize
    /\ \A c \in DOMAIN budgets : budgets[c].used \in 0..UploadCap

\* Over the life of the process a key of the gate has been granted its burst and what refills
\* in that time, dropped from the full map and let in again or not, and the map stays within
\* its limit and the overflow key (PublicGate::allow).
RateHeld ==
    /\ \A k \in Client \cup {Overflow} :
           guardHist.granted[k] <= (guardHist.restarts + 1) * BurstSize + gclock * Rate
    /\ Cardinality(DOMAIN buckets) <= MaxClients + 1

\* A client uploads its daily cap, whatever is forgotten when the map grows; only a charge that
\* arrives after its day has ended, or a restart, can add to it (charge_upload).
UploadsHeld ==
    \A c \in Client : \A d \in DOMAIN guardHist.charged[c] :
        guardHist.charged[c][d] <= (1 + guardHist.late + guardHist.restarts) * UploadCap

\* The watchdog ends no process whose loop still ticks (watchdog_action).
NoFalseExit == ~guardHist.exitedLive

\* The gate, the upload budget and the watchdog hold.
GuardsHold == GuardTypeOK /\ RateHeld /\ UploadsHeld /\ NoFalseExit

\* A loop that wedged after it had started does not stay so: the process exits and comes back
\* (the 33 hours of 2026-10-04), while there is time left to see it.
WedgeEnds == (loop = "wedged" /\ gclock + ExitAfter < MaxGuardTime) ~> (loop # "wedged")
================================================================================
