------------------------------- MODULE MCStores -------------------------------
(***************************************************************************)
(* One instance of the node's stores: mail, Shelter, files, and the        *)
(* records of sites, listings and markings.  They share no state, so each  *)
(* behaviour explores the one that focus names and the others stand still: *)
(* the state spaces add up and do not multiply.                            *)
(***************************************************************************)
EXTENDS TmailStore, Shelter, FileStore, Records

-----------------------------------------------------------------------------
(* Mail: an inbox "w", a board "b" and a poll "p".  Messages 1-4 are named *)
(* mail, 5-10 posts to the board, 11-13 ballots.                           *)

Named(from, at, ttl, burn) ==
    [kind |-> "named", to |-> "w", from |-> from, key |-> "-", null |-> 0, ok |-> FALSE,
     root |-> "-", receipt |-> 0, at |-> at, ttl |-> ttl, burn |-> burn]
Proof(to, key, null, ok, root, receipt, at) ==
    [kind |-> "proof", to |-> to, from |-> "-", key |-> key, null |-> null, ok |-> ok,
     root |-> root, receipt |-> receipt, at |-> at, ttl |-> 0, burn |-> FALSE]
Fast(key, at, ttl) ==
    [kind |-> "fast", to |-> "b", from |-> "-", key |-> key, null |-> 0, ok |-> FALSE,
     root |-> "-", receipt |-> 0, at |-> at, ttl |-> ttl, burn |-> FALSE]

MCMsgs == 1..13
MCEnvelope ==
    << Named("a", 0, 0, TRUE), Named("a", 0, 1, FALSE), Named("a", 1, 0, FALSE), Named("c", 1, 1, TRUE),
       Proof("b", "k1", 1, TRUE, "r1", 1, 0), Fast("k1", 0, 0), Fast("k1", 1, 1),
       Proof("b", "k2", 2, FALSE, "r1", 2, 0), Proof("b", "k3", 1, TRUE, "r1", 3, 1),
       Proof("b", "k1", 3, TRUE, "r2", 4, 1),
       Proof("p", "k4", 4, TRUE, "r1", 5, 0), Proof("p", "k5", 6, TRUE, "r1", 6, 0),
       Proof("p", "k6", 5, TRUE, "r1", 7, 1) >>
MCScenarios == {{1, 2, 3, 4}, {5, 6, 7}, {5, 8, 9}, {6, 10}, {6, 8, 10}, {1, 3, 4, 10}, {11, 12, 13}}
\* No client of this node shares a nullifier with a post that gossip brings.
MCRestMsgs == {1, 2, 3, 4, 6, 7, 10, 13}
MCPollRoot == [w \in {"p"} |-> "r1"]
MCPollDay == [w \in {"p"} |-> 0]

-----------------------------------------------------------------------------
(* Shelter: "a" was invited and goes by "x", "c" was vouched for by "a".   *)

MCLog == << <<"invite", "m", "a", "-">>, <<"vouch", "a", "c", "-">>, <<"nickname", "a", "a", "x">> >>

-----------------------------------------------------------------------------
(* Files: two envelopes of one id by different senders, and a larger file. *)

MCFiles ==
    << [id |-> "x", sender |-> "a", receiver |-> "b", size |-> 1, at |-> 0],
       [id |-> "x", sender |-> "c", receiver |-> "b", size |-> 2, at |-> 0],
       [id |-> "y", sender |-> "a", receiver |-> "b", size |-> 3, at |-> 1] >>

-----------------------------------------------------------------------------
(* Records: markings r1 and r2 of one signer and r3 of another, one file.  *)

MCBodySize == [x |-> 1, y |-> 2]
MCSigner == [r1 |-> "s1", r2 |-> "s1", r3 |-> "b"]
MCFile == [r1 |-> "f", r2 |-> "f", r3 |-> "f"]

-----------------------------------------------------------------------------
VARIABLE focus

Foci == {"mail", "shelter", "files", "sites", "lists", "marks"}

storesVars == <<tmailVars, shelterVars, fileVars, recVars, focus>>

StoresInit ==
    /\ focus \in Foci
    /\ TmailInit /\ ShelterInit /\ FileInit /\ RecInit
    /\ focus # "mail" => active = {1, 2, 3, 4}

\* What each focus leaves alone besides the other stores, and the inputs it
\* is given.  Ballots and the two larger mixes are sent without a crash: mail and posts
\* meet it in the smaller ones; no root is added while ballots are cast.
Mails ==
    /\ focus = "mail"
    /\ TmailNext
    /\ active \in {{6, 8, 10}, {1, 3, 4, 10}, {11, 12, 13}} => tmCrashes' = 0
    /\ active = {11, 12, 13} => setRoots' = setRoots
\* The third record comes in the first tick, with no post under way.
Shelters ==
    /\ focus = "shelter"
    /\ ShelterNext
    /\ Cardinality(used') = 6 => sclock' = 1 /\ sending' = NoSend
UploadsAndFetches == focus = "files" /\ FileNext
\* Edits of the second site are all of the larger size.
Sites ==
    /\ focus = "sites"
    /\ UNCHANGED <<listVars, sigVars>>
    /\ RecNext
    /\ rclock' < 3
    /\ \A e \in editing' : e.site = "s2" => e.body = "y"
Lists ==
    /\ focus = "lists"
    /\ UNCHANGED <<sigVars, hidden>>
    /\ RecNext
    /\ \A e \in editing' : e.body = "x" /\ e.seq = 0 /\ e.site = "s1"
\* A signer is hidden in behaviours without a crash.
Marks ==
    /\ focus = "marks"
    /\ UNCHANGED <<siteVars, listVars>>
    /\ RecNext
    /\ rclock' < 3
    /\ \A r \in {"r2", "r3"} : stamp'[r] = 0
    /\ \A c \in sigCalls' : c.anchor <=> c.mark = "r1"
    /\ hidden' # {} => recHist'.crashes = 0

StoresNext ==
    /\ UNCHANGED focus
    /\ \/ /\ Mails
          /\ UNCHANGED <<shelterVars, fileVars, recVars>>
       \/ /\ Shelters
          /\ UNCHANGED <<tmailVars, fileVars, recVars>>
       \/ /\ UploadsAndFetches
          /\ UNCHANGED <<tmailVars, shelterVars, recVars>>
       \/ /\ Sites \/ Lists \/ Marks
          /\ UNCHANGED <<tmailVars, shelterVars, fileVars>>

StoresSpec == StoresInit /\ [][StoresNext]_storesVars
===============================================================================
