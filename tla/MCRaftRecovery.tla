-------------------------- MODULE MCRaftRecovery --------------------------
(* Raft from the moment at which n1 wins the last election, with the vote of *)
(* n3, after a full restart: n1 and n2 led terms 1 and 2 in any way that n3,  *)
(* which granted its votes on an empty log, heard nothing of.                *)
EXTENDS MCRaft

CONSTANT MaxOld   \* bound: entries of terms 1 and 2 in a log

\* The terms of the entries in a log of n1 or n2.
OldTerms ==
    {l \in UNION {[1..k -> 1..2] : k \in 0..MaxOld} :
        \A i, j \in DOMAIN l : i <= j => l[i] <= l[j]}

\* A leader's first entry of a term is its no-op.
Entries(l) ==
    [i \in DOMAIN l |->
        [term  |-> l[i],
         value |-> IF i > 1 /\ l[i] = l[i - 1] THEN x ELSE NoOp]]

\* A term has one leader, so its entries follow the same log everywhere.
Before(l, t) == SelectSeq(l, LAMBDA u : u < t)
OneLeaderPerTerm(k, l) ==
    \A i \in DOMAIN k, j \in DOMAIN l :
        k[i] = l[j] => Before(k, k[i]) = Before(l, k[i])

RecoveryInit ==
    \E k, l \in OldTerms :
        /\ OneLeaderPerTerm(k, l)
        /\ currentTerm  = (n1 :> 3 @@ n2 :> 2 @@ n3 :> 3)
        /\ votedFor     = (n1 :> n1 @@ n2 :> None @@ n3 :> n1)
        /\ log          = (n1 :> Entries(k) @@ n2 :> Entries(l) @@ n3 :> <<>>)
        /\ stored       = [n \in Server |-> <<currentTerm[n], votedFor[n]>>]
        /\ state        = [n \in Server |-> IF n = n1 THEN "Leader" ELSE "Follower"]
        /\ loop         = [n \in Server |-> IF n = n1 THEN "starting" ELSE "follower"]
        /\ commitIndex  = [n \in Server |-> 0]
        /\ leaderID     = (n1 :> n1 @@ n2 :> None @@ n3 :> None)
        /\ electionTerm = [n \in Server |-> 0]
        /\ votes        = [n \in Server |-> {}]
        /\ nextIndex    = [n \in Server |-> [p \in Server |->
                              IF n = n1 THEN Len(k) + 1 ELSE 1]]
        /\ matchIndex   = [n \in Server |-> [p \in Server |-> 0]]
        /\ peersTerm    = (n1 :> 3 @@ n2 :> 0 @@ n3 :> 0)
        /\ net = {}
        /\ elections = MaxElections
        /\ crashes = 0
        /\ ballots = {<<3, n1, n1>>, <<3, n3, n1>>}
        /\ leaders = {<<3, n1>>}
        /\ committed = <<>>

\* Bound: a call that was given up and arrives after a later one is to the same
\* node and comes with a log of at most one old entry.
LateCalls ==
    \/ Cardinality(Calls) <= 1
    \/ Len(log[n1]) <= 2 /\ \E p \in {n2, n3} : \A m \in Calls : p \in {m.from, m.to}

RecoverySpec == RecoveryInit /\ [][Next]_vars /\ Fairness
=============================================================================
