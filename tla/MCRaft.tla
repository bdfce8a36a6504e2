------------------------------ MODULE MCRaft ------------------------------
(* Raft on two or three nodes and at most one client command.               *)
EXTENDS Raft, TLC

CONSTANTS n1, n2, n3, x

\* Sound also when some nodes never start an election.
Symmetry == Permutations(Candidates)

\* A RequestVote of a past term whose candidate has moved on for good.  Its
\* answer is dropped, and all that its receipt can do is to bring the receiver
\* past the head of its loop, which LeaveElection and RefuseApplyRequest do too.
Dead(m) ==
    /\ m.type = "RequestVote"
    /\ m.term < currentTerm[m.to]
    /\ ~(loop[m.from] = "candidate" /\ electionTerm[m.from] = m.term)

\* Nobody reads r.peers of such a node before runLeader rebuilds it.
PeersUnread(n) == state[n] # "Leader" /\ ~\E m \in net : IsCallOf(n, m)

Peers == [n \in Server |-> IF PeersUnread(n) THEN <<>>
                           ELSE <<nextIndex[n], matchIndex[n], peersTerm[n]>>]

\* Without StateFaults the stable store holds the current term and vote (StoreInv).
Disks == <<log, currentTerm, votedFor, IF StateFaults THEN stored ELSE <<>> >>

\* States that differ in dead requests or unread peers have the same future.
FullView ==
    <<Disks, state, loop, commitIndex, leaderID, candidateVars, Peers,
      {m \in net : ~Dead(m)}, elections, crashes, ballots, leaders, committed>>

\* Without leaderID and ballots, which no guard reads: for the properties
\* that do not mention them.
View ==
    <<Disks, state, loop, commitIndex, candidateVars, Peers,
      {m \in net : ~Dead(m)}, elections, crashes, leaders, committed>>

\* A bound: from the third election on, what a failed write left on disk has been
\* overwritten, or restored by a crash.
WritesCatchUp ==
    elections > 2 => \A n \in Server : stored[n] = <<currentTerm[n], votedFor[n]>>
=============================================================================
