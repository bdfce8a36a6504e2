--------------------------- MODULE ReplicatedLog ---------------------------
(***************************************************************************)
(* What the Raft package promises to the state machines above it: one      *)
(* sequence of chosen entries that only grows, of which every node knows a *)
(* prefix.  A node learns in order, and forgets only by crashing (the      *)
(* commit index is volatile).                                              *)
(***************************************************************************)
EXTENDS Naturals, Sequences

CONSTANTS Node, Entry

VARIABLES chosen, replica

Init == chosen = <<>> /\ replica = [n \in Node |-> <<>>]

\* Node n finds out that more entries are chosen.
Commit(n) ==
    /\ chosen' \in Seq(Entry)
    /\ Len(chosen') > Len(chosen)
    /\ SubSeq(chosen', 1, Len(chosen)) = chosen
    /\ replica' = [replica EXCEPT ![n] = chosen']

\* Node n learns some more of what is chosen.
Learn(n) ==
    /\ \E k \in (Len(replica[n]) + 1)..Len(chosen) :
          replica' = [replica EXCEPT ![n] = SubSeq(chosen, 1, k)]
    /\ UNCHANGED chosen

\* Node n crashes.
Forget(n) ==
    /\ replica' = [replica EXCEPT ![n] = <<>>]
    /\ UNCHANGED chosen

Next == \E n \in Node : Commit(n) \/ Learn(n) \/ Forget(n)

Spec == Init /\ [][Next]_<<chosen, replica>>
=============================================================================
