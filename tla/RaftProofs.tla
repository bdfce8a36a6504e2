---------------------------- MODULE RaftProofs ----------------------------
(***************************************************************************)
(* Proofs about Raft for every cluster, every command set and every bound: *)
(* its type invariant, and that a term never has two leaders as long as no *)
(* replicator outlives its leadership.                                     *)
(***************************************************************************)
EXTENDS Raft, FiniteSetTheorems, SequenceTheorems, WellFoundedInduction, TLAPS

-----------------------------------------------------------------------------
(* Minima and maxima of sets of indexes *)

\* A set of naturals that is not empty has a least element: what a search for
\* the first conflicting entry returns.
LEMMA MinExists ==
    ASSUME NEW S \in SUBSET Nat, S # {}
    PROVE  \E i \in S : \A j \in S : i <= j
<1> DEFINE R == {ss \in Nat \X Nat : ss[1] < ss[2]}
<1>1. IsWellFoundedOn(R, Nat)
  <2>1. OpToRel(<, Nat) = R
    BY DEF OpToRel
  <2> QED BY <2>1, NatLessThanWellFounded, Zenon
<1>2. PICK i \in S : \A j \in S : ~(<<j, i>> \in R)
  <2> HIDE DEF R
  <2> QED BY <1>1, WFMin, Zenon
<1>3. \A j \in S : i <= j
  <2> TAKE j \in S
  <2>1. ~(<<j, i>> \in R)
    BY <1>2, Zenon
  <2>2. i \in Nat /\ j \in Nat
    OBVIOUS
  <2>3. ~(j < i)
    BY <2>1, <2>2
  <2> QED BY <2>2, <2>3
<1> QED BY <1>3

\* A bounded set of indexes that is not empty has a greatest element: what the
\* backward search of replicateOnce for a term returns.
LEMMA MaxExists ==
    ASSUME NEW N \in Nat, NEW S \in SUBSET (0..N), S # {}
    PROVE  \E i \in S : \A j \in S : j <= i
<1> DEFINE T == {N - i : i \in S}
<1>1. T \in SUBSET Nat
  OBVIOUS
<1>2. T # {}
  OBVIOUS
<1>3. PICK t \in T : \A u \in T : t <= u
  BY <1>1, <1>2, MinExists
<1>4. PICK i \in S : t = N - i
  BY <1>3
<1>5. \A j \in S : j <= i
  <2> TAKE j \in S
  <2>1. N - j \in T
    OBVIOUS
  <2>2. t <= N - j
    BY <2>1, <1>3, Zenon
  <2>3. i \in 0..N /\ j \in 0..N
    OBVIOUS
  <2> QED BY <2>2, <2>3, <1>4
<1> QED BY <1>5

-----------------------------------------------------------------------------
(* What the helpers return *)

\* The fields of a message have their types, whatever the message.
LEMMA MessageFields ==
    ASSUME TypeOK, NEW m \in net
    PROVE  /\ m.from \in Server /\ m.to \in Server /\ m.term \in Nat
           /\ m.type = "RequestVote" => m \in RequestVoteReq
           /\ m.type = "Vote" => m \in RequestVoteResp
           /\ m.type = "AppendEntries" => m \in AppendEntriesReq
           /\ m.type = "Appended" => m \in AppendEntriesResp
  BY DEF TypeOK, Message, RequestVoteReq, RequestVoteResp, AppendEntriesReq,
         AppendEntriesResp

LEMMA LoopOfType ==
    ASSUME NEW s \in States
    PROVE  LoopOf(s) \in {"follower", "candidate", "leader"}
  BY DEF States, LoopOf

LEMMA LastTermType ==
    ASSUME NEW l \in Seq(Entry)
    PROVE  LastTerm(l) \in Nat
<1>1. CASE l = <<>>
  BY <1>1 DEF LastTerm
<1>2. CASE l # <<>>
  <2>1. l[Len(l)] \in Entry
    BY <1>2
  <2> QED BY <1>2, <2>1 DEF LastTerm, Entry
<1> QED BY <1>1, <1>2

LEMMA TermAtType ==
    ASSUME NEW l \in Seq(Entry), NEW i
    PROVE  TermAt(l, i) \in Nat
<1>1. CASE i \in DOMAIN l
  <2>1. l[i] \in Entry
    BY <1>1
  <2> QED BY <1>1, <2>1 DEF TermAt, Entry
<1>2. CASE i \notin DOMAIN l
  BY <1>2 DEF TermAt
<1> QED BY <1>1, <1>2

\* A follower's log stays a log when entries are merged into it.
LEMMA MergedType ==
    ASSUME NEW l \in Seq(Entry), NEW es \in Seq(Entry), NEW prev \in Nat,
           prev <= Len(l)
    PROVE  /\ Truncated(l, prev, es) \in Seq(Entry)
           /\ Merged(l, prev, es) \in Seq(Entry)
<1> DEFINE M == Mismatches(l, prev, es)
<1>1. CASE M = {}
  BY <1>1 DEF Truncated, Merged
<1>2. CASE M # {}
  <2>1. M \in SUBSET Nat /\ M \subseteq 1..Len(es)
    BY DEF Mismatches
  <2>2. \E i \in M : \A j \in M : i <= j
    BY <1>2, <2>1, MinExists
  <2> DEFINE f == FirstMismatch(l, prev, es)
  <2>3. f \in M /\ \A j \in M : f <= j
    BY <2>2 DEF FirstMismatch
  <2>4. f \in 1..Len(es)
    BY <2>1, <2>3
  <2>5. prev + f - 1 <= Len(l)
    <3>1. CASE f = 1
      BY <3>1
    <3>2. CASE f # 1
      <4>1. f - 1 \in 1..Len(es) /\ f - 1 \notin M
        BY <2>3, <2>4, <3>2
      <4>2. prev + (f - 1) <= Len(l)
        BY <4>1 DEF Mismatches
      <4> QED BY <4>2, <2>4
    <3> QED BY <3>1, <3>2
  <2>6. SubSeq(l, 1, prev + f - 1) \in Seq(Entry)
    <3>1. \A i \in 1..(prev + f - 1) : l[i] \in Entry
      BY <2>5, <2>4
    <3> QED BY <3>1, <2>4, <2>5, SubSeqProperties
  <2>7. SubSeq(es, f, Len(es)) \in Seq(Entry)
    BY <2>4, SubSeqProperties
  <2> QED BY <1>2, <2>6, <2>7, ConcatProperties DEF Truncated, Merged
<1> QED BY <1>1, <1>2

\* The search for the first index of a conflicting term finds one.
LEMMA FirstOfTermType ==
    ASSUME NEW l \in Seq(Entry), NEW i \in DOMAIN l
    PROVE  FirstOfTerm(l, i) \in 1..i
<1> DEFINE S == {k \in 1..i : \A j \in k..i : l[j].term = l[i].term}
<1>1. i \in Nat /\ i >= 1
  OBVIOUS
<1>2. S \in SUBSET Nat
  BY <1>1
<1>3. i \in S
  BY <1>1
<1>4. PICK k \in S : \A j \in S : k <= j
  BY <1>2, <1>3, MinExists
<1>5. k \in 1..i /\ \A j \in k..i : l[j].term = l[i].term
  BY <1>4
<1>6. k = 1 \/ l[k - 1].term # l[i].term
  <2> SUFFICES ASSUME k # 1, l[k - 1].term = l[i].term
               PROVE  FALSE
    OBVIOUS
  <2>1. k - 1 \in 1..i
    BY <1>1, <1>5
  <2>2. \A j \in (k - 1)..i : l[j].term = l[i].term
    <3> TAKE j \in (k - 1)..i
    <3>1. j = k - 1 \/ j \in k..i
      BY <1>1, <1>5
    <3> QED BY <3>1, <1>5
  <2>3. k - 1 \in S
    BY <2>1, <2>2
  <2>4. k <= k - 1
    BY <2>3, <1>4
  <2> QED BY <2>4, <1>1, <1>5
<1>7. \E q \in 1..i : /\ \A j \in q..i : l[j].term = l[i].term
                      /\ q = 1 \/ l[q - 1].term # l[i].term
  BY <1>5, <1>6
<1> QED BY <1>7 DEF FirstOfTerm

\* nextIndex stays positive when the leader backs up: the clamp at the end of
\* replicateOnce is what a failed store at the follower needs.
LEMMA BackUpType ==
    ASSUME NEW n \in Server, log[n] \in Seq(Entry), NEW m,
           m.conflictIndex \in Nat
    PROVE  BackUp(n, m) \in Nat \ {0}
<1> DEFINE same == {i \in DOMAIN log[n] : log[n][i].term = m.conflictTerm}
<1>1. Len(log[n]) \in Nat /\ DOMAIN log[n] = 1..Len(log[n])
  OBVIOUS
<1>2. ConflictNext(n, m) \in Nat
  <2>1. CASE m.conflictTerm > 0 /\ same # {}
    <3>1. same \in SUBSET (0..Len(log[n]))
      BY <1>1
    <3>2. \E i \in same : \A j \in same : j <= i
      BY <1>1, <2>1, <3>1, MaxExists
    <3>3. (CHOOSE i \in same : \A j \in same : j <= i) \in same
      BY <3>2
    <3>4. (CHOOSE i \in same : \A j \in same : j <= i) \in Nat
      BY <3>1, <3>3
    <3> QED BY <2>1, <3>4 DEF ConflictNext
  <2>2. CASE ~(m.conflictTerm > 0 /\ same # {})
    BY <2>2 DEF ConflictNext
  <2> QED BY <2>1, <2>2
<1> QED BY <1>2 DEF BackUp

\* What a crash leaves on disk is a term and a vote.
LEMMA OnDiskType ==
    ASSUME TypeOK, NEW n \in Server, NEW disk \in OnDisk(n)
    PROVE  /\ disk \in Nat \X (Server \cup {None})
           /\ disk[1] \in Nat /\ disk[2] \in Server \cup {None}
<1>1. \A m \in net : m.term \in Nat
  BY MessageFields
<1>2. currentTerm[n] + 1 \in Nat
  BY DEF TypeOK
<1>3. stored[n] \in Nat \X (Server \cup {None})
  BY DEF TypeOK
<1>4. stored[n][1] \in Nat /\ stored[n][2] \in Server \cup {None}
  BY <1>3
<1> QED BY <1>1, <1>2, <1>3, <1>4 DEF OnDisk

\* persistState leaves a term and a vote in the stable store, whichever of its
\* writes fail.
LEMMA PersistType ==
    ASSUME TypeOK, NEW n \in Server, NEW t \in Nat,
           NEW v \in Server \cup {None}, NEW older \in SUBSET (Server \cup {None}),
           Persist(n, t, v, older)
    PROVE  stored' \in [Server -> Nat \X (Server \cup {None})]
<1>1. stored[n] \in Nat \X (Server \cup {None})
  BY DEF TypeOK
<1>2. stored[n][1] \in Nat
  BY <1>1
<1>3. PICK w \in {t} \cup (IF StateFaults THEN {stored[n][1]} ELSE {}),
           x \in {v} \cup (IF StateFaults THEN older ELSE {}) :
        stored' = [stored EXCEPT ![n] = <<w, x>>]
  BY DEF Persist
<1>4. w \in Nat /\ x \in Server \cup {None}
  BY <1>2
<1>5. <<w, x>> \in Nat \X (Server \cup {None})
  BY <1>4
<1> QED BY <1>3, <1>5 DEF TypeOK

LEMMA StoredVote ==
    ASSUME TypeOK, NEW n \in Server
    PROVE  {stored[n][2]} \in SUBSET (Server \cup {None})
<1>1. stored[n] \in Nat \X (Server \cup {None})
  BY DEF TypeOK
<1> QED BY <1>1

-----------------------------------------------------------------------------
(* Type correctness *)

LEMMA TypeInit == Init => TypeOK
<1> SUFFICES ASSUME Init PROVE TypeOK
  OBVIOUS
<1>1. <<>> \in Seq(Entry)
  OBVIOUS
<1> QED BY <1>1 DEF Init, TypeOK, States, Loops

\* Winning an election keeps the types of what it sets.
LEMMA TypeBecomeLeader ==
    ASSUME TypeOK, NEW n \in Server, NEW t \in Nat, BecomeLeader(n, t)
    PROVE  /\ state' \in [Server -> States] /\ loop' \in [Server -> Loops]
           /\ leaderID' \in [Server -> Server \cup {None}]
           /\ electionTerm' \in [Server -> Nat]
           /\ votes' \in [Server -> SUBSET Server]
           /\ nextIndex' \in [Server -> [Server -> Nat \ {0}]]
           /\ matchIndex' \in [Server -> [Server -> Nat]]
           /\ peersTerm' \in [Server -> Nat]
           /\ leaders' \subseteq Nat \X Server
<1>1. [p \in Server |-> Len(log[n]) + 1] \in [Server -> Nat \ {0}]
  <2>1. log[n] \in Seq(Entry)
    BY DEF TypeOK
  <2>2. Len(log[n]) + 1 \in Nat \ {0}
    BY <2>1
  <2> QED BY <2>2
<1>2. [p \in Server |-> 0] \in [Server -> Nat]
  OBVIOUS
<1>3. /\ nextIndex' \in [Server -> [Server -> Nat \ {0}]]
      /\ matchIndex' \in [Server -> [Server -> Nat]]
  BY <1>1, <1>2 DEF TypeOK, BecomeLeader
<1>4. <<t, n>> \in Nat \X Server
  OBVIOUS
<1>5. leaders' \subseteq Nat \X Server
  BY <1>4 DEF TypeOK, BecomeLeader
<1> QED BY <1>3, <1>5 DEF TypeOK, BecomeLeader, States, Loops

LEMMA TypeStartElection ==
    ASSUME TypeOK, NEW n \in Server, StartElection(n)
    PROVE  TypeOK'
<1> USE DEF TypeOK
<1>1. currentTerm[n] + 1 \in Nat /\ Len(log[n]) \in Nat /\ Len(log[n]) + 1 \in Nat \ {0}
  OBVIOUS
<1>2. net' \subseteq Message
  <2>1. LastTerm(log[n]) \in Nat
    BY LastTermType
  <2>2. \A p \in Server :
          [type |-> "RequestVote", from |-> n, to |-> p, term |-> currentTerm[n] + 1,
           lastLogIndex |-> Len(log[n]), lastLogTerm |-> LastTerm(log[n])]
            \in RequestVoteReq
    BY <1>1, <2>1 DEF RequestVoteReq
  <2>3. DropVotes(net, n) \subseteq Message
    BY DEF DropVotes
  <2> QED BY <2>2, <2>3 DEF StartElection, Message
<1>3. ballots' \subseteq Nat \X Server \X Server
  BY <1>1 DEF StartElection
<1>4. /\ currentTerm' \in [Server -> Nat]
      /\ votedFor' \in [Server -> Server \cup {None}]
      /\ stored' \in [Server -> Nat \X (Server \cup {None})]
      /\ elections' \in Nat /\ UNCHANGED <<log, commitIndex, crashes, committed>>
  <2>1. /\ currentTerm' = [currentTerm EXCEPT ![n] = currentTerm[n] + 1]
        /\ votedFor' = [votedFor EXCEPT ![n] = n]
        /\ elections' = elections + 1
        /\ UNCHANGED <<log, commitIndex, crashes, committed>>
    BY DEF StartElection
  <2>2. stored' \in [Server -> Nat \X (Server \cup {None})]
    <3>1. Persist(n, currentTerm[n] + 1, n, {stored[n][2]})
      BY DEF StartElection
    <3> QED BY <1>1, <3>1, PersistType, StoredVote
  <2>3. votedFor' \in [Server -> Server \cup {None}] /\ elections' \in Nat
    BY <2>1
  <2>4. currentTerm' \in [Server -> Nat]
    BY <1>1, <2>1
  <2> HIDE DEF TypeOK
  <2> QED BY <2>1, <2>2, <2>3, <2>4
<1>5. CASE Quorum = 1
  <2>1. BecomeLeader(n, currentTerm[n] + 1)
    BY <1>5 DEF StartElection
  <2>2. /\ state' \in [Server -> States] /\ loop' \in [Server -> Loops]
        /\ leaderID' \in [Server -> Server \cup {None}]
        /\ electionTerm' \in [Server -> Nat]
        /\ votes' \in [Server -> SUBSET Server]
        /\ nextIndex' \in [Server -> [Server -> Nat \ {0}]]
        /\ matchIndex' \in [Server -> [Server -> Nat]]
        /\ peersTerm' \in [Server -> Nat]
        /\ leaders' \subseteq Nat \X Server
    BY <1>1, <2>1, TypeBecomeLeader
  <2> QED BY <1>2, <1>3, <1>4, <2>2
<1>6. CASE Quorum # 1
  <2>1. /\ state'        = [state EXCEPT ![n] = "Candidate"]
        /\ loop'         = [loop EXCEPT ![n] = "candidate"]
        /\ electionTerm' = [electionTerm EXCEPT ![n] = currentTerm[n] + 1]
        /\ votes'        = [votes EXCEPT ![n] = {n}]
        /\ UNCHANGED <<leaderID, leaders, peerVars>>
    BY <1>6 DEF StartElection
  <2> QED BY <1>1, <1>2, <1>3, <1>4, <2>1 DEF peerVars, States, Loops
<1> QED BY <1>5, <1>6

LEMMA TypeLeaveElection ==
    ASSUME TypeOK, NEW n \in Server, LeaveElection(n)
    PROVE  TypeOK'
<1>1. LoopOf(state[n]) \in Loops
  BY LoopOfType DEF TypeOK, Loops
<1> QED BY <1>1 DEF TypeOK, LeaveElection, DropVotes, persistentVars, peerVars

LEMMA TypeHandleRequestVote ==
    ASSUME TypeOK, NEW n \in Server, NEW m \in net, HandleRequestVote(n, m)
    PROVE  TypeOK'
<1> DEFINE newer == m.term > currentTerm[n]
           term  == IF newer THEN m.term ELSE currentTerm[n]
           role  == IF newer THEN "Follower" ELSE state[n]
<1>1. m \in RequestVoteReq /\ m.from \in Server /\ m.term \in Nat
  BY MessageFields DEF HandleRequestVote
<1>2. term \in Nat /\ role \in States
  BY <1>1 DEF TypeOK, States
<1>3. LoopOf(role) \in Loops
  BY <1>2, LoopOfType DEF Loops
<1>4. net' \subseteq Message
  <2>1. \A g \in BOOLEAN :
          [type |-> "Vote", from |-> n, to |-> m.from, call |-> m.term,
           term |-> term, granted |-> g] \in Message
    BY <1>1, <1>2 DEF Message, RequestVoteResp
  <2>2. DropVotes(net \ {m}, n) \subseteq Message /\ net \ {m} \subseteq Message
    BY DEF DropVotes, TypeOK
  <2> HIDE DEF term, role
  <2> QED BY <2>1, <2>2 DEF HandleRequestVote, Grants, IsLogUpToDate, VoteFree, term, newer, role
<1>5. ballots' \subseteq Nat \X Server \X Server
  <2>1. ballots' \subseteq ballots \cup {<<m.term, n, m.from>>}
    BY DEF HandleRequestVote
  <2>2. <<m.term, n, m.from>> \in Nat \X Server \X Server
    BY <1>1
  <2> QED BY <2>1, <2>2 DEF TypeOK
<1>6. leaderID' \in [Server -> Server \cup {None}]
  BY <1>1 DEF HandleRequestVote, TypeOK, HintAfter
<1>7. stored' \in [Server -> Nat \X (Server \cup {None})]
  <2> DEFINE older == {stored[n][2]} \cup (IF newer THEN {None} ELSE {})
             vote  == IF newer THEN None ELSE votedFor[n]
             final == IF m.term = term /\ Grants(n, m, vote) THEN m.from ELSE vote
  <2>1. older \in SUBSET (Server \cup {None})
    BY StoredVote
  <2>2. final \in Server \cup {None}
    BY <1>1 DEF TypeOK
  <2>3. Persist(n, term, final, older) \/ UNCHANGED stored
    BY DEF HandleRequestVote
  <2> HIDE DEF older, final, term
  <2> QED BY <1>2, <2>1, <2>2, <2>3, PersistType DEF TypeOK
<1> QED
  BY <1>1, <1>2, <1>3, <1>4, <1>5, <1>6, <1>7 DEF HandleRequestVote, TypeOK, peerVars

LEMMA TypeHandleVote ==
    ASSUME TypeOK, NEW n \in Server, NEW m \in net, HandleVote(n, m)
    PROVE  TypeOK'
<1>1. m \in RequestVoteResp /\ m.from \in Server /\ m.term \in Nat
  BY MessageFields DEF HandleVote
<1>2. DropVotes(net, n) \subseteq Message /\ net \ {m} \subseteq Message
  BY DEF TypeOK, DropVotes
<1>3. LoopOf(state[n]) \in Loops
  BY LoopOfType DEF TypeOK, Loops
<1>4. UNCHANGED <<log, commitIndex, elections, crashes, ballots, committed>>
  BY DEF HandleVote
<1>5. CASE m.term > currentTerm[n]
  <2>1. /\ currentTerm'  = [currentTerm EXCEPT ![n] = m.term]
        /\ votedFor'     = [votedFor EXCEPT ![n] = None]
        /\ Persist(n, m.term, None, {stored[n][2]})
        /\ state'        = [state EXCEPT ![n] = "Follower"]
        /\ loop'         = [loop EXCEPT ![n] = "follower"]
        /\ leaderID'     = [leaderID EXCEPT ![n] = None]
        /\ electionTerm' = [electionTerm EXCEPT ![n] = 0]
        /\ votes'        = [votes EXCEPT ![n] = {}]
        /\ net' = DropVotes(net, n)
        /\ UNCHANGED <<peerVars, leaders>>
    <3>1. ~(m.term <= currentTerm[n])
      BY <1>1, <1>5 DEF TypeOK
    <3> QED BY <3>1 DEF HandleVote
  <2>2. stored' \in [Server -> Nat \X (Server \cup {None})]
    BY <1>1, <2>1, PersistType, StoredVote
  <2> QED BY <1>1, <1>2, <1>4, <2>1, <2>2 DEF TypeOK, peerVars, States, Loops
<1>6. CASE ~(m.term > currentTerm[n]) /\ Cardinality(votes[n] \cup {m.from}) >= Quorum
  <2>1. /\ UNCHANGED <<currentTerm, votedFor, stored>>
        /\ BecomeLeader(n, currentTerm[n])
        /\ net' = DropVotes(net, n)
    BY <1>6 DEF HandleVote
  <2>2. currentTerm[n] \in Nat
    BY DEF TypeOK
  <2>3. /\ state' \in [Server -> States] /\ loop' \in [Server -> Loops]
        /\ leaderID' \in [Server -> Server \cup {None}]
        /\ electionTerm' \in [Server -> Nat]
        /\ votes' \in [Server -> SUBSET Server]
        /\ nextIndex' \in [Server -> [Server -> Nat \ {0}]]
        /\ matchIndex' \in [Server -> [Server -> Nat]]
        /\ peersTerm' \in [Server -> Nat]
        /\ leaders' \subseteq Nat \X Server
    BY <2>1, <2>2, TypeBecomeLeader
  <2> QED BY <1>2, <1>4, <2>1, <2>3 DEF TypeOK
<1>7. CASE ~(m.term > currentTerm[n]) /\ ~(Cardinality(votes[n] \cup {m.from}) >= Quorum)
  <2>1. /\ UNCHANGED <<currentTerm, votedFor, stored, state, leaderID, peerVars, leaders>>
        /\ loop' = [loop EXCEPT ![n] = LoopOf(state[n])]
        /\ votes' = [votes EXCEPT ![n] =
               IF state[n] = "Candidate" THEN votes[n] \cup {m.from} ELSE {}]
        /\ electionTerm' = [electionTerm EXCEPT ![n] =
               IF state[n] = "Candidate" THEN @ ELSE 0]
        /\ net' = IF state[n] = "Candidate" THEN net \ {m} ELSE DropVotes(net, n)
    BY <1>7 DEF HandleVote
  <2> QED BY <1>1, <1>2, <1>3, <1>4, <2>1 DEF TypeOK, peerVars
<1> QED BY <1>5, <1>6, <1>7

LEMMA TypeAppended ==
    ASSUME TypeOK, NEW n \in Server, NEW v \in Value \cup {NoOp}
    PROVE  [log EXCEPT ![n] = Appended(n, v)] \in [Server -> Seq(Entry)]
<1>1. [term |-> currentTerm[n], value |-> v] \in Entry
  BY DEF TypeOK, Entry
<1>2. Appended(n, v) \in Seq(Entry)
  BY <1>1, AppendProperties DEF Appended, TypeOK
<1> QED BY <1>2 DEF TypeOK

LEMMA TypeAppendNoOp ==
    ASSUME TypeOK, NEW n \in Server, AppendNoOp(n)
    PROVE  TypeOK'
<1>1. log' \in [Server -> Seq(Entry)]
  <2>1. [log EXCEPT ![n] = Appended(n, NoOp)] \in [Server -> Seq(Entry)]
    BY TypeAppended
  <2> QED BY <2>1 DEF AppendNoOp, TypeOK
<1>2. LoopOf(state[n]) \in Loops
  BY LoopOfType DEF TypeOK, Loops
<1> QED BY <1>1, <1>2 DEF AppendNoOp, TypeOK, candidateVars, peerVars

LEMMA TypeHandleApplyRequest ==
    ASSUME TypeOK, NEW n \in Server, NEW v \in Value, HandleApplyRequest(n, v)
    PROVE  TypeOK'
<1>1. log' \in [Server -> Seq(Entry)]
  BY TypeAppended DEF HandleApplyRequest
<1> QED BY <1>1 DEF HandleApplyRequest, TypeOK, candidateVars, peerVars

LEMMA TypeRefuseApplyRequest ==
    ASSUME TypeOK, NEW n \in Server, RefuseApplyRequest(n)
    PROVE  TypeOK'
<1>1. LoopOf(state[n]) \in Loops
  BY LoopOfType DEF TypeOK, Loops
<1> QED
  BY <1>1 DEF RefuseApplyRequest, TypeOK, persistentVars, candidateVars, peerVars

LEMMA TypeReplicateOnce ==
    ASSUME TypeOK, NEW n \in Server, NEW p \in Server, ReplicateOnce(n, p)
    PROVE  TypeOK'
<1> DEFINE prev == nextIndex[n][p] - 1
           es   == SubSeq(log[n], prev + 1, Len(log[n]))
           req  == [type |-> "AppendEntries", from |-> n, to |-> p,
                    term |-> currentTerm[n], prevLogIndex |-> prev,
                    prevLogTerm |-> TermAt(log[n], prev), entries |-> es,
                    leaderCommit |-> commitIndex[n], live |-> TRUE]
<1>1. prev \in Nat
  <2>1. nextIndex[n][p] \in Nat \ {0}
    BY DEF TypeOK
  <2> QED BY <2>1
<1>2. es \in Seq(Entry)
  <2>1. log[n] \in Seq(Entry)
    BY DEF TypeOK
  <2> QED BY <1>1, <2>1, SubSeqProperties
<1>3. TermAt(log[n], prev) \in Nat
  BY TermAtType DEF TypeOK
<1>4. req \in Message
  <2> HIDE DEF prev, es
  <2> QED BY <1>1, <1>2, <1>3 DEF TypeOK, Message, AppendEntriesReq
<1>5. net' = net \cup {req}
  BY DEF ReplicateOnce
<1> HIDE DEF req
<1> QED
  BY <1>4, <1>5 DEF ReplicateOnce, TypeOK, persistentVars, candidateVars, peerVars

\* Every answer of handleAppendEntries is a message.
LEMMA AppendResponseType ==
    ASSUME NEW n \in Server, NEW m \in AppendEntriesReq, NEW t \in Nat,
           NEW ok \in BOOLEAN, NEW ct \in Nat, NEW ci \in Nat
    PROVE  AppendResponse(n, m, t, ok, ct, ci) \in Message
<1>1. /\ m.from \in Server /\ m.term \in Nat
      /\ m.prevLogIndex \in Nat /\ m.entries \in Seq(Entry)
  BY DEF AppendEntriesReq
<1> DEFINE last == IF m.entries = <<>> THEN 0 ELSE m.prevLogIndex + Len(m.entries)
<1>2. last \in Nat
  BY <1>1
<1>3. AppendResponse(n, m, t, ok, ct, ci) =
        [type |-> "Appended", from |-> n, to |-> m.from, call |-> m.term,
         term |-> t, success |-> ok, last |-> last,
         conflictTerm |-> ct, conflictIndex |-> ci]
  BY DEF AppendResponse
<1> HIDE DEF last
<1> QED BY <1>1, <1>2, <1>3 DEF Message, AppendEntriesResp

LEMMA ReplyType ==
    ASSUME TypeOK, NEW n \in Server, NEW m \in net, NEW r \in Message,
           Reply(n, m, r)
    PROVE  net' \subseteq Message
  BY DEF TypeOK, Reply, DropVotes

LEMMA TypeRejectStaleLeader ==
    ASSUME TypeOK, NEW n \in Server, NEW m \in net, m \in AppendEntriesReq,
           RejectStaleLeader(n, m),
           UNCHANGED <<peerVars, elections, crashes, ballots, leaders>>
    PROVE  TypeOK'
<1>1. currentTerm[n] \in Nat /\ state[n] \in States
  BY DEF TypeOK
<1>2. AppendResponse(n, m, currentTerm[n], FALSE, 0, 0) \in Message
  BY <1>1, AppendResponseType
<1>3. net' \subseteq net \cup {AppendResponse(n, m, currentTerm[n], FALSE, 0, 0)}
  BY DEF RejectStaleLeader, DropVotes
<1>4. net' \subseteq Message
  BY <1>2, <1>3 DEF TypeOK
<1>5. LoopOf(state[n]) \in Loops
  BY <1>1, LoopOfType DEF Loops
<1> QED BY <1>4, <1>5 DEF TypeOK, RejectStaleLeader, persistentVars, peerVars

LEMMA TypeStoreEntries ==
    ASSUME TypeOK, NEW n \in Server, NEW m \in net, m \in AppendEntriesReq,
           StoreEntries(n, m)
    PROVE  /\ log' \in [Server -> Seq(Entry)] /\ commitIndex' \in [Server -> Nat]
           /\ committed' \in Seq(Entry) /\ net' \subseteq Message
<1> DEFINE newLog == Merged(log[n], m.prevLogIndex, m.entries)
           k == IF m.leaderCommit < Len(newLog) THEN m.leaderCommit ELSE Len(newLog)
<1>1. /\ m.term \in Nat /\ m.prevLogIndex \in Nat /\ m.entries \in Seq(Entry)
      /\ m.leaderCommit \in Nat
  BY DEF AppendEntriesReq
<1>2. log[n] \in Seq(Entry)
  BY DEF TypeOK
<1>3. m.prevLogIndex <= Len(log[n])
  BY DEF StoreEntries, PassesCheck
<1>4. newLog \in Seq(Entry)
  BY <1>1, <1>2, <1>3, MergedType
<1>5. /\ log' = [log EXCEPT ![n] = newLog]
      /\ IF m.leaderCommit > commitIndex[n]
           THEN /\ commitIndex' = [commitIndex EXCEPT ![n] = k]
                /\ Remember(newLog, k)
           ELSE UNCHANGED <<commitIndex, committed>>
      /\ Reply(n, m, AppendResponse(n, m, m.term, TRUE, 0, 0))
  BY DEF StoreEntries
<1> HIDE DEF newLog
<1>6. k \in Nat /\ k <= Len(newLog)
  BY <1>1, <1>4
<1> HIDE DEF k
<1>7. SubSeq(newLog, 1, k) \in Seq(Entry)
  BY <1>4, <1>6, SubSeqProperties
<1>8. log' \in [Server -> Seq(Entry)]
  BY <1>4, <1>5 DEF TypeOK
<1>9. commitIndex' \in [Server -> Nat] /\ committed' \in Seq(Entry)
  BY <1>5, <1>6, <1>7 DEF TypeOK, Remember
<1>10. AppendResponse(n, m, m.term, TRUE, 0, 0) \in Message
  BY <1>1, AppendResponseType
<1>11. net' \subseteq Message
  BY <1>5, <1>10, ReplyType
<1> QED BY <1>8, <1>9, <1>11

LEMMA TypeHandleAppendEntries ==
    ASSUME TypeOK, NEW n \in Server, NEW m \in net, HandleAppendEntries(n, m)
    PROVE  TypeOK'
<1>1. m \in AppendEntriesReq
  BY MessageFields DEF HandleAppendEntries
<1>2. /\ m.from \in Server /\ m.term \in Nat /\ m.prevLogIndex \in Nat
      /\ m.entries \in Seq(Entry)
  BY <1>1 DEF AppendEntriesReq
<1>3. UNCHANGED <<peerVars, elections, crashes, ballots, leaders>>
  BY DEF HandleAppendEntries
<1>4. log[n] \in Seq(Entry) /\ Len(log[n]) + 1 \in Nat
  BY DEF TypeOK
<1>5. CASE RejectStaleLeader(n, m)
  BY <1>1, <1>3, <1>5, TypeRejectStaleLeader
<1>6. CASE FollowLeader(n, m) /\ ( \/ RejectShortLog(n, m) \/ RejectConflict(n, m)
                                   \/ StoreEntries(n, m) \/ StoreFails(n, m))
  <2>1. /\ currentTerm' \in [Server -> Nat]
        /\ votedFor' \in [Server -> Server \cup {None}]
        /\ state' \in [Server -> States] /\ loop' \in [Server -> Loops]
        /\ leaderID' \in [Server -> Server \cup {None}]
        /\ electionTerm' \in [Server -> Nat]
        /\ votes' \in [Server -> SUBSET Server]
    BY <1>2, <1>6 DEF FollowLeader, TypeOK, States, Loops
  <2>3. stored' \in [Server -> Nat \X (Server \cup {None})]
    <3>1. Persist(n, m.term, None, {stored[n][2]}) \/ UNCHANGED stored
      BY <1>6 DEF FollowLeader
    <3> QED BY <1>2, <3>1, PersistType, StoredVote DEF TypeOK
  <2>2. /\ log' \in [Server -> Seq(Entry)] /\ commitIndex' \in [Server -> Nat]
        /\ committed' \in Seq(Entry) /\ net' \subseteq Message
    <3>1. CASE RejectShortLog(n, m)
      <4>1. AppendResponse(n, m, m.term, FALSE, 0, Len(log[n]) + 1) \in Message
        BY <1>1, <1>2, <1>4, AppendResponseType
      <4>2. net' \subseteq Message
        BY <3>1, <4>1, ReplyType DEF RejectShortLog
      <4> QED BY <3>1, <4>2 DEF RejectShortLog, TypeOK
    <3>2. CASE RejectConflict(n, m)
      <4> DEFINE ct == log[n][m.prevLogIndex].term
                 ci == FirstOfTerm(log[n], m.prevLogIndex)
      <4>1. m.prevLogIndex \in DOMAIN log[n]
        BY <3>2 DEF RejectConflict
      <4>2. log[n][m.prevLogIndex] \in Entry
        BY <1>4, <4>1
      <4>3. ct \in Nat
        BY <4>2 DEF Entry
      <4>4. ci \in Nat
        BY <1>2, <1>4, <4>1, FirstOfTermType
      <4>5. AppendResponse(n, m, m.term, FALSE, ct, ci) \in Message
        <5> HIDE DEF ct, ci
        <5> QED BY <1>1, <1>2, <4>3, <4>4, AppendResponseType
      <4>6. net' \subseteq Message
        BY <3>2, <4>5, ReplyType DEF RejectConflict
      <4> QED BY <3>2, <4>6 DEF RejectConflict, TypeOK
    <3>3. CASE StoreEntries(n, m)
      BY <1>1, <3>3, TypeStoreEntries
    <3>4. CASE StoreFails(n, m)
      <4>1. Truncated(log[n], m.prevLogIndex, m.entries) \in Seq(Entry)
        BY <1>2, <1>4, <3>4, MergedType DEF StoreFails, PassesCheck
      <4>2. log' \in [Server -> Seq(Entry)]
        BY <3>4, <4>1 DEF StoreFails, TypeOK
      <4>3. AppendResponse(n, m, m.term, FALSE, 0, 0) \in Message
        BY <1>1, <1>2, AppendResponseType
      <4>4. net' \subseteq Message
        BY <3>4, <4>3, ReplyType DEF StoreFails
      <4> QED BY <3>4, <4>2, <4>4 DEF StoreFails, TypeOK
    <3> QED BY <1>6, <3>1, <3>2, <3>3, <3>4
  <2> QED BY <1>3, <2>1, <2>2, <2>3 DEF TypeOK, peerVars
<1> QED BY <1>5, <1>6 DEF HandleAppendEntries

\* The index a majority has reached is what advanceCommitIndex may commit.
LEMMA TypeAdvanceCommitIndex ==
    ASSUME TypeOK, NEW n \in Server, AdvanceCommitIndex(n)
    PROVE  commitIndex' \in [Server -> Nat] /\ committed' \in Seq(Entry)
<1> DEFINE k == MajorityMatch(n)
<1> HIDE DEF k
<1>1. CASE /\ k \in DOMAIN log[n]
           /\ commitIndex' = [commitIndex EXCEPT ![n] = k]
           /\ Remember(log[n], k)
  <2>1. log[n] \in Seq(Entry)
    BY DEF TypeOK
  <2>2. k \in 1..Len(log[n])
    BY <1>1, <2>1
  <2>3. SubSeq(log[n], 1, k) \in Seq(Entry)
    BY <2>1, <2>2, SubSeqProperties
  <2> QED BY <1>1, <2>1, <2>2, <2>3 DEF TypeOK, Remember
<1>2. CASE UNCHANGED <<commitIndex, committed>>
  BY <1>2 DEF TypeOK
<1> QED BY <1>1, <1>2 DEF AdvanceCommitIndex, k

\* Setting one peer's index keeps the table's type.
LEMMA PeerUpdate ==
    ASSUME NEW S, NEW f \in [Server -> [Server -> S]],
           NEW n \in Server, NEW p \in Server, NEW v \in S
    PROVE  [f EXCEPT ![n][p] = v] \in [Server -> [Server -> S]]
<1>1. [f[n] EXCEPT ![p] = v] \in [Server -> S]
  OBVIOUS
<1> QED BY <1>1

LEMMA TypeHandleAppendEntriesResponse ==
    ASSUME TypeOK, NEW n \in Server, NEW m \in net,
           HandleAppendEntriesResponse(n, m)
    PROVE  TypeOK'
<1>1. m \in AppendEntriesResp
  BY MessageFields DEF HandleAppendEntriesResponse
<1>2. /\ m.from \in Server /\ m.term \in Nat /\ m.last \in Nat
      /\ m.conflictIndex \in Nat /\ m.last + 1 \in Nat \ {0}
  BY <1>1 DEF AppendEntriesResp
<1>3. /\ UNCHANGED <<log, loop, candidateVars, peersTerm, elections, crashes,
                     ballots, leaders>>
      /\ net' \subseteq net
  BY DEF HandleAppendEntriesResponse
<1>4. CASE /\ currentTerm' = [currentTerm EXCEPT ![n] = m.term]
           /\ votedFor'    = [votedFor EXCEPT ![n] = None]
           /\ Persist(n, m.term, None, {stored[n][2]})
           /\ state'       = [state EXCEPT ![n] = "Follower"]
           /\ leaderID'    = [leaderID EXCEPT ![n] = None]
           /\ UNCHANGED <<commitIndex, nextIndex, matchIndex, committed>>
  <2>1. stored' \in [Server -> Nat \X (Server \cup {None})]
    BY <1>2, <1>4, PersistType, StoredVote
  <2> QED BY <1>2, <1>3, <1>4, <2>1 DEF TypeOK, candidateVars, States
<1>5. CASE /\ IF m.call = peersTerm[n] /\ m.last > 0
                THEN /\ matchIndex' = [matchIndex EXCEPT ![n][m.from] = m.last]
                     /\ nextIndex'  = [nextIndex EXCEPT ![n][m.from] = m.last + 1]
                ELSE UNCHANGED <<matchIndex, nextIndex>>
           /\ AdvanceCommitIndex(n)
           /\ UNCHANGED <<currentTerm, votedFor, stored, state, leaderID>>
  <2>1. /\ matchIndex' \in [Server -> [Server -> Nat]]
        /\ nextIndex' \in [Server -> [Server -> Nat \ {0}]]
    <3>1. /\ [matchIndex EXCEPT ![n][m.from] = m.last]
               \in [Server -> [Server -> Nat]]
          /\ [nextIndex EXCEPT ![n][m.from] = m.last + 1]
               \in [Server -> [Server -> Nat \ {0}]]
      BY <1>2, PeerUpdate, Zenon DEF TypeOK
    <3>2. /\ matchIndex' \in {matchIndex, [matchIndex EXCEPT ![n][m.from] = m.last]}
          /\ nextIndex' \in {nextIndex, [nextIndex EXCEPT ![n][m.from] = m.last + 1]}
      BY <1>5
    <3> QED BY <3>1, <3>2 DEF TypeOK
  <2>2. commitIndex' \in [Server -> Nat] /\ committed' \in Seq(Entry)
    BY <1>5, TypeAdvanceCommitIndex
  <2> QED BY <1>3, <1>5, <2>1, <2>2 DEF TypeOK, candidateVars
<1>6. CASE /\ nextIndex' = [nextIndex EXCEPT ![n][m.from] =
                              IF m.call = peersTerm[n] THEN BackUp(n, m) ELSE @]
           /\ UNCHANGED <<currentTerm, votedFor, stored, state, leaderID,
                          commitIndex, matchIndex, committed>>
  <2>1. BackUp(n, m) \in Nat \ {0}
    BY <1>2, BackUpType DEF TypeOK
  <2>2. nextIndex' \in [Server -> [Server -> Nat \ {0}]]
    <3> DEFINE b == IF m.call = peersTerm[n] THEN BackUp(n, m)
                                             ELSE nextIndex[n][m.from]
    <3>1. nextIndex[n][m.from] \in Nat \ {0}
      BY <1>2 DEF TypeOK
    <3>2. b \in Nat \ {0}
      BY <2>1, <3>1
    <3>3. nextIndex' = [nextIndex EXCEPT ![n][m.from] = b]
      BY <1>6
    <3> HIDE DEF b
    <3> QED BY <1>2, <3>2, <3>3, PeerUpdate DEF TypeOK
  <2> QED BY <1>3, <1>6, <2>2 DEF TypeOK, candidateVars
<1> QED BY <1>4, <1>5, <1>6 DEF HandleAppendEntriesResponse

LEMMA OrphanType ==
    ASSUME NEW m \in Message
    PROVE  /\ Orphan(m) \in Message
           /\ Orphan(m).type = m.type /\ Orphan(m).from = m.from
           /\ Orphan(m).to = m.to /\ Orphan(m).term = m.term
           /\ m.type # "AppendEntries" => Orphan(m) = m
<1>1. CASE m.type = "AppendEntries"
  <2>1. m \in AppendEntriesReq
    BY <1>1 DEF Message, RequestVoteReq, RequestVoteResp, AppendEntriesResp
  <2>2. [m EXCEPT !.live = FALSE] \in AppendEntriesReq
    BY <2>1 DEF AppendEntriesReq
  <2> QED BY <1>1, <2>1, <2>2 DEF Orphan, Message, AppendEntriesReq
<1>2. CASE m.type # "AppendEntries"
  BY <1>2 DEF Orphan
<1> QED BY <1>1, <1>2

LEMMA TypeCallFails ==
    ASSUME TypeOK, NEW m \in net, CallFails(m)
    PROVE  TypeOK'
<1>1. Orphan(m) \in Message
  BY OrphanType DEF TypeOK
<1>2. net' \subseteq net \cup {Orphan(m)}
  BY DEF CallFails
<1> QED
  BY <1>1, <1>2 DEF CallFails, TypeOK, persistentVars, candidateVars, peerVars

LEMMA TypeCrash ==
    ASSUME TypeOK, NEW n \in Server, NEW disk \in OnDisk(n), Crash(n, disk)
    PROVE  TypeOK'
<1>1. disk[1] \in Nat /\ disk[2] \in Server \cup {None}
  BY OnDiskType
<1>2. net' \subseteq Message
  <2>1. \A m \in net : m \in Message /\ Orphan(m) \in Message
    BY OrphanType DEF TypeOK
  <2> QED BY <2>1 DEF Crash
<1>3. /\ [p \in Server |-> 1] \in [Server -> Nat \ {0}]
      /\ [p \in Server |-> 0] \in [Server -> Nat]
  OBVIOUS
<1>4. /\ nextIndex' \in [Server -> [Server -> Nat \ {0}]]
      /\ matchIndex' \in [Server -> [Server -> Nat]]
  BY <1>3 DEF Crash, TypeOK
<1>5. /\ currentTerm' \in [Server -> Nat]
      /\ votedFor' \in [Server -> Server \cup {None}]
  BY <1>1 DEF Crash, TypeOK
<1>6. /\ state' \in [Server -> States] /\ loop' \in [Server -> Loops]
      /\ commitIndex' \in [Server -> Nat] /\ crashes' \in Nat
      /\ leaderID' \in [Server -> Server \cup {None}]
      /\ electionTerm' \in [Server -> Nat] /\ peersTerm' \in [Server -> Nat]
      /\ votes' \in [Server -> SUBSET Server]
  BY DEF Crash, TypeOK, States, Loops
<1>7. UNCHANGED <<log, elections, ballots, leaders, committed>>
  BY DEF Crash
<1>8. stored' \in [Server -> Nat \X (Server \cup {None})]
  <2>1. disk \in Nat \X (Server \cup {None})
    BY OnDiskType
  <2> QED BY <2>1 DEF Crash, TypeOK
<1> QED BY <1>2, <1>4, <1>5, <1>6, <1>7, <1>8 DEF TypeOK

LEMMA TypeRestart ==
    ASSUME TypeOK, NEW n \in Server, Restart(n)
    PROVE  TypeOK'
  BY DEF Restart, TypeOK, Loops, persistentVars, candidateVars, peerVars

LEMMA TypeNext == TypeOK /\ [Next]_vars => TypeOK'
<1> SUFFICES ASSUME TypeOK, [Next]_vars PROVE TypeOK'
  OBVIOUS
<1>1. CASE UNCHANGED vars
  BY <1>1 DEF TypeOK, vars
<1>2. ASSUME NEW n \in Server, StartElection(n) PROVE TypeOK'
  BY <1>2, TypeStartElection
<1>3. ASSUME NEW n \in Server, LeaveElection(n) PROVE TypeOK'
  BY <1>3, TypeLeaveElection
<1>4. ASSUME NEW n \in Server, AppendNoOp(n) PROVE TypeOK'
  BY <1>4, TypeAppendNoOp
<1>5. ASSUME NEW n \in Server, NEW v \in Value, HandleApplyRequest(n, v)
      PROVE  TypeOK'
  BY <1>5, TypeHandleApplyRequest
<1>6. ASSUME NEW n \in Server, RefuseApplyRequest(n) PROVE TypeOK'
  BY <1>6, TypeRefuseApplyRequest
<1>7. ASSUME NEW n \in Server, NEW p \in Server, ReplicateOnce(n, p)
      PROVE  TypeOK'
  BY <1>7, TypeReplicateOnce
<1>8. ASSUME NEW n \in Server, NEW disk \in OnDisk(n), Crash(n, disk)
      PROVE  TypeOK'
  BY <1>8, TypeCrash
<1>9. ASSUME NEW n \in Server, Restart(n) PROVE TypeOK'
  BY <1>9, TypeRestart
<1>10. ASSUME NEW m \in net, \/ HandleRequestVote(m.to, m) \/ HandleVote(m.to, m)
                             \/ HandleAppendEntries(m.to, m)
                             \/ HandleAppendEntriesResponse(m.to, m)
       PROVE  TypeOK'
  <2>1. m.to \in Server
    BY MessageFields
  <2> QED
    BY <1>10, <2>1, TypeHandleRequestVote, TypeHandleVote,
       TypeHandleAppendEntries, TypeHandleAppendEntriesResponse
<1>11. ASSUME NEW m \in net, CallFails(m) PROVE TypeOK'
  BY <1>11, TypeCallFails
<1> QED
  BY <1>1, <1>2, <1>3, <1>4, <1>5, <1>6, <1>7, <1>8, <1>9, <1>10, <1>11 DEF Next

\* In every run of every cluster all variables keep their types; in particular
\* no nextIndex ever reaches 0, so that replicateOnce never wraps PrevLogIndex
\* around, even with failing stores and torn writes of the term and the vote.
THEOREM TypeCorrect == Spec => []TypeOK
  BY TypeInit, TypeNext, PTL DEF Spec

-----------------------------------------------------------------------------
(* What the stable store holds when no write to it fails *)

LEMMA PersistDone ==
    ASSUME ~StateFaults, NEW n, NEW t, NEW v, NEW older, Persist(n, t, v, older)
    PROVE  stored' = [stored EXCEPT ![n] = <<t, v>>]
  BY DEF Persist

\* Every handler that changes the term or the vote persists both.
LEMMA StoreNext ==
    ASSUME ~StateFaults, TypeOK, StoreInv, [Next]_vars
    PROVE  StoreInv'
<1> DEFINE Written(n) == \E t, v :
               /\ currentTerm' = [currentTerm EXCEPT ![n] = t]
               /\ votedFor' = [votedFor EXCEPT ![n] = v]
               /\ stored' = [stored EXCEPT ![n] = <<t, v>>]
           Kept == UNCHANGED <<currentTerm, votedFor, stored>>
<1>1. ASSUME NEW n \in Server, Written(n) PROVE StoreInv'
  BY <1>1 DEF TypeOK, StoreInv
<1>2. ASSUME Kept PROVE StoreInv'
  BY <1>2 DEF StoreInv
<1>3. CASE UNCHANGED vars
  BY <1>2, <1>3 DEF vars
<1>4. ASSUME NEW n \in Server, StartElection(n) PROVE Written(n)
  <2>1. Persist(n, currentTerm[n] + 1, n, {stored[n][2]})
    BY <1>4 DEF StartElection
  <2>2. stored' = [stored EXCEPT ![n] = <<currentTerm[n] + 1, n>>]
    BY <2>1, PersistDone
  <2>3. /\ currentTerm' = [currentTerm EXCEPT ![n] = currentTerm[n] + 1]
        /\ votedFor' = [votedFor EXCEPT ![n] = n]
    BY <1>4 DEF StartElection
  <2> QED BY <2>2, <2>3, Zenon
<1>5. ASSUME NEW n \in Server, \/ LeaveElection(n) \/ AppendNoOp(n)
                               \/ (\E v \in Value : HandleApplyRequest(n, v))
                               \/ RefuseApplyRequest(n)
                               \/ (\E p \in Server : ReplicateOnce(n, p))
                               \/ Restart(n)
      PROVE  Kept
  BY <1>5 DEF LeaveElection, AppendNoOp, HandleApplyRequest, RefuseApplyRequest,
              ReplicateOnce, Restart, persistentVars
<1>6. ASSUME NEW n \in Server, NEW disk \in OnDisk(n), Crash(n, disk)
      PROVE  Written(n)
  <2>1. disk = <<disk[1], disk[2]>>
    BY OnDiskType
  <2>2. /\ currentTerm' = [currentTerm EXCEPT ![n] = disk[1]]
        /\ votedFor' = [votedFor EXCEPT ![n] = disk[2]]
        /\ stored' = [stored EXCEPT ![n] = disk]
    BY <1>6 DEF Crash
  <2>3. stored' = [stored EXCEPT ![n] = <<disk[1], disk[2]>>]
    BY <2>1, <2>2, Zenon
  <2> QED BY <2>2, <2>3, Zenon
<1>7. ASSUME NEW m \in net, HandleRequestVote(m.to, m)
      PROVE  Written(m.to) \/ Kept
  <2> DEFINE n     == m.to
             newer == m.term > currentTerm[n]
             vote  == IF newer THEN None ELSE votedFor[n]
             term  == IF newer THEN m.term ELSE currentTerm[n]
             grant == m.term = term /\ Grants(n, m, vote)
             final == IF grant THEN m.from ELSE vote
             older == {stored[n][2]} \cup (IF newer THEN {None} ELSE {})
  <2>1. /\ currentTerm' = [currentTerm EXCEPT ![n] = term]
        /\ votedFor' = [votedFor EXCEPT ![n] = final]
        /\ IF newer \/ grant THEN Persist(n, term, final, older)
                             ELSE UNCHANGED stored
    BY <1>7 DEF HandleRequestVote
  <2>2. CASE newer \/ grant
    <3>1. Persist(n, term, final, older)
      BY <2>1, <2>2
    <3> HIDE DEF term, final, older
    <3>2. stored' = [stored EXCEPT ![n] = <<term, final>>]
      BY <3>1, PersistDone
    <3> QED BY <2>1, <3>2, Zenon
  <2>3. CASE ~(newer \/ grant)
    <3>1. term = currentTerm[n] /\ final = votedFor[n] /\ UNCHANGED stored
      BY <2>1, <2>3
    <3> HIDE DEF term, final
    <3>2. /\ currentTerm' = [currentTerm EXCEPT ![n] = currentTerm[n]]
          /\ votedFor' = [votedFor EXCEPT ![n] = votedFor[n]]
      BY <2>1, <3>1
    <3> QED BY <3>1, <3>2 DEF TypeOK
  <2> QED BY <2>2, <2>3
<1>8. ASSUME NEW m \in net, HandleVote(m.to, m)
      PROVE  Written(m.to) \/ Kept
  <2>1. \/ /\ currentTerm' = [currentTerm EXCEPT ![m.to] = m.term]
           /\ votedFor' = [votedFor EXCEPT ![m.to] = None]
           /\ Persist(m.to, m.term, None, {stored[m.to][2]})
        \/ Kept
    BY <1>8 DEF HandleVote
  <2> QED BY <2>1, PersistDone
<1>9. ASSUME NEW m \in net, HandleAppendEntries(m.to, m)
      PROVE  Written(m.to) \/ Kept
  <2>1. CASE RejectStaleLeader(m.to, m)
    BY <2>1 DEF RejectStaleLeader, persistentVars
  <2>2. CASE FollowLeader(m.to, m)
    <3>1. CASE m.term > currentTerm[m.to] \/ state[m.to] # "Follower"
      <4>1. Persist(m.to, m.term, None, {stored[m.to][2]})
        BY <2>2, <3>1 DEF FollowLeader
      <4>2. stored' = [stored EXCEPT ![m.to] = <<m.term, None>>]
        BY <4>1, PersistDone
      <4>3. /\ currentTerm' = [currentTerm EXCEPT ![m.to] = m.term]
            /\ votedFor' = [votedFor EXCEPT ![m.to] = None]
        BY <2>2, <3>1 DEF FollowLeader
      <4> QED BY <4>2, <4>3, Zenon
    <3>2. CASE ~(m.term > currentTerm[m.to] \/ state[m.to] # "Follower")
      <4>1. m.term \in Nat /\ currentTerm[m.to] \in Nat
        BY MessageFields DEF TypeOK
      <4>2. m.term = currentTerm[m.to]
        BY <2>2, <3>2, <4>1 DEF FollowLeader
      <4>3. /\ currentTerm' = [currentTerm EXCEPT ![m.to] = currentTerm[m.to]]
            /\ UNCHANGED <<votedFor, stored>>
        BY <2>2, <3>2, <4>2 DEF FollowLeader
      <4> QED BY <4>3 DEF TypeOK
    <3> QED BY <3>1, <3>2
  <2> QED BY <1>9, <2>1, <2>2 DEF HandleAppendEntries
<1>10. ASSUME NEW m \in net, HandleAppendEntriesResponse(m.to, m)
       PROVE  Written(m.to) \/ Kept
  <2>1. \/ /\ currentTerm' = [currentTerm EXCEPT ![m.to] = m.term]
           /\ votedFor' = [votedFor EXCEPT ![m.to] = None]
           /\ Persist(m.to, m.term, None, {stored[m.to][2]})
        \/ Kept
    BY <1>10 DEF HandleAppendEntriesResponse
  <2> QED BY <2>1, PersistDone
<1>11. ASSUME NEW m \in net, CallFails(m) PROVE Kept
  BY <1>11 DEF CallFails, persistentVars
<1>12. \A m \in net : m.to \in Server
  BY MessageFields
<1> HIDE DEF Written, Kept
<1> QED
  BY <1>1, <1>2, <1>3, <1>4, <1>5, <1>6, <1>7, <1>8, <1>9, <1>10, <1>11, <1>12 DEF Next

LEMMA StoreInit == Init => StoreInv
  BY DEF Init, StoreInv

=============================================================================
