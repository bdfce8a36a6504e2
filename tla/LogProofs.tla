----------------------------- MODULE LogProofs -----------------------------
(***************************************************************************)
(* What holds of roles, terms and logs in every cluster, for every bound   *)
(* and with both races of Raft open: terms go back only where a write of   *)
(* persistState failed, a node that is no follower is in the loop of its   *)
(* role, a follower's hint names a leader of its term, leaders only        *)
(* append, and, if no write to the stable store fails, the terms in a log  *)
(* are in order.  What a step does to one node's role and to the requests  *)
(* under way is summed up once (NodeStep, StepRequests); the invariants    *)
(* follow from that.  The second part of the module is Log Matching.       *)
(***************************************************************************)
EXTENDS ElectionProofs

-----------------------------------------------------------------------------
(* What a step does to the role of a node *)

\* The node keeps its role, its term and its hint; its main goroutine may pass
\* the head of run()'s loop or start.
KeepsRole(p) ==
    /\ state'[p] = state[p] /\ currentTerm'[p] = currentTerm[p]
    /\ leaderID'[p] = leaderID[p]
    /\ \/ loop'[p] \in {loop[p], LoopOf(state[p])}
       \/ loop[p] = "down" /\ loop'[p] = "follower"

\* stepDown, or a crash, which may bring an older term back from disk.
StepsDown(p) ==
    /\ state'[p] = "Follower" /\ leaderID'[p] = None
    /\ \/ currentTerm'[p] >= currentTerm[p]
       \/ currentTerm'[p] = stored[p][1] /\ loop'[p] = "down"
    /\ loop'[p] = "starting" => "EarlyReply" \in Races

\* handleAppendEntries of a leader that is not stale.
Follows(p) ==
    \E m \in net : /\ m.type = "AppendEntries" /\ m.to = p
                   /\ m.term >= currentTerm[p] /\ currentTerm'[p] = m.term
                   /\ state'[p] = "Follower" /\ leaderID'[p] = m.from
                   /\ loop'[p] = "follower"

\* startElection.
Runs(p) ==
    /\ state'[p] = "Candidate" /\ loop'[p] = "candidate"
    /\ currentTerm'[p] > currentTerm[p]

\* The election is won: by a candidate or, in a cluster of one, at once.
Wins(p) ==
    /\ state'[p] = "Leader" /\ loop'[p] = "starting"
    /\ \/ loop[p] = "candidate" /\ currentTerm'[p] = currentTerm[p]
       \/ currentTerm'[p] > currentTerm[p]
    /\ leaders' = leaders \cup {<<currentTerm'[p], p>>}

NodeStep(p) == KeepsRole(p) \/ StepsDown(p) \/ Follows(p) \/ Runs(p) \/ Wins(p)

\* A step touches the role of one node only.
OthersKeepRole(n) == \A p \in Server : p # n => KeepsRole(p)

LEMMA RoleStartElection ==
    ASSUME TypeOK, NEW n \in Server, StartElection(n)
    PROVE  OthersKeepRole(n) /\ (Runs(n) \/ Wins(n))
<1>1. currentTerm[n] \in Nat /\ currentTerm' = [currentTerm EXCEPT ![n] = currentTerm[n] + 1]
  BY DEF StartElection, TypeOK
<1>2. CASE Quorum = 1
  BY <1>1, <1>2 DEF StartElection, BecomeLeader, TypeOK, OthersKeepRole, KeepsRole, Wins
<1>3. CASE Quorum # 1
  BY <1>1, <1>3 DEF StartElection, TypeOK, OthersKeepRole, KeepsRole, Runs
<1> QED BY <1>2, <1>3

LEMMA RoleHandleRequestVote ==
    ASSUME TypeOK, NEW n \in Server, NEW m \in net, HandleRequestVote(n, m)
    PROVE  OthersKeepRole(n) /\ (KeepsRole(n) \/ StepsDown(n))
<1> DEFINE newer == m.term > currentTerm[n]
           role  == IF newer THEN "Follower" ELSE state[n]
<1>1. currentTerm[n] \in Nat /\ m.term \in Nat
  BY MessageFields DEF TypeOK
<1>2. /\ currentTerm' = [currentTerm EXCEPT ![n] = IF newer THEN m.term ELSE currentTerm[n]]
      /\ state' = [state EXCEPT ![n] = role]
      /\ loop' = [loop EXCEPT ![n] = LoopOf(role)]
      /\ leaderID' = [leaderID EXCEPT ![n] = IF newer THEN None ELSE leaderID[n]]
  BY DEF HandleRequestVote, HintAfter
<1>3. OthersKeepRole(n)
  BY <1>2 DEF TypeOK, OthersKeepRole, KeepsRole
<1>4. CASE m.term > currentTerm[n]
  <2>1. /\ state'[n] = "Follower" /\ leaderID'[n] = None /\ currentTerm'[n] = m.term
        /\ loop'[n] = LoopOf("Follower")
    BY <1>2, <1>4 DEF TypeOK
  <2> QED BY <1>1, <1>3, <1>4, <2>1 DEF StepsDown, LoopOf
<1>5. CASE ~(m.term > currentTerm[n])
  <2>1. /\ state'[n] = state[n] /\ leaderID'[n] = leaderID[n]
        /\ currentTerm'[n] = currentTerm[n] /\ loop'[n] = LoopOf(state[n])
    BY <1>2, <1>5 DEF TypeOK
  <2> QED BY <1>3, <2>1 DEF KeepsRole
<1> QED BY <1>4, <1>5

LEMMA RoleHandleVote ==
    ASSUME TypeOK, NEW n \in Server, NEW m \in net, HandleVote(n, m)
    PROVE  OthersKeepRole(n) /\ (KeepsRole(n) \/ StepsDown(n) \/ Wins(n))
<1>1. currentTerm[n] \in Nat /\ m.term \in Nat
  BY MessageFields DEF TypeOK
<1>2. CASE m.term > currentTerm[n]
  <2>1. /\ currentTerm' = [currentTerm EXCEPT ![n] = m.term]
        /\ state' = [state EXCEPT ![n] = "Follower"]
        /\ loop' = [loop EXCEPT ![n] = "follower"]
        /\ leaderID' = [leaderID EXCEPT ![n] = None]
    BY <1>1, <1>2 DEF HandleVote
  <2>2. OthersKeepRole(n)
    BY <2>1 DEF TypeOK, OthersKeepRole, KeepsRole
  <2>3. /\ state'[n] = "Follower" /\ leaderID'[n] = None /\ currentTerm'[n] = m.term
        /\ loop'[n] = "follower"
    BY <2>1 DEF TypeOK
  <2> QED BY <1>1, <1>2, <2>2, <2>3 DEF StepsDown
<1>3. CASE /\ m.term <= currentTerm[n]
           /\ Cardinality(votes[n] \cup {m.from}) >= Quorum
  <2>1. BecomeLeader(n, currentTerm[n]) /\ currentTerm' = currentTerm /\ loop[n] = "candidate"
    BY <1>1, <1>3 DEF HandleVote
  <2> QED BY <1>1, <2>1 DEF BecomeLeader, TypeOK, OthersKeepRole, KeepsRole, Wins
<1>4. CASE /\ m.term <= currentTerm[n]
           /\ ~(Cardinality(votes[n] \cup {m.from}) >= Quorum)
  <2>1. /\ loop' = [loop EXCEPT ![n] = LoopOf(state[n])]
        /\ UNCHANGED <<currentTerm, state, leaderID>>
    BY <1>1, <1>4 DEF HandleVote
  <2> QED BY <2>1 DEF TypeOK, OthersKeepRole, KeepsRole
<1> QED BY <1>1, <1>2, <1>3, <1>4

LEMMA RoleHandleAppendEntries ==
    ASSUME TypeOK, NEW n \in Server, NEW m \in net, HandleAppendEntries(n, m)
    PROVE  /\ OthersKeepRole(n)
           /\ KeepsRole(n) \/ Follows(n)
           /\ leaders' = leaders
<1>1. currentTerm[n] \in Nat /\ m.term \in Nat
  BY MessageFields DEF TypeOK
<1>2. m.type = "AppendEntries" /\ m.to = n /\ leaders' = leaders
  BY DEF HandleAppendEntries
<1>3. CASE RejectStaleLeader(n, m)
  BY <1>2, <1>3 DEF RejectStaleLeader, persistentVars, TypeOK, OthersKeepRole, KeepsRole
<1>4. CASE FollowLeader(n, m)
  <2>1. Follows(n)
    BY <1>2, <1>4 DEF FollowLeader, TypeOK, Follows
  <2>2. OthersKeepRole(n)
    BY <1>4 DEF FollowLeader, TypeOK, OthersKeepRole, KeepsRole
  <2> QED BY <1>2, <2>1, <2>2
<1> QED BY <1>3, <1>4 DEF HandleAppendEntries

LEMMA RoleHandleAppendEntriesResponse ==
    ASSUME TypeOK, NEW n \in Server, NEW m \in net, HandleAppendEntriesResponse(n, m)
    PROVE  OthersKeepRole(n) /\ (KeepsRole(n) \/ StepsDown(n))
<1>1. currentTerm[n] \in Nat /\ m.term \in Nat
  BY MessageFields DEF TypeOK
<1>2. loop' = loop
  BY DEF HandleAppendEntriesResponse
<1>3. CASE m.term > currentTerm[n]
  <2>1. /\ currentTerm' = [currentTerm EXCEPT ![n] = m.term]
        /\ state' = [state EXCEPT ![n] = "Follower"]
        /\ leaderID' = [leaderID EXCEPT ![n] = None]
    BY <1>1, <1>3 DEF HandleAppendEntriesResponse
  <2>2. OthersKeepRole(n)
    BY <1>2, <2>1 DEF TypeOK, OthersKeepRole, KeepsRole
  <2>3. state'[n] = "Follower" /\ leaderID'[n] = None /\ currentTerm'[n] = m.term
    BY <2>1 DEF TypeOK
  <2>4. loop'[n] = "starting" => "EarlyReply" \in Races
    BY <1>2 DEF HandleAppendEntriesResponse
  <2> QED BY <1>1, <1>3, <2>2, <2>3, <2>4 DEF StepsDown
<1>4. CASE m.term <= currentTerm[n]
  <2>1. UNCHANGED <<currentTerm, state, leaderID>>
    BY <1>1, <1>4 DEF HandleAppendEntriesResponse
  <2> QED BY <1>2, <2>1 DEF OthersKeepRole, KeepsRole
<1> QED BY <1>1, <1>3, <1>4

\* What a crash leaves on disk is no earlier term, or the one that was there.
LEMMA OnDiskTerm ==
    ASSUME TypeOK, NEW n \in Server, NEW disk \in OnDisk(n)
    PROVE  disk[1] >= currentTerm[n] \/ disk[1] = stored[n][1]
<1>1. currentTerm[n] \in Nat
  BY DEF TypeOK
<1>2. \A m \in net : m.term \in Nat
  BY MessageFields
<1> QED BY <1>1, <1>2 DEF OnDisk

LEMMA RoleCrash ==
    ASSUME TypeOK, NEW n \in Server, NEW disk \in OnDisk(n), Crash(n, disk)
    PROVE  OthersKeepRole(n) /\ StepsDown(n)
<1>1. disk[1] >= currentTerm[n] \/ disk[1] = stored[n][1]
  BY OnDiskTerm
<1> QED BY <1>1 DEF Crash, TypeOK, OthersKeepRole, KeepsRole, StepsDown

\* Every step does one of five things to a node's role, and whom it makes a
\* leader is recorded.
LEMMA StepRoles ==
    ASSUME TypeOK, [Next]_vars
    PROVE  /\ \A p \in Server : NodeStep(p)
           /\ leaders' = leaders \/ \E p \in Server : Wins(p)
<1> USE DEF NodeStep
<1>1. CASE UNCHANGED vars
  BY <1>1 DEF vars, KeepsRole
<1>2. ASSUME NEW n \in Server, StartElection(n)
      PROVE  (\A p \in Server : NodeStep(p)) /\ (leaders' = leaders \/ \E p \in Server : Wins(p))
  <2>1. leaders' = leaders \/ Wins(n)
    BY <1>2, RoleStartElection DEF StartElection, Runs, BecomeLeader, TypeOK
  <2> QED BY <1>2, <2>1, RoleStartElection DEF OthersKeepRole
<1>3. ASSUME NEW n \in Server, \/ LeaveElection(n) \/ AppendNoOp(n)
                               \/ (\E v \in Value : HandleApplyRequest(n, v))
                               \/ RefuseApplyRequest(n)
                               \/ (\E p \in Server : ReplicateOnce(n, p))
                               \/ Restart(n)
      PROVE  (\A p \in Server : NodeStep(p)) /\ (leaders' = leaders \/ \E p \in Server : Wins(p))
  <2>1. /\ UNCHANGED <<currentTerm, state, leaderID, leaders>>
        /\ \/ loop' \in {loop, [loop EXCEPT ![n] = LoopOf(state[n])]}
           \/ loop[n] = "down" /\ loop' = [loop EXCEPT ![n] = "follower"]
    BY <1>3 DEF LeaveElection, AppendNoOp, HandleApplyRequest, RefuseApplyRequest,
                ReplicateOnce, Restart, persistentVars
  <2>2. \A p \in Server : KeepsRole(p)
    BY <2>1 DEF KeepsRole, TypeOK
  <2> QED BY <2>1, <2>2
<1>4. ASSUME NEW n \in Server, NEW disk \in OnDisk(n), Crash(n, disk)
      PROVE  (\A p \in Server : NodeStep(p)) /\ (leaders' = leaders \/ \E p \in Server : Wins(p))
  <2>1. leaders' = leaders
    BY <1>4 DEF Crash
  <2> QED BY <1>4, <2>1, RoleCrash DEF OthersKeepRole
<1>5. ASSUME NEW m \in net, \/ HandleRequestVote(m.to, m) \/ HandleVote(m.to, m)
                            \/ HandleAppendEntries(m.to, m)
                            \/ HandleAppendEntriesResponse(m.to, m)
      PROVE  (\A p \in Server : NodeStep(p)) /\ (leaders' = leaders \/ \E p \in Server : Wins(p))
  <2>1. m.to \in Server
    BY MessageFields
  <2>2. leaders' = leaders \/ Wins(m.to)
    <3>1. CASE HandleVote(m.to, m)
      <4>1. \/ leaders' = leaders
            \/ BecomeLeader(m.to, currentTerm[m.to]) /\ UNCHANGED currentTerm
        BY <3>1 DEF HandleVote
      <4>2. loop[m.to] = "candidate"
        BY <3>1 DEF HandleVote
      <4> QED BY <2>1, <4>1, <4>2 DEF BecomeLeader, Wins, TypeOK
    <3> QED BY <1>5, <3>1 DEF HandleRequestVote, HandleAppendEntries,
                              HandleAppendEntriesResponse
  <2>3. /\ OthersKeepRole(m.to)
        /\ NodeStep(m.to)
    BY <1>5, <2>1, RoleHandleRequestVote, RoleHandleVote, RoleHandleAppendEntries,
       RoleHandleAppendEntriesResponse
  <2> QED BY <2>1, <2>2, <2>3 DEF OthersKeepRole
<1>6. ASSUME NEW m \in net, CallFails(m)
      PROVE  (\A p \in Server : NodeStep(p)) /\ (leaders' = leaders \/ \E p \in Server : Wins(p))
  BY <1>6 DEF CallFails, persistentVars, KeepsRole
<1> QED BY <1>1, <1>2, <1>3, <1>4, <1>5, <1>6 DEF Next

LEMMA TermsKept ==
    ASSUME TypeOK, TypeOK', StoreInv, [Next]_vars
    PROVE  \A p \in Server : /\ currentTerm[p] \in Nat /\ currentTerm'[p] \in Nat
                             /\ currentTerm'[p] >= currentTerm[p]
<1>1. \A p \in Server : /\ currentTerm[p] \in Nat /\ currentTerm'[p] \in Nat
                        /\ stored[p][1] = currentTerm[p]
  BY DEF TypeOK, StoreInv
<1> QED BY <1>1, StepRoles DEF NodeStep, KeepsRole, StepsDown, Follows, Runs, Wins

\* As long as no write to it fails, the stable store holds the term and the
\* vote that a node acts on (raft.go:649-656): every change of them is written
\* before the handler returns.
THEOREM StoreInvariant ==
    ASSUME ~StateFaults
    PROVE  Spec => []StoreInv
<1>1. TypeOK /\ StoreInv /\ [Next]_vars => StoreInv'
  BY StoreNext
<1> QED BY <1>1, StoreInit, TypeCorrect, PTL DEF Spec

\* A node's term goes back only at a crash, to the term that a failed write of
\* persistState left on disk (raft.go:650-652); where no such write fails it
\* never does, whatever the node hears and however a crash tears persistState
\* (election.go:204-215), in every cluster.
THEOREM TermsMonotonic == Spec => TermsNeverRegress
<1> DEFINE Back(n) == /\ StateFaults /\ loop'[n] = "down"
                      /\ currentTerm'[n] = stored[n][1]
           A == \A n \in Server : currentTerm'[n] < currentTerm[n] => Back(n)
<1>1. TypeOK /\ (~StateFaults => StoreInv) /\ [Next]_vars => [A]_vars
  <2> SUFFICES ASSUME TypeOK, ~StateFaults => StoreInv, [Next]_vars,
                      NEW n \in Server, currentTerm'[n] < currentTerm[n]
               PROVE  Back(n)
    OBVIOUS
  <2>1. TypeOK'
    BY TypeNext
  <2>2. StateFaults
    BY <2>1, TermsKept
  <2>3. currentTerm[n] \in Nat /\ currentTerm'[n] \in Nat
    BY <2>1 DEF TypeOK
  <2>4. NodeStep(n)
    BY StepRoles
  <2> QED BY <2>2, <2>3, <2>4 DEF NodeStep, KeepsRole, StepsDown, Follows, Runs, Wins
<1>2. Spec => [](~StateFaults => StoreInv)
  <2>1. CASE StateFaults
    <3>1. ~StateFaults => StoreInv
      BY <2>1
    <3> QED BY <3>1, PTL
  <2>2. CASE ~StateFaults
    <3>1. Spec => []StoreInv
      BY <2>2, StoreInvariant
    <3> QED BY <3>1, PTL
  <2> QED BY <2>1, <2>2
<1> QED BY <1>1, <1>2, TypeCorrect, PTL DEF Spec, TermsNeverRegress

-----------------------------------------------------------------------------
(* What a step does to the requests under way *)

\* The same request, whether or not its caller still waits.
SameRequest(x, y) ==
    /\ x.type = "AppendEntries" /\ y.type = "AppendEntries"
    /\ x.from = y.from /\ x.to = y.to /\ x.term = y.term
    /\ x.prevLogIndex = y.prevLogIndex /\ x.prevLogTerm = y.prevLogTerm
    /\ x.entries = y.entries /\ x.leaderCommit = y.leaderCommit

RequestsKept ==
    \A x \in net' : x.type = "AppendEntries" => \E y \in net : SameRequest(x, y)

LEMMA OrphanSame ==
    ASSUME TypeOK, NEW m \in net, Orphan(m).type = "AppendEntries"
    PROVE  SameRequest(Orphan(m), m)
<1>1. m.type = "AppendEntries"
  BY DEF Orphan
<1>2. m \in AppendEntriesReq
  BY <1>1, MessageFields
<1> QED BY <1>1, <1>2 DEF Orphan, AppendEntriesReq, SameRequest

LEMMA SubsetKept ==
    ASSUME \A x \in net' : x.type = "AppendEntries" => x \in net
    PROVE  RequestsKept
  BY DEF RequestsKept, SameRequest

\* An answer is no request.
LEMMA ReplyKept ==
    ASSUME NEW n, NEW m, NEW t, NEW ok, NEW ct, NEW ci,
           Reply(n, m, AppendResponse(n, m, t, ok, ct, ci))
    PROVE  RequestsKept
<1>1. AppendResponse(n, m, t, ok, ct, ci).type = "Appended"
  BY DEF AppendResponse
<1>2. \A x \in net' : x \in net \/ x = AppendResponse(n, m, t, ok, ct, ci)
  BY DEF Reply, DropVotes
<1> QED BY <1>1, <1>2, SubsetKept

\* Only ReplicateOnce makes a request.
LEMMA StepRequests ==
    ASSUME TypeOK, [Next]_vars
    PROVE  RequestsKept \/ \E n, p \in Server : ReplicateOnce(n, p)
<1>1. CASE UNCHANGED vars
  BY <1>1, SubsetKept DEF vars
<1>2. ASSUME NEW n \in Server, StartElection(n) PROVE RequestsKept
  BY <1>2, SubsetKept DEF StartElection, DropVotes
<1>3. ASSUME NEW n \in Server, \/ LeaveElection(n) \/ AppendNoOp(n)
                               \/ (\E v \in Value : HandleApplyRequest(n, v))
                               \/ RefuseApplyRequest(n) \/ Restart(n)
      PROVE  RequestsKept
  BY <1>3, SubsetKept DEF LeaveElection, AppendNoOp, HandleApplyRequest,
                          RefuseApplyRequest, Restart, DropVotes
<1>4. ASSUME NEW n \in Server, NEW disk \in OnDisk(n), Crash(n, disk)
      PROVE  RequestsKept
  <2>1. \A x \in net' : \E m \in net : x = m \/ x = Orphan(m)
    BY <1>4 DEF Crash
  <2>2. \A m \in net : m.type = "AppendEntries" => SameRequest(m, m)
    BY DEF SameRequest
  <2> QED BY <2>1, <2>2, OrphanSame DEF RequestsKept
<1>5. ASSUME NEW m \in net, HandleRequestVote(m.to, m) PROVE RequestsKept
  BY <1>5, SubsetKept DEF HandleRequestVote, DropVotes
<1>6. ASSUME NEW m \in net, HandleVote(m.to, m) PROVE RequestsKept
  <2>1. net' \subseteq net
    BY <1>6 DEF HandleVote, DropVotes
  <2> QED BY <2>1, SubsetKept
<1>7. ASSUME NEW m \in net, HandleAppendEntries(m.to, m) PROVE RequestsKept
  <2> DEFINE n == m.to
  <2>1. CASE RejectStaleLeader(n, m)
    <3>1. \A x \in net' : x \in net \/ x = AppendResponse(n, m, currentTerm[n], FALSE, 0, 0)
      BY <2>1 DEF RejectStaleLeader, DropVotes
    <3>2. AppendResponse(n, m, currentTerm[n], FALSE, 0, 0).type = "Appended"
      BY DEF AppendResponse
    <3> QED BY <3>1, <3>2, SubsetKept
  <2>2. CASE \E t, ok, ct, ci : Reply(n, m, AppendResponse(n, m, t, ok, ct, ci))
    BY <2>2, ReplyKept
  <2> QED
    BY <1>7, <2>1, <2>2 DEF HandleAppendEntries, RejectShortLog, RejectConflict,
                            StoreEntries, StoreFails
<1>8. ASSUME NEW m \in net, HandleAppendEntriesResponse(m.to, m) PROVE RequestsKept
  BY <1>8, SubsetKept DEF HandleAppendEntriesResponse
<1>9. ASSUME NEW m \in net, CallFails(m) PROVE RequestsKept
  <2>1. \A x \in net' : x \in net \/ x = Orphan(m)
    BY <1>9 DEF CallFails
  <2>2. \A y \in net : y.type = "AppendEntries" => SameRequest(y, y)
    BY DEF SameRequest
  <2> QED BY <2>1, <2>2, OrphanSame DEF RequestsKept
<1> QED
  BY <1>1, <1>2, <1>3, <1>4, <1>5, <1>6, <1>7, <1>8, <1>9 DEF Next
-----------------------------------------------------------------------------
(* Roles and hints *)

\* Nodes that lead, and the senders of requests, are recorded leaders.
LeadersRecorded ==
    /\ \A n \in Server : state[n] = "Leader" => <<currentTerm[n], n>> \in leaders
    /\ \A m \in net : m.type = "AppendEntries" => <<m.term, m.from>> \in leaders

\* A hint is right because requests come from leaders only, and a node that
\* leaves its term, or a role other than follower, forgets or replaces its hint.
RolesInv == LoopServesRole /\ LeadersRecorded /\ HintIsLeaderOfTerm

LEMMA RolesInit == Init => RolesInv
  BY DEF Init, RolesInv, LoopServesRole, LeadersRecorded, HintIsLeaderOfTerm

LEMMA RolesNext == TypeOK /\ RolesInv /\ [Next]_vars => RolesInv'
<1> SUFFICES ASSUME TypeOK, RolesInv, [Next]_vars PROVE RolesInv'
  OBVIOUS
<1>1. (\A p \in Server : NodeStep(p)) /\ leaders \subseteq leaders'
  BY StepRoles DEF Wins
<1>2. LoopServesRole'
  <2> SUFFICES ASSUME NEW p \in Server
               PROVE  /\ state'[p] = "Candidate" => loop'[p] = "candidate"
                      /\ state'[p] = "Leader" => loop'[p] \in {"starting", "leader"}
    BY DEF LoopServesRole
  <2>1. /\ state[p] = "Candidate" => loop[p] = "candidate"
        /\ state[p] = "Leader" => loop[p] \in {"starting", "leader"}
    BY DEF RolesInv, LoopServesRole
  <2>2. CASE KeepsRole(p)
    <3>1. state[p] \in States
      BY DEF TypeOK
    <3> QED BY <2>1, <2>2, <3>1 DEF KeepsRole, LoopOf, States
  <2>3. CASE StepsDown(p) \/ Follows(p) \/ Runs(p) \/ Wins(p)
    BY <2>3 DEF StepsDown, Follows, Runs, Wins
  <2> QED BY <1>1, <2>2, <2>3 DEF NodeStep
<1>3. \A p \in Server : state'[p] = "Leader" => <<currentTerm'[p], p>> \in leaders'
  <2> TAKE p \in Server
  <2>1. CASE KeepsRole(p)
    BY <1>1, <2>1 DEF KeepsRole, RolesInv, LeadersRecorded
  <2>2. CASE StepsDown(p) \/ Follows(p) \/ Runs(p) \/ Wins(p)
    BY <2>2 DEF StepsDown, Follows, Runs, Wins
  <2> QED BY <1>1, <2>1, <2>2 DEF NodeStep
<1>4. \A m \in net' : m.type = "AppendEntries" => <<m.term, m.from>> \in leaders'
  <2>1. CASE RequestsKept
    BY <1>1, <2>1 DEF RequestsKept, SameRequest, RolesInv, LeadersRecorded
  <2>2. ASSUME NEW n \in Server, NEW p \in Server, ReplicateOnce(n, p)
        PROVE  \A m \in net' : m.type = "AppendEntries" => <<m.term, m.from>> \in leaders'
    <3>1. <<currentTerm[n], n>> \in leaders
      BY <2>2 DEF ReplicateOnce, RolesInv, LeadersRecorded
    <3>2. \A m \in net' : m \in net \/ (m.term = currentTerm[n] /\ m.from = n)
      BY <2>2 DEF ReplicateOnce
    <3> QED BY <1>1, <3>1, <3>2 DEF RolesInv, LeadersRecorded
  <2> QED BY <2>1, <2>2, StepRequests
<1>5. HintIsLeaderOfTerm'
  <2> SUFFICES ASSUME NEW p \in Server, state'[p] = "Follower", leaderID'[p] # None
               PROVE  <<currentTerm'[p], leaderID'[p]>> \in leaders'
    BY DEF HintIsLeaderOfTerm
  <2>1. CASE KeepsRole(p)
    BY <1>1, <2>1 DEF KeepsRole, RolesInv, HintIsLeaderOfTerm
  <2>2. CASE StepsDown(p) \/ Runs(p) \/ Wins(p)
    BY <2>2 DEF StepsDown, Runs, Wins
  <2>3. CASE Follows(p)
    <3>1. PICK m \in net : /\ m.type = "AppendEntries" /\ currentTerm'[p] = m.term
                           /\ leaderID'[p] = m.from
      BY <2>3 DEF Follows
    <3>2. <<m.term, m.from>> \in leaders
      BY <3>1 DEF RolesInv, LeadersRecorded
    <3> QED BY <1>1, <3>1, <3>2
  <2> QED BY <1>1, <2>1, <2>2, <2>3 DEF NodeStep
<1> QED BY <1>2, <1>3, <1>4, <1>5 DEF RolesInv, LeadersRecorded

\* Roles, loops, hints and requests agree with the record of leaders, in every
\* cluster and with both races open.
THEOREM RolesInvariant == Spec => []RolesInv
  BY RolesInit, RolesNext, TypeCorrect, PTL DEF Spec

\* A candidate is in runCandidate and a leader in runLeader, although replicators
\* write r.state behind the main goroutine's back (raft.go:270-290).
THEOREM LoopsServeRoles == Spec => []LoopServesRole
  BY RolesInvariant, PTL DEF RolesInv

\* The leader that a follower names to its clients was elected in the follower's
\* term, even when replies of an ended leadership are processed late.
THEOREM HintsNameLeaders == Spec => []HintIsLeaderOfTerm
  BY RolesInvariant, PTL DEF RolesInv

-----------------------------------------------------------------------------
(* Logs *)

\* What a step does to the logs: nothing, one node appends an entry of its term,
\* or a follower takes entries from a request, or loses what conflicts with it.
Appends(n) ==
    /\ loop[n] \in {"starting", "leader"}
    /\ loop[n] = "leader" => state[n] = "Leader"
    /\ loop'[n] # "starting"
    /\ \E v \in Value \cup {NoOp} : log' = [log EXCEPT ![n] = Appended(n, v)]
    /\ UNCHANGED <<currentTerm, state, leaders, commitIndex, committed, net>>

Takes(n, m) ==
    /\ m.type = "AppendEntries" /\ m.to = n /\ FollowLeader(n, m)
    /\ PassesCheck(n, m)
    /\ leaders' = leaders /\ RequestsKept
    /\ \E l \in {Merged(log[n], m.prevLogIndex, m.entries),
                 Truncated(log[n], m.prevLogIndex, m.entries)} :
          log' = [log EXCEPT ![n] = l]

LEMMA StepLogs ==
    ASSUME TypeOK, [Next]_vars
    PROVE  \/ log' = log
           \/ \E n \in Server : Appends(n)
           \/ \E m \in net : Takes(m.to, m)
<1> DEFINE Goal == \/ log' = log
                   \/ \E n \in Server : Appends(n)
                   \/ \E m \in net : Takes(m.to, m)
<1> SUFFICES Goal
  OBVIOUS
<1>1. CASE UNCHANGED vars
  BY <1>1 DEF vars
<1>2. ASSUME NEW n \in Server, \/ StartElection(n) \/ LeaveElection(n)
                               \/ RefuseApplyRequest(n) \/ Restart(n)
                               \/ (\E p \in Server : ReplicateOnce(n, p))
                               \/ (\E disk \in OnDisk(n) : Crash(n, disk))
      PROVE  log' = log
  BY <1>2 DEF StartElection, LeaveElection, RefuseApplyRequest, Restart,
              ReplicateOnce, Crash, persistentVars
<1>3. ASSUME NEW n \in Server, AppendNoOp(n) PROVE Goal
  <2>1. loop[n] = "starting" /\ UNCHANGED <<currentTerm, state, leaders, commitIndex, committed, net>>
    BY <1>3 DEF AppendNoOp
  <2>3. loop'[n] # "starting"
    <3>1. loop'[n] = LoopOf(state[n]) /\ state[n] \in States
      BY <1>3 DEF AppendNoOp, TypeOK
    <3> QED BY <3>1, LoopOfType
  <2>2. CASE log' = [log EXCEPT ![n] = Appended(n, NoOp)]
    BY <2>1, <2>2, <2>3 DEF Appends
  <2> QED BY <1>3, <2>2 DEF AppendNoOp
<1>4. ASSUME NEW n \in Server, NEW v \in Value, HandleApplyRequest(n, v)
      PROVE  Goal
  <2>1. Appends(n)
    BY <1>4 DEF HandleApplyRequest, Appends
  <2> QED BY <2>1
<1>5. ASSUME NEW m \in net, \/ HandleRequestVote(m.to, m) \/ HandleVote(m.to, m)
                            \/ HandleAppendEntriesResponse(m.to, m) \/ CallFails(m)
      PROVE  log' = log
  BY <1>5 DEF HandleRequestVote, HandleVote, HandleAppendEntriesResponse,
              CallFails, persistentVars
<1>6. ASSUME NEW m \in net, HandleAppendEntries(m.to, m) PROVE Goal
  <2>1. m.type = "AppendEntries" /\ leaders' = leaders
    BY <1>6 DEF HandleAppendEntries
  <2>2. CASE \/ RejectStaleLeader(m.to, m)
             \/ RejectShortLog(m.to, m) \/ RejectConflict(m.to, m)
    BY <2>2 DEF RejectStaleLeader, RejectShortLog, RejectConflict, persistentVars
  <2>3. CASE FollowLeader(m.to, m) /\ StoreEntries(m.to, m)
    <3>1. RequestsKept
      BY <2>3, ReplyKept DEF StoreEntries
    <3> QED BY <2>1, <2>3, <3>1 DEF StoreEntries, Takes
  <2>4. CASE FollowLeader(m.to, m) /\ StoreFails(m.to, m)
    <3>1. RequestsKept
      BY <2>4, ReplyKept DEF StoreFails
    <3> QED BY <2>1, <2>4, <3>1 DEF StoreFails, Takes
  <2> QED BY <1>6, <2>2, <2>3, <2>4 DEF HandleAppendEntries
<1> QED BY <1>1, <1>2, <1>3, <1>4, <1>5, <1>6 DEF Next

\* A leader never overwrites or deletes its own entries: whoever takes another
\* leader's entries is a follower afterwards (replication.go:248-253).
THEOREM LeadersAppendOnly == Spec => LeaderAppendOnly
<1> DEFINE A == \A n \in Server : state[n] = "Leader" /\ state'[n] = "Leader"
                                    => IsPrefixOf(log[n], log'[n])
<1>1. TypeOK /\ [Next]_vars => [A]_vars
  <2> SUFFICES ASSUME TypeOK, [Next]_vars, NEW n \in Server,
                      state[n] = "Leader", state'[n] = "Leader"
               PROVE  IsPrefixOf(log[n], log'[n])
    OBVIOUS
  <2>1. log[n] \in Seq(Entry)
    BY DEF TypeOK
  <2>2. CASE log'[n] = log[n]
    BY <2>1, <2>2 DEF IsPrefixOf
  <2>3. ASSUME NEW q \in Server, Appends(q), log'[n] # log[n]
        PROVE  IsPrefixOf(log[n], log'[n])
    <3>1. n \in DOMAIN log /\ \E e : log' = [log EXCEPT ![q] = Append(log[q], e)]
      BY <2>3 DEF Appends, Appended, TypeOK
    <3>2. \E e : log'[n] = Append(log[n], e)
      BY <2>3, <3>1
    <3> QED BY <2>1, <3>2 DEF IsPrefixOf
  <2>4. ASSUME NEW m \in net, Takes(m.to, m) PROVE log'[n] = log[n]
    <3>1. m.to \in Server
      BY MessageFields
    <3>2. state'[m.to] = "Follower"
      BY <2>4, <3>1 DEF Takes, FollowLeader, TypeOK
    <3> QED BY <2>4, <3>1, <3>2 DEF Takes, TypeOK
  <2> QED BY <2>2, <2>3, <2>4, StepLogs
<1> QED BY <1>1, TypeCorrect, PTL DEF Spec, LeaderAppendOnly

-----------------------------------------------------------------------------
(* The order of terms *)

\* What handleAppendEntries makes of a log: nothing, if it holds all entries ...
HoldsAll(l, prev, es) ==
    /\ Truncated(l, prev, es) = l /\ Merged(l, prev, es) = l
    /\ prev + Len(es) <= Len(l)
    /\ \A j \in 1..Len(es) : l[prev + j].term = es[j].term

\* ... or up to some entry f of the request, whose predecessors it holds, the old
\* log, then nothing (Truncated) or the rest of the request (Merged).
SplitAt(l, prev, es, f) ==
    /\ prev + f - 1 <= Len(l)
    /\ \A j \in 1..(f - 1) : l[prev + j].term = es[j].term
    /\ prev + f <= Len(l) => l[prev + f].term # es[f].term
    /\ Len(Truncated(l, prev, es)) = prev + f - 1
    /\ \A i \in 1..(prev + f - 1) :
         Truncated(l, prev, es)[i] = l[i] /\ Merged(l, prev, es)[i] = l[i]
    /\ Len(Merged(l, prev, es)) = prev + Len(es)
    /\ \A i \in (prev + f)..(prev + Len(es)) : Merged(l, prev, es)[i] = es[i - prev]

LEMMA MergeCases ==
    ASSUME NEW l \in Seq(Entry), NEW es \in Seq(Entry), NEW prev \in Nat,
           prev <= Len(l)
    PROVE  HoldsAll(l, prev, es) \/ \E f \in 1..Len(es) : SplitAt(l, prev, es, f)
<1> DEFINE M == Mismatches(l, prev, es)
<1>1. CASE M = {}
  <2>1. Truncated(l, prev, es) = l /\ Merged(l, prev, es) = l
    BY <1>1 DEF Truncated, Merged
  <2>2. \A j \in 1..Len(es) : ~(prev + j > Len(l)) /\ l[prev + j].term = es[j].term
    BY <1>1 DEF Mismatches
  <2>3. prev + Len(es) <= Len(l)
    <3>1. CASE Len(es) = 0
      BY <3>1
    <3>2. CASE Len(es) # 0
      <4>1. Len(es) \in 1..Len(es)
        BY <3>2
      <4> QED BY <2>2, <4>1
    <3> QED BY <3>1, <3>2
  <2> QED BY <2>1, <2>2, <2>3 DEF HoldsAll
<1>2. CASE M # {}
  <2>1. M \in SUBSET Nat /\ M \subseteq 1..Len(es)
    BY DEF Mismatches
  <2>2. \E i \in M : \A j \in M : i <= j
    BY <1>2, <2>1, MinExists
  <2> DEFINE f == FirstMismatch(l, prev, es)
  <2>3. f \in M /\ \A j \in M : f <= j
    BY <2>2 DEF FirstMismatch
  <2>4. f \in 1..Len(es)
    BY <2>1, <2>3
  <2>5. \A j \in 1..(f - 1) : prev + j <= Len(l) /\ l[prev + j].term = es[j].term
    <3> TAKE j \in 1..(f - 1)
    <3>1. j \in 1..Len(es) /\ ~(f <= j)
      BY <2>4
    <3>2. j \notin M
      BY <2>3, <3>1
    <3>3. ~(prev + j > Len(l)) /\ l[prev + j].term = es[j].term
      BY <3>1, <3>2 DEF Mismatches
    <3> QED BY <3>1, <3>3
  <2>6. prev + f - 1 <= Len(l)
    <3>1. CASE f = 1
      BY <3>1
    <3>2. CASE f # 1
      BY <2>4, <2>5, <3>2
    <3> QED BY <3>1, <3>2
  <2>7. prev + f <= Len(l) => l[prev + f].term # es[f].term
    BY <2>3, <2>4 DEF Mismatches
  <2> DEFINE s == SubSeq(l, 1, prev + f - 1)
             r == SubSeq(es, f, Len(es))
  <2>8. s \in Seq(Entry) /\ Len(s) = prev + f - 1 /\ \A i \in 1..(prev + f - 1) : s[i] = l[i]
    <3>1. prev + f - 1 \in 0..Len(l)
      BY <2>4, <2>6
    <3> HIDE DEF f
    <3> QED BY <3>1, SubSeqProperties
  <2>9. /\ r \in Seq(Entry) /\ Len(r) = Len(es) - f + 1
        /\ \A i \in 1..(Len(es) - f + 1) : r[i] = es[f + i - 1]
    <3> HIDE DEF f
    <3> QED BY <2>4, SubSeqProperties
  <2>10. Truncated(l, prev, es) = s /\ Merged(l, prev, es) = s \o r
    BY <1>2 DEF Truncated, Merged
  <2> HIDE DEF f, s, r, M
  <2>11. /\ Len(s \o r) = prev + Len(es)
         /\ \A i \in 1..(prev + f - 1) : (s \o r)[i] = s[i]
         /\ \A i \in (prev + f)..(prev + Len(es)) : (s \o r)[i] = r[i - (prev + f - 1)]
    <3>1. /\ Len(s \o r) = Len(s) + Len(r)
          /\ \A i \in 1..(Len(s) + Len(r)) :
               (s \o r)[i] = IF i <= Len(s) THEN s[i] ELSE r[i - Len(s)]
      BY <2>8, <2>9, ConcatProperties
    <3>2. Len(s) + Len(r) = prev + Len(es) /\ Len(s) = prev + f - 1
      BY <2>4, <2>8, <2>9
    <3>3. \A i \in 1..(prev + f - 1) : i \in 1..(Len(s) + Len(r)) /\ i <= Len(s)
      BY <2>4, <3>2
    <3>4. \A i \in (prev + f)..(prev + Len(es)) :
             i \in 1..(Len(s) + Len(r)) /\ ~(i <= Len(s))
      BY <2>4, <3>2
    <3> QED BY <3>1, <3>2, <3>3, <3>4
  <2>12. \A i \in (prev + f)..(prev + Len(es)) : (s \o r)[i] = es[i - prev]
    <3> TAKE i \in (prev + f)..(prev + Len(es))
    <3>1. i - (prev + f - 1) \in 1..(Len(es) - f + 1)
      BY <2>4
    <3>2. f + (i - (prev + f - 1)) - 1 = i - prev
      BY <2>4
    <3>3. r[i - (prev + f - 1)] = es[f + (i - (prev + f - 1)) - 1]
      BY <2>9, <3>1
    <3>4. (s \o r)[i] = r[i - (prev + f - 1)]
      BY <2>11
    <3> QED BY <3>2, <3>3, <3>4
  <2>13. \A i \in 1..(prev + f - 1) : (s \o r)[i] = l[i]
    BY <2>8, <2>11
  <2>14. SplitAt(l, prev, es, f)
    BY <2>5, <2>6, <2>7, <2>8, <2>10, <2>11, <2>12, <2>13 DEF SplitAt
  <2> QED BY <2>4, <2>14
<1> QED BY <1>1, <1>2

\* The terms of l are in order and none is above t.
Ordered(l, t) ==
    \A i \in DOMAIN l : /\ l[i].term <= t
                        /\ i > 1 => l[i - 1].term <= l[i].term

\* The entries of a request are in order, after prevLogTerm and up to its term.
RequestOrdered(m) ==
    /\ Ordered(m.entries, m.term)
    /\ m.prevLogIndex > 0 /\ m.entries # <<>> => m.prevLogTerm <= m.entries[1].term

\* A follower's log stays in order because requests are, too, and the entry at
\* prevLogIndex has the term that the request names.
OrderInv ==
    /\ \A n \in Server : Ordered(log[n], currentTerm[n])
    /\ \A m \in net : m.type = "AppendEntries" => RequestOrdered(m)

LEMMA EntryTerms ==
    ASSUME NEW l \in Seq(Entry)
    PROVE  \A i \in 1..Len(l) : l[i].term \in Nat
<1> TAKE i \in 1..Len(l)
<1>1. l[i] \in Entry
  OBVIOUS
<1> QED BY <1>1 DEF Entry

LEMMA OrderedAppend ==
    ASSUME NEW l \in Seq(Entry), NEW t \in Nat, NEW v \in Value \cup {NoOp},
           Ordered(l, t)
    PROVE  Ordered(Append(l, [term |-> t, value |-> v]), t)
<1> DEFINE e == [term |-> t, value |-> v]
           k == Append(l, e)
<1>1. Len(k) = Len(l) + 1 /\ DOMAIN k = 1..(Len(l) + 1) /\ k[Len(l) + 1] = e
      /\ \A i \in 1..Len(l) : k[i] = l[i]
  OBVIOUS
<1>2. e.term = t
  OBVIOUS
<1>3. \A i \in 1..Len(l) : l[i].term \in Nat
  BY EntryTerms
<1> HIDE DEF k, e
<1>4. SUFFICES ASSUME NEW i \in DOMAIN k
               PROVE  k[i].term <= t /\ (i > 1 => k[i - 1].term <= k[i].term)
  BY DEF Ordered, k, e
<1>5. CASE i \in 1..Len(l)
  BY <1>1, <1>5 DEF Ordered
<1>6. CASE i = Len(l) + 1
  <2>1. i > 1 => l[i - 1].term <= t /\ k[i - 1] = l[i - 1]
    BY <1>1, <1>6 DEF Ordered
  <2> QED BY <1>1, <1>2, <1>6, <2>1
<1> QED BY <1>1, <1>5, <1>6

LEMMA OrderedMerge ==
    ASSUME NEW l \in Seq(Entry), NEW es \in Seq(Entry), NEW prev \in Nat,
           NEW t \in Nat, NEW u \in Nat, u <= t,
           prev <= Len(l), Ordered(l, u), Ordered(es, t),
           prev > 0 /\ es # <<>> => l[prev].term <= es[1].term,
           NEW k \in {Merged(l, prev, es), Truncated(l, prev, es)}
    PROVE  Ordered(k, t)
<1> DEFINE T == Truncated(l, prev, es)
           G == Merged(l, prev, es)
<1>1. \A i \in 1..Len(l) : l[i].term \in Nat
  BY EntryTerms
<1>2. \A i \in 1..Len(es) : es[i].term \in Nat
  BY EntryTerms
<1>3. T \in Seq(Entry) /\ G \in Seq(Entry)
  BY MergedType
<1>4. DOMAIN T = 1..Len(T) /\ DOMAIN G = 1..Len(G)
  BY <1>3
<1>5. \A i \in 1..Len(l) : l[i].term <= t /\ (i > 1 => l[i - 1].term <= l[i].term)
  BY <1>1 DEF Ordered
<1>6. \A i \in 1..Len(es) : es[i].term <= t /\ (i > 1 => es[i - 1].term <= es[i].term)
  BY DEF Ordered
<1>7. CASE HoldsAll(l, prev, es)
  BY <1>5, <1>7 DEF Ordered, HoldsAll
<1>8. ASSUME NEW f \in 1..Len(es), SplitAt(l, prev, es, f)
      PROVE  Ordered(k, t)
  <2>0. /\ prev + f - 1 <= Len(l)
        /\ \A j \in 1..(f - 1) : l[prev + j].term = es[j].term
        /\ Len(T) = prev + f - 1
        /\ \A i \in 1..(prev + f - 1) : T[i] = l[i] /\ G[i] = l[i]
        /\ Len(G) = prev + Len(es)
        /\ \A i \in (prev + f)..(prev + Len(es)) : G[i] = es[i - prev]
    BY <1>8 DEF SplitAt
  <2> HIDE DEF T, G
  <2>1. Ordered(T, t)
    <3> SUFFICES ASSUME NEW i \in 1..Len(T)
                 PROVE  T[i].term <= t /\ (i > 1 => T[i - 1].term <= T[i].term)
      BY <1>4 DEF Ordered
    <3>1. i \in 1..Len(l) /\ T[i] = l[i] /\ (i > 1 => T[i - 1] = l[i - 1])
      BY <2>0
    <3> QED BY <1>5, <3>1
  <2>2. Ordered(G, t)
    <3> SUFFICES ASSUME NEW i \in 1..Len(G)
                 PROVE  G[i].term <= t /\ (i > 1 => G[i - 1].term <= G[i].term)
      BY <1>4 DEF Ordered
    <3>1. CASE i <= prev + f - 1
      <4>1. i \in 1..Len(l) /\ G[i] = l[i] /\ (i > 1 => G[i - 1] = l[i - 1])
        BY <2>0, <3>1
      <4> QED BY <1>5, <4>1
    <3>2. CASE i > prev + f
      <4>1. i - prev \in 1..Len(es) /\ i - prev > 1 /\ G[i] = es[i - prev]
            /\ G[i - 1] = es[(i - prev) - 1]
        <5>1. i \in (prev + f)..(prev + Len(es)) /\ i - 1 \in (prev + f)..(prev + Len(es))
          BY <2>0, <3>2
        <5>2. (i - 1) - prev = (i - prev) - 1
          OBVIOUS
        <5> QED BY <2>0, <5>1, <5>2
      <4> QED BY <1>6, <4>1
    <3>3. CASE i = prev + f
      <4>1. G[i] = es[f] /\ f \in 1..Len(es)
        <5>1. i \in (prev + f)..(prev + Len(es)) /\ i - prev = f
          BY <2>0, <3>3
        <5> QED BY <2>0, <5>1
      <4>2. CASE f > 1
        <5>1. G[i - 1] = l[prev + (f - 1)] /\ f - 1 \in 1..(f - 1)
          BY <2>0, <3>3, <4>2
        <5>2. l[prev + (f - 1)].term = es[f - 1].term
          BY <2>0, <5>1
        <5> QED BY <1>6, <4>1, <4>2, <5>1, <5>2
      <4>3. CASE f = 1 /\ i > 1
        <5>1. G[i - 1] = l[prev] /\ prev > 0 /\ es # <<>>
          BY <2>0, <3>3, <4>3
        <5> QED BY <1>6, <4>1, <4>3, <5>1
      <4> QED BY <1>6, <4>1, <4>2, <4>3
    <3> QED BY <2>0, <3>1, <3>2, <3>3
  <2> QED BY <2>1, <2>2 DEF T, G
<1> QED BY <1>7, <1>8, MergeCases

LEMMA OrderInit == Init => OrderInv
  BY DEF Init, OrderInv, Ordered

LEMMA OrderNext == TypeOK /\ StoreInv /\ OrderInv /\ [Next]_vars => OrderInv'
<1> SUFFICES ASSUME TypeOK, StoreInv, OrderInv, [Next]_vars PROVE OrderInv'
  OBVIOUS
<1>1. \A p \in Server : currentTerm[p] \in Nat /\ log[p] \in Seq(Entry)
  BY DEF TypeOK
<1>2. \A p \in Server : currentTerm'[p] \in Nat
  BY TypeNext DEF TypeOK
<1>3. \A p \in Server : currentTerm'[p] >= currentTerm[p]
  BY TypeNext, TermsKept
<1>4. \A p \in Server : log'[p] = log[p] => Ordered(log'[p], currentTerm'[p])
  <2> SUFFICES ASSUME NEW p \in Server, log'[p] = log[p], NEW i \in 1..Len(log[p])
               PROVE  /\ log[p][i].term <= currentTerm'[p]
                      /\ i > 1 => log[p][i - 1].term <= log[p][i].term
    BY <1>1 DEF Ordered
  <2>1. log[p][i].term \in Nat
    BY <1>1, EntryTerms
  <2>2. /\ log[p][i].term <= currentTerm[p]
        /\ i > 1 => log[p][i - 1].term <= log[p][i].term
    BY <1>1 DEF OrderInv, Ordered
  <2> QED BY <1>1, <1>2, <1>3, <2>1, <2>2
<1>5. \A p \in Server : Ordered(log'[p], currentTerm'[p])
  <2>1. CASE log' = log
    BY <1>4, <2>1
  <2>2. ASSUME NEW n \in Server, Appends(n), NEW p \in Server
        PROVE  Ordered(log'[p], currentTerm'[p])
    <3>1. PICK v \in Value \cup {NoOp} : log' = [log EXCEPT ![n] = Appended(n, v)]
      BY <2>2 DEF Appends
    <3>2. CASE p # n
      <4>1. log'[p] = log[p]
        BY <3>1, <3>2 DEF TypeOK
      <4> QED BY <1>4, <4>1
    <3>3. CASE p = n
      <4>1. log'[n] = Append(log[n], [term |-> currentTerm[n], value |-> v])
            /\ currentTerm'[n] = currentTerm[n]
        BY <2>2, <3>1 DEF TypeOK, Appended, Appends
      <4>2. Ordered(log[n], currentTerm[n])
        BY DEF OrderInv
      <4> QED BY <1>1, <3>3, <4>1, <4>2, OrderedAppend
    <3> QED BY <3>2, <3>3
  <2>3. ASSUME NEW m \in net, Takes(m.to, m), NEW p \in Server
        PROVE  Ordered(log'[p], currentTerm'[p])
    <3> DEFINE n == m.to
    <3>1. n \in Server /\ m \in AppendEntriesReq
      BY <2>3, MessageFields DEF Takes
    <3>2. PICK l \in {Merged(log[n], m.prevLogIndex, m.entries),
                      Truncated(log[n], m.prevLogIndex, m.entries)} :
             log' = [log EXCEPT ![n] = l]
      BY <2>3 DEF Takes
    <3>3. CASE p # n
      <4>1. log'[p] = log[p]
        BY <3>1, <3>2, <3>3 DEF TypeOK
      <4> QED BY <1>4, <4>1
    <3>4. CASE p = n
      <4>1. /\ m.entries \in Seq(Entry) /\ m.prevLogIndex \in Nat /\ m.term \in Nat
            /\ m.prevLogTerm \in Nat
        BY <3>1 DEF AppendEntriesReq
      <4>2. log'[n] = l /\ currentTerm'[n] = m.term /\ m.term >= currentTerm[n]
        BY <2>3, <3>1, <3>2 DEF TypeOK, Takes, FollowLeader
      <4>3. Ordered(log[n], currentTerm[n]) /\ RequestOrdered(m)
        BY <2>3, <3>1 DEF OrderInv, Takes
      <4>4. /\ m.prevLogIndex <= Len(log[n])
            /\ m.prevLogIndex > 0 => log[n][m.prevLogIndex].term = m.prevLogTerm
        BY <2>3 DEF Takes, PassesCheck, PrevMatches
      <4>5. /\ Ordered(m.entries, m.term)
            /\ m.prevLogIndex > 0 /\ m.entries # <<>>
                 => log[n][m.prevLogIndex].term <= m.entries[1].term
        BY <4>3, <4>4 DEF RequestOrdered
      <4>6. log[n] \in Seq(Entry) /\ currentTerm[n] \in Nat /\ currentTerm[n] <= m.term
        BY <1>1, <3>1, <4>1, <4>2
      <4> HIDE DEF n
      <4>7. Ordered(l, m.term)
        BY <4>1, <4>3, <4>4, <4>5, <4>6, OrderedMerge
      <4> QED BY <3>4, <4>2, <4>7
    <3> QED BY <3>3, <3>4
  <2> QED BY <2>1, <2>2, <2>3, StepLogs
<1>6. \A m \in net' : m.type = "AppendEntries" => RequestOrdered(m)
  <2>1. CASE RequestsKept
    BY <2>1 DEF RequestsKept, SameRequest, RequestOrdered, OrderInv
  <2>2. ASSUME NEW n \in Server, NEW p \in Server, ReplicateOnce(n, p),
               NEW m \in net', m.type = "AppendEntries"
        PROVE  RequestOrdered(m)
    <3> DEFINE prev == nextIndex[n][p] - 1
               l == log[n]
    <3>1. CASE m \in net
      BY <2>2, <3>1 DEF OrderInv
    <3>2. CASE m \notin net
      <4>1. /\ m.term = currentTerm[n] /\ m.prevLogIndex = prev
            /\ m.prevLogTerm = TermAt(l, prev)
            /\ m.entries = SubSeq(l, prev + 1, Len(l))
        BY <2>2, <3>2 DEF ReplicateOnce
      <4>2. prev \in Nat /\ l \in Seq(Entry) /\ Ordered(l, currentTerm[n])
        <5>1. nextIndex[n] \in [Server -> Nat \ {0}]
          BY DEF TypeOK
        <5>2. nextIndex[n][p] \in Nat \ {0}
          BY <5>1
        <5> QED BY <1>1, <5>2 DEF OrderInv
      <4> HIDE DEF prev, l
      <4>3. CASE prev >= Len(l)
        <5>1. m.entries = <<>>
          BY <4>1, <4>2, <4>3
        <5> QED BY <5>1 DEF RequestOrdered, Ordered
      <4>4. CASE prev < Len(l)
        <5>1. /\ Len(m.entries) = Len(l) - prev /\ DOMAIN m.entries = 1..(Len(l) - prev)
              /\ \A i \in 1..(Len(l) - prev) : m.entries[i] = l[prev + i]
          <6>1. SubSeq(l, prev + 1, Len(l)) \in Seq(Entry)
            BY <4>2, <4>4, SubSeqProperties
          <6>2. /\ Len(SubSeq(l, prev + 1, Len(l))) = Len(l) - prev
                /\ \A i \in 1..(Len(l) - prev) :
                     SubSeq(l, prev + 1, Len(l))[i] = l[(prev + 1) + i - 1]
            BY <4>2, <4>4, SubSeqProperties
          <6>3. \A i \in 1..(Len(l) - prev) : (prev + 1) + i - 1 = prev + i
            BY <4>2
          <6> QED BY <4>1, <6>1, <6>2, <6>3
        <5>2. \A i \in 1..Len(l) : /\ l[i].term <= currentTerm[n]
                                   /\ i > 1 => l[i - 1].term <= l[i].term
          <6>1. DOMAIN l = 1..Len(l)
            BY <4>2
          <6> QED BY <4>2, <6>1 DEF Ordered
        <5>3. Ordered(m.entries, m.term)
          <6> SUFFICES ASSUME NEW i \in 1..(Len(l) - prev)
                       PROVE  /\ m.entries[i].term <= currentTerm[n]
                              /\ i > 1 => m.entries[i - 1].term <= m.entries[i].term
            BY <4>1, <5>1 DEF Ordered
          <6>1. prev + i \in 1..Len(l) /\ m.entries[i] = l[prev + i]
            BY <4>2, <5>1
          <6>2. i > 1 => m.entries[i - 1] = l[(prev + i) - 1] /\ prev + i > 1
            <7> HAVE i > 1
            <7>1. i - 1 \in 1..(Len(l) - prev) /\ prev + (i - 1) = (prev + i) - 1
              BY <4>2
            <7> QED BY <4>2, <5>1, <7>1
          <6> QED BY <5>2, <6>1, <6>2
        <5>4. prev > 0 => m.prevLogTerm <= m.entries[1].term
          <6> HAVE prev > 0
          <6>1. m.prevLogTerm = l[prev].term /\ m.entries[1] = l[prev + 1]
            BY <4>1, <4>2, <4>4, <5>1 DEF TermAt
          <6>2. prev + 1 \in 1..Len(l) /\ prev + 1 > 1 /\ (prev + 1) - 1 = prev
            BY <4>2, <4>4
          <6> QED BY <5>2, <6>1, <6>2
        <5> QED BY <4>1, <5>3, <5>4 DEF RequestOrdered
      <4> QED BY <4>2, <4>3, <4>4
    <3> QED BY <3>1, <3>2
  <2> QED BY <2>1, <2>2, StepRequests
<1> QED BY <1>5, <1>6 DEF OrderInv

\* The terms in a log never decrease and never pass the node's own term, in every
\* cluster whose stable stores fail no write, whatever replicators do to the role
\* in between and whichever writes of the log fail: what isLogUpToDate
\* (election.go:190-198) and the search of replicateOnce for a conflicting term
\* rely on.
THEOREM LogTermsInOrder ==
    ASSUME ~StateFaults
    PROVE  Spec => []LogTermsOrdered
<1>1. OrderInv => LogTermsOrdered
  BY DEF OrderInv, Ordered, LogTermsOrdered
<1>2. Spec => []StoreInv
  BY StoreInvariant
<1> QED BY <1>1, <1>2, OrderInit, OrderNext, TypeCorrect, PTL DEF Spec

-----------------------------------------------------------------------------
(***************************************************************************)
(* Log Matching, for every cluster and every bound, with disks that fail   *)
(* and nodes that crash, as long as both races of Raft are closed and no   *)
(* write to the stable store fails.                                        *)
(*                                                                         *)
(* The argument needs to know more than the state shows: the log that the  *)
(* leader of each term had last as leader.  The inductive invariant says   *)
(* that there are such logs, led[t] for each term t, such that every log   *)
(* follows them: up to an entry of term t it is led[t].  Two logs that     *)
(* hold entries of one term at one index then both are led[t] up to there. *)
(***************************************************************************)

\* l has an entry of term t at i.
Holds(l, i, t) == i \in 1..Len(l) /\ l[i].term = t

AgreeUpTo(k, l, i) == i <= Len(k) /\ i <= Len(l) /\ \A j \in 1..i : k[j] = l[j]

LogPerTerm(led) == led \in [Nat -> Seq(Entry)]

\* Up to each of its entries, l is the log of the leader that made the entry.
FollowsLeaders(led, l) == \A i \in 1..Len(l) : AgreeUpTo(l, led[l[i].term], i)

\* Request m was cut from log l: all entries after prevLogIndex.
CutFrom(l, m) ==
    /\ m.entries = SubSeq(l, m.prevLogIndex + 1, Len(l))
    /\ m.prevLogTerm = TermAt(l, m.prevLogIndex)

\* A term is led once: its leader's term is no earlier, and the leader runs for
\* no other election in it.  With EarlyReply closed, runLeader appends its no-op
\* as the leader that it became.
TermsLed ==
    /\ \A l \in leaders : /\ l[1] >= 1 /\ l[1] <= currentTerm[l[2]]
                          /\ l[1] = currentTerm[l[2]] => loop[l[2]] # "candidate"
    /\ \A n \in Server : loop[n] = "candidate" => currentTerm[n] >= 1
    /\ \A n \in Server : loop[n] = "starting" => state[n] = "Leader"

LedLogs(led) ==
    /\ \A n \in Server : FollowsLeaders(led, log[n])
    /\ \A t \in Nat : FollowsLeaders(led, led[t])
    /\ \A t \in Nat : led[t] # <<>> => \E n \in Server : <<t, n>> \in leaders
    /\ \A n \in Server : state[n] = "Leader" => log[n] = led[currentTerm[n]]

LedRequests(led) ==
    \A m \in net : m.type = "AppendEntries" =>
        \E l \in Seq(Entry) : IsPrefixOf(l, led[m.term]) /\ CutFrom(l, m)

MatchInv(led) == LedLogs(led) /\ LedRequests(led)

\* The logs of leaders only grow, and only while they lead.
LedGrows(led, new) ==
    \A t \in Nat :
        /\ IsPrefixOf(led[t], new[t])
        /\ new[t] # led[t] => \E n \in Server : state'[n] = "Leader" /\ currentTerm'[n] = t

-----------------------------------------------------------------------------
(* Logs that follow the leaders' *)

LEMMA LedLog ==
    ASSUME NEW led, LogPerTerm(led), NEW t \in Nat
    PROVE  led[t] \in Seq(Entry)
  BY DEF LogPerTerm

LEMMA SameTermAgree ==
    ASSUME NEW led, LogPerTerm(led), NEW k \in Seq(Entry), NEW l \in Seq(Entry),
           FollowsLeaders(led, k), FollowsLeaders(led, l), NEW t, NEW i,
           Holds(k, i, t), Holds(l, i, t)
    PROVE  AgreeUpTo(k, l, i)
<1>1. AgreeUpTo(k, led[t], i) /\ AgreeUpTo(l, led[t], i)
  BY DEF FollowsLeaders, Holds
<1> QED BY <1>1 DEF AgreeUpTo

LEMMA PrefixFollows ==
    ASSUME NEW led, LogPerTerm(led), NEW k \in Seq(Entry), NEW l \in Seq(Entry),
           FollowsLeaders(led, l), AgreeUpTo(k, l, Len(k))
    PROVE  FollowsLeaders(led, k)
<1> SUFFICES ASSUME NEW i \in 1..Len(k)
             PROVE  AgreeUpTo(k, led[k[i].term], i)
  BY DEF FollowsLeaders
<1>1. i \in 1..Len(l) /\ k[i] = l[i] /\ \A j \in 1..i : k[j] = l[j]
  BY DEF AgreeUpTo
<1>2. AgreeUpTo(l, led[l[i].term], i)
  BY <1>1 DEF FollowsLeaders
<1> QED BY <1>1, <1>2 DEF AgreeUpTo

LEMMA GrowFollows ==
    ASSUME NEW led, LogPerTerm(led), NEW new, LogPerTerm(new),
           \A t \in Nat : IsPrefixOf(led[t], new[t]),
           NEW l \in Seq(Entry), FollowsLeaders(led, l)
    PROVE  FollowsLeaders(new, l)
<1> SUFFICES ASSUME NEW i \in 1..Len(l)
             PROVE  AgreeUpTo(l, new[l[i].term], i)
  BY DEF FollowsLeaders
<1> DEFINE t == l[i].term
<1>1. t \in Nat
  BY EntryTerms
<1>2. AgreeUpTo(l, led[t], i)
  BY DEF FollowsLeaders
<1>3. led[t] \in Seq(Entry) /\ new[t] \in Seq(Entry) /\ IsPrefixOf(led[t], new[t])
  BY <1>1, LedLog
<1> HIDE DEF t
<1>4. i <= Len(new[t]) /\ \A j \in 1..i : l[j] = new[t][j]
  <2>1. Len(led[t]) \in Nat /\ Len(new[t]) \in Nat /\ DOMAIN led[t] = 1..Len(led[t])
    BY <1>3
  <2>2. i <= Len(led[t]) /\ Len(led[t]) <= Len(new[t])
        /\ \A j \in DOMAIN led[t] : led[t][j] = new[t][j]
    BY <1>2, <1>3 DEF AgreeUpTo, IsPrefixOf
  <2>3. \A j \in 1..i : j \in DOMAIN led[t]
    BY <2>1, <2>2
  <2> QED BY <1>2, <2>1, <2>2, <2>3 DEF AgreeUpTo
<1> QED BY <1>4 DEF AgreeUpTo, t

LEMMA PrefixIsAgree ==
    ASSUME NEW k \in Seq(Entry), NEW l \in Seq(Entry)
    PROVE  IsPrefixOf(k, l) <=> AgreeUpTo(k, l, Len(k))
  BY DEF IsPrefixOf, AgreeUpTo

\* The entries of a request that was cut at or before the end of a log.
LEMMA CutEntries ==
    ASSUME NEW l \in Seq(Entry), NEW prev \in Nat, prev <= Len(l),
           NEW es, es = SubSeq(l, prev + 1, Len(l))
    PROVE  /\ es \in Seq(Entry) /\ Len(es) = Len(l) - prev
           /\ \A i \in 1..(Len(l) - prev) : es[i] = l[prev + i]
<1>1. CASE prev = Len(l)
  BY <1>1
<1>2. CASE prev < Len(l)
  <2>1. /\ es \in Seq(Entry) /\ Len(es) = Len(l) - prev
        /\ \A i \in 1..(Len(l) - prev) : es[i] = l[(prev + 1) + i - 1]
    BY <1>2, SubSeqProperties
  <2>2. \A i \in 1..(Len(l) - prev) : (prev + 1) + i - 1 = prev + i
    OBVIOUS
  <2> QED BY <2>1, <2>2
<1> QED BY <1>1, <1>2

\* A log that passes the check of a request and takes its entries holds all of
\* the log that the request was cut from; and whether it takes them or only loses
\* what conflicts, it keeps everything in which it agrees with the leader.
LEMMA MergeFollows ==
    ASSUME NEW led, LogPerTerm(led), NEW l \in Seq(Entry), NEW k \in Seq(Entry),
           FollowsLeaders(led, l), FollowsLeaders(led, k),
           NEW prev \in Nat, prev <= Len(l), prev <= Len(k),
           prev > 0 => l[prev].term = k[prev].term,
           NEW es, es = SubSeq(k, prev + 1, Len(k))
    PROVE  /\ FollowsLeaders(led, Truncated(l, prev, es))
           /\ FollowsLeaders(led, Merged(l, prev, es))
           /\ AgreeUpTo(Merged(l, prev, es), k, Len(k))
           /\ \A x \in Seq(Entry), i \in Nat :
                 IsPrefixOf(k, x) /\ AgreeUpTo(l, x, i) =>
                    /\ AgreeUpTo(Truncated(l, prev, es), l, i)
                    /\ AgreeUpTo(Merged(l, prev, es), l, i)
<1> DEFINE T == Truncated(l, prev, es)
           G == Merged(l, prev, es)
<1>1. /\ es \in Seq(Entry) /\ Len(es) = Len(k) - prev
      /\ \A i \in 1..(Len(k) - prev) : es[i] = k[prev + i]
  BY CutEntries
<1>2. T \in Seq(Entry) /\ G \in Seq(Entry)
  BY <1>1, MergedType
\* an agreement in term at one of the entries is an agreement up to there
<1>3. \A j \in 0..Len(es) : prev + j <= Len(l)
         /\ (j > 0 => l[prev + j].term = es[j].term) => AgreeUpTo(l, k, prev + j)
  <2> SUFFICES ASSUME NEW j \in 0..Len(es), prev + j <= Len(l),
                      j > 0 => l[prev + j].term = es[j].term
               PROVE  AgreeUpTo(l, k, prev + j)
    OBVIOUS
  <2>1. CASE prev + j = 0
    BY <2>1 DEF AgreeUpTo
  <2>2. CASE prev + j > 0
    <3>1. prev + j \in 1..Len(l) /\ prev + j \in 1..Len(k)
      BY <1>1, <2>2
    <3>2. l[prev + j].term = k[prev + j].term
      BY <1>1, <2>2
    <3> QED BY <3>1, <3>2, SameTermAgree DEF Holds
  <2> QED BY <2>1, <2>2
<1>4. CASE HoldsAll(l, prev, es)
  <2>0. /\ T = l /\ G = l /\ prev + Len(es) <= Len(l)
        /\ \A j \in 1..Len(es) : l[prev + j].term = es[j].term
    BY <1>4 DEF HoldsAll
  <2>1. Len(es) \in 0..Len(es) /\ (Len(es) > 0 => Len(es) \in 1..Len(es))
    BY <1>1
  <2>2. AgreeUpTo(l, k, prev + Len(es))
    BY <1>3, <2>0, <2>1
  <2>3. prev + Len(es) = Len(k)
    BY <1>1
  <2>4. \A x \in Seq(Entry), i \in Nat : AgreeUpTo(l, x, i) => AgreeUpTo(l, l, i)
    BY DEF AgreeUpTo
  <2> HIDE DEF T, G
  <2>5. FollowsLeaders(led, T) /\ FollowsLeaders(led, G) /\ AgreeUpTo(G, k, Len(k))
    BY <2>0, <2>2, <2>3
  <2>6. \A x \in Seq(Entry), i \in Nat :
           IsPrefixOf(k, x) /\ AgreeUpTo(l, x, i) => AgreeUpTo(T, l, i) /\ AgreeUpTo(G, l, i)
    BY <2>0, <2>4
  <2> QED BY <2>5, <2>6 DEF T, G
<1>5. ASSUME NEW f \in 1..Len(es), SplitAt(l, prev, es, f)
      PROVE  /\ FollowsLeaders(led, T) /\ FollowsLeaders(led, G)
             /\ AgreeUpTo(G, k, Len(k))
             /\ \A x \in Seq(Entry), i \in Nat :
                   IsPrefixOf(k, x) /\ AgreeUpTo(l, x, i) =>
                      AgreeUpTo(T, l, i) /\ AgreeUpTo(G, l, i)
  <2>0. /\ prev + f - 1 <= Len(l)
        /\ \A j \in 1..(f - 1) : l[prev + j].term = es[j].term
        /\ prev + f <= Len(l) => l[prev + f].term # es[f].term
        /\ Len(T) = prev + f - 1
        /\ \A i \in 1..(prev + f - 1) : T[i] = l[i] /\ G[i] = l[i]
        /\ Len(G) = prev + Len(es)
        /\ \A i \in (prev + f)..(prev + Len(es)) : G[i] = es[i - prev]
    BY <1>5 DEF SplitAt
  <2> HIDE DEF T, G
  <2>1. AgreeUpTo(l, k, prev + f - 1)
    <3>1. f - 1 \in 0..Len(es) /\ prev + (f - 1) = prev + f - 1
      BY <1>1
    <3>2. f - 1 > 0 => l[prev + (f - 1)].term = es[f - 1].term
      <4> HAVE f - 1 > 0
      <4>1. f - 1 \in 1..(f - 1)
        BY <3>1
      <4> QED BY <2>0, <4>1
    <3> QED BY <1>3, <2>0, <3>1, <3>2
  <2>2. Len(G) = Len(k)
    BY <1>1, <2>0
  <2>3. \A i \in 1..Len(k) : G[i] = k[i]
    <3> TAKE i \in 1..Len(k)
    <3>1. CASE i <= prev + f - 1
      BY <2>0, <2>1, <3>1 DEF AgreeUpTo
    <3>2. CASE i > prev + f - 1
      <4>1. i \in (prev + f)..(prev + Len(es)) /\ i - prev \in 1..(Len(k) - prev)
            /\ prev + (i - prev) = i
        BY <1>1, <3>2
      <4> QED BY <1>1, <2>0, <4>1
    <3> QED BY <3>1, <3>2
  <2>4. AgreeUpTo(G, k, Len(k)) /\ AgreeUpTo(G, k, Len(G))
    BY <2>2, <2>3 DEF AgreeUpTo
  <2>5. AgreeUpTo(T, l, Len(T))
    BY <2>0 DEF AgreeUpTo
  <2>6. FollowsLeaders(led, T) /\ FollowsLeaders(led, G)
    BY <1>2, <2>4, <2>5, PrefixFollows
  <2>7. ASSUME NEW x \in Seq(Entry), NEW i \in Nat, IsPrefixOf(k, x), AgreeUpTo(l, x, i)
        PROVE  AgreeUpTo(T, l, i) /\ AgreeUpTo(G, l, i)
    <3>1. i <= prev + f - 1
      <4> SUFFICES ASSUME i >= prev + f PROVE FALSE
        BY <1>1
      <4>1. prev + f <= Len(l) /\ prev + f \in 1..i
        BY <2>7 DEF AgreeUpTo
      <4>2. prev + f \in 1..Len(k) /\ es[f] = k[prev + f]
        BY <1>1
      <4>3. l[prev + f] = x[prev + f] /\ k[prev + f] = x[prev + f]
        BY <2>7, <4>1, <4>2 DEF AgreeUpTo, IsPrefixOf
      <4> QED BY <2>0, <4>1, <4>2, <4>3
    <3>2. i <= Len(l) /\ i <= Len(T)
      BY <2>0, <2>7, <3>1 DEF AgreeUpTo
    <3>3. i <= Len(G)
      <4>1. prev + f - 1 <= Len(k)
        BY <1>1
      <4> QED BY <2>2, <3>1, <4>1
    <3>4. \A j \in 1..i : j \in 1..(prev + f - 1)
      BY <1>1, <3>1
    <3>5. \A j \in 1..i : T[j] = l[j] /\ G[j] = l[j]
      BY <2>0, <3>4
    <3> QED BY <3>2, <3>3, <3>5 DEF AgreeUpTo
  <2> QED BY <2>4, <2>6, <2>7
<1> QED BY <1>1, <1>4, <1>5, MergeCases

-----------------------------------------------------------------------------
(* Terms *)

\* A node that wins an election is the first leader of its term.
FirstOfItsTerm(p) == \A q \in Server : <<currentTerm'[p], q>> \notin leaders

LEMMA TermsLedNext ==
    ASSUME Races = {}, TypeOK, TypeOK', ElectionInv, ElectionInv', TermsLed, [Next]_vars
    PROVE  TermsLed' /\ \A p \in Server : Wins(p) => FirstOfItsTerm(p)
<1>1. /\ \A p \in Server : NodeStep(p)
      /\ leaders' = leaders \/ \E p \in Server : Wins(p)
  BY StepRoles
<1>2. \A p \in Server : currentTerm[p] \in Nat /\ currentTerm'[p] \in Nat
  BY DEF TypeOK
<1>3. \A p \in Server : currentTerm'[p] >= currentTerm[p]
  BY TermsKept DEF ElectionInv
<1>4. \A l \in leaders : l \in Nat \X Server
  BY DEF TypeOK
<1>5. \A p \in Server : /\ state[p] = "Candidate" <=> loop[p] = "candidate"
                        /\ state'[p] = "Candidate" <=> loop'[p] = "candidate"
  BY DEF ElectionInv, RoleInv
<1>6. \A p \in Server : state[p] \in States
  BY DEF TypeOK
<1>7. \A p \in Server : loop'[p] = "candidate" =>
         \/ loop[p] = "candidate" /\ currentTerm'[p] = currentTerm[p]
         \/ currentTerm'[p] > currentTerm[p]
  <2> TAKE p \in Server
  <2>1. CASE KeepsRole(p)
    BY <1>5, <2>1 DEF KeepsRole
  <2>2. CASE StepsDown(p) \/ Follows(p)
    BY <1>5, <2>2 DEF StepsDown, Follows
  <2>3. CASE Runs(p) \/ Wins(p)
    BY <2>3 DEF Runs, Wins
  <2> QED BY <1>1, <2>1, <2>2, <2>3 DEF NodeStep
<1>8. \A l \in leaders : /\ l[1] >= 1 /\ l[1] <= currentTerm'[l[2]]
                         /\ l[1] = currentTerm'[l[2]] => loop'[l[2]] # "candidate"
  BY <1>2, <1>3, <1>4, <1>7 DEF TermsLed
<1>9. \A p \in Server : Wins(p) => /\ loop'[p] = "starting" /\ currentTerm'[p] >= 1
                                   /\ <<currentTerm'[p], p>> \notin leaders
  <2> SUFFICES ASSUME NEW p \in Server, Wins(p)
               PROVE  /\ loop'[p] = "starting" /\ currentTerm'[p] >= 1
                      /\ <<currentTerm'[p], p>> \notin leaders
    OBVIOUS
  <2> DEFINE l == <<currentTerm'[p], p>>
  <2>1. l[1] = currentTerm'[p] /\ l[2] = p
    OBVIOUS
  <2> HIDE DEF l
  <2>2. l \in leaders => /\ l[1] <= currentTerm[l[2]]
                         /\ l[1] = currentTerm[l[2]] => loop[l[2]] # "candidate"
    BY DEF TermsLed
  <2>3. CASE loop[p] = "candidate" /\ currentTerm'[p] = currentTerm[p]
    BY <2>1, <2>2, <2>3 DEF TermsLed, Wins, l
  <2>4. CASE currentTerm'[p] > currentTerm[p]
    BY <1>2, <2>1, <2>2, <2>4 DEF Wins, l
  <2> QED BY <2>3, <2>4 DEF Wins
<1>10. \A l \in leaders' : /\ l[1] >= 1 /\ l[1] <= currentTerm'[l[2]]
                           /\ l[1] = currentTerm'[l[2]] => loop'[l[2]] # "candidate"
  <2>1. CASE leaders' = leaders
    BY <1>8, <2>1
  <2>2. ASSUME NEW p \in Server, Wins(p), NEW l \in leaders'
        PROVE  /\ l[1] >= 1 /\ l[1] <= currentTerm'[l[2]]
               /\ l[1] = currentTerm'[l[2]] => loop'[l[2]] # "candidate"
    <3>1. l \in leaders \/ l = <<currentTerm'[p], p>>
      BY <2>2 DEF Wins
    <3>2. CASE l \in leaders
      BY <1>8, <3>2
    <3>3. CASE l = <<currentTerm'[p], p>>
      BY <1>2, <1>9, <2>2, <3>3
    <3> QED BY <3>1, <3>2, <3>3
  <2> QED BY <1>1, <2>1, <2>2
<1>11. \A p \in Server : loop'[p] = "candidate" => currentTerm'[p] >= 1
  BY <1>2, <1>7 DEF TermsLed
<1>12. \A p \in Server : loop'[p] = "starting" => state'[p] = "Leader"
  <2> TAKE p \in Server
  <2>1. CASE KeepsRole(p)
    <3>1. LoopOf(state[p]) # "starting"
      BY <1>6, LoopOfType
    <3> QED BY <2>1, <3>1 DEF KeepsRole, TermsLed
  <2>2. CASE StepsDown(p) \/ Follows(p) \/ Runs(p) \/ Wins(p)
    BY <2>2 DEF StepsDown, Follows, Runs, Wins
  <2> QED BY <1>1, <2>1, <2>2 DEF NodeStep
<1>13. ASSUME NEW p \in Server, Wins(p), NEW q \in Server,
              <<currentTerm'[p], q>> \in leaders
       PROVE  FALSE
  <2>1. <<currentTerm'[p], q>> \in leaders' /\ <<currentTerm'[p], p>> \in leaders'
    BY <1>13 DEF Wins
  <2>2. ElectionSafety'
    <3>1. (LeadersSupported => ElectionSafety)'
      BY OneLeaderPerTerm, PTL
    <3> QED BY <3>1 DEF ElectionInv, VoteInv
  <2>3. q = p
    BY <2>1, <2>2 DEF ElectionSafety
  <2> QED BY <1>9, <1>13, <2>3
<1> QED BY <1>10, <1>11, <1>12, <1>13 DEF TermsLed, FirstOfItsTerm

-----------------------------------------------------------------------------
(* The leaders' logs *)

LEMMA PrefixTransitive ==
    ASSUME NEW j \in Seq(Entry), NEW k \in Seq(Entry), NEW l \in Seq(Entry),
           IsPrefixOf(j, k), IsPrefixOf(k, l)
    PROVE  IsPrefixOf(j, l)
  BY DEF IsPrefixOf

LEMMA RequestsGrow ==
    ASSUME TypeOK, NEW led, LogPerTerm(led), NEW new, LogPerTerm(new),
           \A t \in Nat : IsPrefixOf(led[t], new[t]),
           LedRequests(led), RequestsKept
    PROVE  LedRequests(new)'
<1> SUFFICES ASSUME NEW x \in net', x.type = "AppendEntries"
             PROVE  \E l \in Seq(Entry) : IsPrefixOf(l, new[x.term]) /\ CutFrom(l, x)
  BY DEF LedRequests, IsPrefixOf, CutFrom, TermAt
<1>1. PICK y \in net : SameRequest(x, y)
  BY DEF RequestsKept
<1>2. /\ y.type = "AppendEntries" /\ y.term = x.term
      /\ \A l : CutFrom(l, y) => CutFrom(l, x)
  BY <1>1 DEF SameRequest, CutFrom
<1>3. PICK l \in Seq(Entry) : IsPrefixOf(l, led[y.term]) /\ CutFrom(l, y)
  BY <1>2 DEF LedRequests
<1>4. y.term \in Nat
  BY MessageFields
<1>5. led[y.term] \in Seq(Entry) /\ new[y.term] \in Seq(Entry)
  BY <1>4, LedLog
<1>6. IsPrefixOf(l, new[y.term])
  BY <1>3, <1>4, <1>5, PrefixTransitive
<1> QED BY <1>2, <1>3, <1>6

\* One leader's log is replaced by a longer one.
Replaces(led, new, t, l) ==
    /\ LogPerTerm(new) /\ new[t] = l
    /\ \A u \in Nat : u # t => new[u] = led[u]
    /\ \A u \in Nat : IsPrefixOf(led[u], new[u])

LEMMA GrowOne ==
    ASSUME NEW led, LogPerTerm(led), NEW t \in Nat, NEW l \in Seq(Entry),
           IsPrefixOf(led[t], l)
    PROVE  \E new : Replaces(led, new, t, l)
<1> DEFINE new == [led EXCEPT ![t] = l]
<1>1. LogPerTerm(new) /\ new[t] = l /\ \A u \in Nat : u # t => new[u] = led[u]
  BY DEF LogPerTerm
<1>2. \A u \in Nat : IsPrefixOf(led[u], led[u])
  BY LedLog DEF IsPrefixOf
<1> HIDE DEF new
<1> QED BY <1>1, <1>2 DEF Replaces

\* The conjuncts of LedLogs in the next state.
LEMMA LedLogsNext ==
    ASSUME NEW new,
           \A n \in Server : FollowsLeaders(new, log'[n]),
           \A t \in Nat : FollowsLeaders(new, new[t]),
           \A t \in Nat : new[t] # <<>> => \E n \in Server : <<t, n>> \in leaders',
           \A n \in Server : state'[n] = "Leader" => log'[n] = new[currentTerm'[n]]
    PROVE  LedLogs(new)'
  BY DEF LedLogs, FollowsLeaders, AgreeUpTo

LEMMA MatchWin ==
    ASSUME Races = {}, TypeOK, TypeOK', ElectionInv, TermsLed, [Next]_vars,
           NEW led, LogPerTerm(led), MatchInv(led),
           NEW p \in Server, Wins(p),
           \A q \in Server : Wins(q) => FirstOfItsTerm(q)
    PROVE  \E new : LogPerTerm(new) /\ MatchInv(new)' /\ LedGrows(led, new)
<1>0. PICK t : t = currentTerm'[p]
  OBVIOUS
<1>1. t \in Nat /\ log[p] \in Seq(Entry) /\ leaders' = leaders \cup {<<t, p>>}
  BY <1>0 DEF TypeOK, Wins
<1>2. \A q \in Server : <<t, q>> \notin leaders
  BY <1>0 DEF FirstOfItsTerm
<1>3. led[t] = <<>>
  BY <1>1, <1>2 DEF MatchInv, LedLogs
<1>4. log' = log
  <2>1. leaders' # leaders
    BY <1>1, <1>2
  <2> QED BY <2>1, StepLogs DEF Appends, Takes
<1>5. RequestsKept
  <2>1. leaders' # leaders
    BY <1>1, <1>2
  <2> QED BY <2>1, StepRequests DEF ReplicateOnce
<1>6. IsPrefixOf(led[t], log[p])
  BY <1>1, <1>3 DEF IsPrefixOf
<1>15. PICK new : Replaces(led, new, t, log[p])
  BY <1>1, <1>6, GrowOne
<1>7. /\ LogPerTerm(new) /\ new[t] = log[p]
      /\ \A u \in Nat : u # t => new[u] = led[u]
      /\ \A u \in Nat : IsPrefixOf(led[u], new[u])
  BY <1>15 DEF Replaces
<1>8. \A q \in Server : FollowsLeaders(new, log[q])
  <2> TAKE q \in Server
  <2>1. log[q] \in Seq(Entry) /\ FollowsLeaders(led, log[q])
    BY DEF TypeOK, MatchInv, LedLogs
  <2> QED BY <1>7, <2>1, GrowFollows
<1>9. \A u \in Nat : FollowsLeaders(new, new[u])
  <2> TAKE u \in Nat
  <2>1. CASE u = t
    BY <1>7, <1>8, <2>1
  <2>2. CASE u # t
    <3>1. led[u] \in Seq(Entry) /\ FollowsLeaders(led, led[u])
      BY LedLog DEF MatchInv, LedLogs
    <3>2. FollowsLeaders(new, led[u])
      BY <1>7, <3>1, GrowFollows
    <3> QED BY <1>7, <2>2, <3>2
  <2> QED BY <2>1, <2>2
<1>10. \A u \in Nat : new[u] # <<>> => \E q \in Server : <<u, q>> \in leaders'
  <2> TAKE u \in Nat
  <2>1. CASE u = t
    BY <1>1, <2>1
  <2>2. CASE u # t
    BY <1>1, <1>7, <2>2 DEF MatchInv, LedLogs
  <2> QED BY <2>1, <2>2
<1>11. \A q \in Server : state'[q] = "Leader" => log[q] = new[currentTerm'[q]]
  <2> SUFFICES ASSUME NEW q \in Server, state'[q] = "Leader"
               PROVE  log[q] = new[currentTerm'[q]]
    OBVIOUS
  <2>1. CASE q = p
    BY <1>0, <1>7, <2>1
  <2>2. CASE KeepsRole(q)
    <3>1. /\ state[q] = "Leader" /\ currentTerm'[q] = currentTerm[q]
          /\ <<currentTerm[q], q>> \in leaders /\ currentTerm[q] \in Nat
      BY <2>2 DEF KeepsRole, ElectionInv, RecordInv, TypeOK
    <3>2. currentTerm[q] # t
      BY <1>2, <3>1
    <3> QED BY <1>7, <3>1, <3>2 DEF MatchInv, LedLogs
  <2>3. CASE Wins(q)
    <3>1. <<currentTerm'[q], q>> \in leaders' /\ <<currentTerm'[q], q>> \notin leaders
      BY <2>3 DEF Wins, FirstOfItsTerm
    <3>2. q = p
      BY <1>1, <3>1
    <3> QED BY <2>1, <3>2
  <2>4. ~(StepsDown(q) \/ Follows(q) \/ Runs(q))
    BY DEF StepsDown, Follows, Runs
  <2> QED BY <2>2, <2>3, <2>4, StepRoles DEF NodeStep
<1>12. LedLogs(new)'
  BY <1>4, <1>8, <1>9, <1>10, <1>11, LedLogsNext
<1>13. LedRequests(new)'
  BY <1>5, <1>7, RequestsGrow DEF MatchInv
<1>14. LedGrows(led, new)
  BY <1>0, <1>7 DEF LedGrows, Wins
<1> QED BY <1>7, <1>12, <1>13, <1>14 DEF MatchInv


\* Nobody wins: whoever leads has led before, in the same term.
NoWin ==
    /\ leaders' = leaders
    /\ \A q \in Server : state'[q] = "Leader" =>
          state[q] = "Leader" /\ currentTerm'[q] = currentTerm[q]

LEMMA NobodyWins ==
    ASSUME TypeOK, [Next]_vars, \A p \in Server : ~Wins(p)
    PROVE  NoWin
<1>1. /\ \A p \in Server : NodeStep(p)
      /\ leaders' = leaders \/ \E p \in Server : Wins(p)
  BY StepRoles
<1>2. \A p \in Server : state'[p] = "Leader" => KeepsRole(p)
  BY <1>1 DEF NodeStep, StepsDown, Follows, Runs
<1> QED BY <1>1, <1>2 DEF KeepsRole, NoWin

LEMMA SameLed ==
    ASSUME NEW led, LogPerTerm(led)
    PROVE  LedGrows(led, led)
<1>1. \A u \in Nat : IsPrefixOf(led[u], led[u])
  BY LedLog DEF IsPrefixOf
<1> QED BY <1>1 DEF LedGrows

\* A new request is cut from the log of the leader that sends it.
LEMMA MatchSend ==
    ASSUME TypeOK, NEW led, LogPerTerm(led), MatchInv(led),
           NEW n \in Server, NEW p \in Server, ReplicateOnce(n, p)
    PROVE  MatchInv(led)'
<1>1. /\ state[n] = "Leader"
      /\ UNCHANGED <<log, leaders, state, currentTerm>>
  BY DEF ReplicateOnce, persistentVars
<1>2. log[n] \in Seq(Entry) /\ log[n] = led[currentTerm[n]]
  BY <1>1 DEF TypeOK, MatchInv, LedLogs
<1>3. IsPrefixOf(log[n], led[currentTerm[n]])
  BY <1>2 DEF IsPrefixOf
<1>4. LedLogs(led)'
  BY <1>1, LedLogsNext DEF MatchInv, LedLogs
<1>5. ASSUME NEW x \in net', x.type = "AppendEntries"
      PROVE  \E l \in Seq(Entry) : IsPrefixOf(l, led[x.term]) /\ CutFrom(l, x)
  <2>1. CASE x \in net
    BY <1>5, <2>1 DEF MatchInv, LedRequests
  <2>2. CASE x \notin net
    <3>1. /\ x.term = currentTerm[n]
          /\ x.entries = SubSeq(log[n], x.prevLogIndex + 1, Len(log[n]))
          /\ x.prevLogTerm = TermAt(log[n], x.prevLogIndex)
      BY <2>2 DEF ReplicateOnce
    <3> QED BY <1>2, <1>3, <3>1 DEF CutFrom
  <2> QED BY <2>1, <2>2
<1>6. LedRequests(led)'
  BY <1>5 DEF LedRequests, IsPrefixOf, CutFrom, TermAt
<1> QED BY <1>4, <1>6 DEF MatchInv

\* A leader appends to its log, and is the only one of its term to do so.
LEMMA MatchAppend ==
    ASSUME TypeOK, TypeOK', ElectionInv, TermsLed,
           NEW led, LogPerTerm(led), MatchInv(led),
           NEW n \in Server, Appends(n)
    PROVE  \E new : LogPerTerm(new) /\ MatchInv(new)' /\ LedGrows(led, new)
<1>1. PICK t : t = currentTerm[n]
  OBVIOUS
<1>2. /\ state[n] = "Leader" /\ log[n] = led[t] /\ t \in Nat /\ <<t, n>> \in leaders
      /\ log[n] \in Seq(Entry) /\ log'[n] \in Seq(Entry)
  BY <1>1 DEF Appends, TermsLed, MatchInv, LedLogs, TypeOK, ElectionInv, RecordInv
<1>3. UNCHANGED <<currentTerm, state, leaders, net>>
  BY DEF Appends
<1>4. PICK e \in Entry : /\ log' = [log EXCEPT ![n] = Append(log[n], e)]
                         /\ e.term = t
  <2>1. PICK v \in Value \cup {NoOp} : log' = [log EXCEPT ![n] = Appended(n, v)]
    BY DEF Appends
  <2>2. [term |-> t, value |-> v] \in Entry
    BY <1>2 DEF Entry
  <2> QED BY <1>1, <2>1, <2>2 DEF Appended
<1>5. log'[n] = Append(log[n], e) /\ \A q \in Server : q # n => log'[q] = log[q]
  BY <1>4 DEF TypeOK
<1>6. PICK l : l = log'[n]
  OBVIOUS
<1>7. /\ l \in Seq(Entry) /\ Len(l) = Len(led[t]) + 1
      /\ \A i \in 1..Len(led[t]) : l[i] = led[t][i]
      /\ l[Len(l)].term = t
  BY <1>2, <1>4, <1>5, <1>6
<1>8. led[t] \in Seq(Entry) /\ IsPrefixOf(led[t], l)
  <2>1. led[t] \in Seq(Entry) /\ Len(led[t]) \in Nat /\ DOMAIN led[t] = 1..Len(led[t])
    BY <1>2
  <2> QED BY <1>7, <2>1 DEF IsPrefixOf
<1>9. PICK new : Replaces(led, new, t, l)
  BY <1>2, <1>7, <1>8, GrowOne
<1>10. /\ LogPerTerm(new) /\ new[t] = l
       /\ \A u \in Nat : u # t => new[u] = led[u]
       /\ \A u \in Nat : IsPrefixOf(led[u], new[u])
  BY <1>9 DEF Replaces
<1>11. FollowsLeaders(led, led[t]) /\ FollowsLeaders(new, led[t])
  <2>1. FollowsLeaders(led, led[t])
    BY <1>2 DEF MatchInv, LedLogs
  <2> QED BY <1>8, <1>10, <2>1, GrowFollows
<1>12. FollowsLeaders(new, l)
  <2> SUFFICES ASSUME NEW i \in 1..Len(l) PROVE AgreeUpTo(l, new[l[i].term], i)
    BY DEF FollowsLeaders
  <2>1. CASE i = Len(l)
    BY <1>7, <1>10, <2>1 DEF AgreeUpTo
  <2>2. CASE i # Len(l)
    <3>1. i \in 1..Len(led[t]) /\ Len(led[t]) \in Nat
      BY <1>7, <1>8, <2>2
    <3>2. AgreeUpTo(led[t], new[led[t][i].term], i) /\ l[i] = led[t][i]
      BY <1>7, <1>11, <3>1 DEF FollowsLeaders
    <3> QED BY <1>7, <3>1, <3>2 DEF AgreeUpTo
  <2> QED BY <2>1, <2>2
<1>13. \A q \in Server : FollowsLeaders(new, log'[q])
  <2> TAKE q \in Server
  <2>1. CASE q = n
    BY <1>6, <1>12, <2>1
  <2>2. CASE q # n
    <3>1. log[q] \in Seq(Entry) /\ FollowsLeaders(led, log[q]) /\ log'[q] = log[q]
      BY <1>5, <2>2 DEF TypeOK, MatchInv, LedLogs
    <3> QED BY <1>10, <3>1, GrowFollows
  <2> QED BY <2>1, <2>2
<1>14. \A u \in Nat : FollowsLeaders(new, new[u])
  <2> TAKE u \in Nat
  <2>1. CASE u = t
    BY <1>10, <1>12, <2>1
  <2>2. CASE u # t
    <3>1. led[u] \in Seq(Entry) /\ FollowsLeaders(led, led[u])
      BY LedLog DEF MatchInv, LedLogs
    <3>2. FollowsLeaders(new, led[u])
      BY <1>10, <3>1, GrowFollows
    <3> QED BY <1>10, <2>2, <3>2
  <2> QED BY <2>1, <2>2
<1>15. \A u \in Nat : new[u] # <<>> => \E q \in Server : <<u, q>> \in leaders'
  BY <1>2, <1>3, <1>10 DEF MatchInv, LedLogs
<1>16. \A q \in Server : state'[q] = "Leader" => log'[q] = new[currentTerm'[q]]
  <2> SUFFICES ASSUME NEW q \in Server, state'[q] = "Leader"
               PROVE  log'[q] = new[currentTerm[q]]
    BY <1>3
  <2>1. CASE q = n
    BY <1>1, <1>6, <1>10, <2>1
  <2>2. CASE q # n
    <3>1. /\ <<currentTerm[q], q>> \in leaders /\ currentTerm[q] \in Nat
          /\ log[q] = led[currentTerm[q]] /\ log'[q] = log[q]
      BY <1>3, <1>5, <2>2 DEF TypeOK, ElectionInv, RecordInv, MatchInv, LedLogs
    <3>2. ElectionSafety
      BY OneLeaderPerTerm DEF ElectionInv, VoteInv
    <3>3. currentTerm[q] # t
      BY <1>2, <2>2, <3>1, <3>2 DEF ElectionSafety
    <3> QED BY <1>10, <3>1, <3>3
  <2> QED BY <2>1, <2>2
<1>17. LedLogs(new)'
  BY <1>13, <1>14, <1>15, <1>16, LedLogsNext
<1>18. LedRequests(new)'
  BY <1>3, <1>10, SubsetKept, RequestsGrow DEF MatchInv
<1>19. LedGrows(led, new)
  BY <1>1, <1>2, <1>3, <1>10 DEF LedGrows
<1> QED BY <1>10, <1>17, <1>18, <1>19 DEF MatchInv

-----------------------------------------------------------------------------
(* Followers *)

\* The request that a log passes the check of was cut within a prefix k of its
\* leader's log: past the end of it prevLogTerm is 0, and no entry has term 0.
CutWithin(led, m, k) ==
    /\ k \in Seq(Entry) /\ IsPrefixOf(k, led[m.term])
    /\ m.prevLogIndex <= Len(k)
    /\ m.prevLogIndex > 0 => m.prevLogTerm = k[m.prevLogIndex].term
    /\ m.entries = SubSeq(k, m.prevLogIndex + 1, Len(k))

LEMMA CheckedCut ==
    ASSUME TypeOK, TermsLed, NEW led, LogPerTerm(led), MatchInv(led),
           NEW m \in net, m.type = "AppendEntries", PassesCheck(m.to, m)
    PROVE  \E k : CutWithin(led, m, k)
<1>1. PICK k \in Seq(Entry) : IsPrefixOf(k, led[m.term]) /\ CutFrom(k, m)
  BY DEF MatchInv, LedRequests
<1>2. /\ m.to \in Server /\ m \in AppendEntriesReq /\ log[m.to] \in Seq(Entry)
      /\ m.prevLogIndex \in Nat
  BY MessageFields DEF TypeOK, AppendEntriesReq
<1>3. m.prevLogIndex <= Len(k)
  <2> SUFFICES ASSUME m.prevLogIndex > Len(k) PROVE FALSE
    BY <1>2
  <2>1. m.prevLogIndex \in 1..Len(log[m.to]) /\ m.prevLogIndex \notin 1..Len(k)
    BY <1>2 DEF PassesCheck
  <2>2. log[m.to][m.prevLogIndex].term = 0
    BY <1>1, <2>1 DEF PassesCheck, PrevMatches, CutFrom, TermAt
  <2>3. AgreeUpTo(log[m.to], led[0], m.prevLogIndex)
    BY <1>2, <2>1, <2>2 DEF MatchInv, LedLogs, FollowsLeaders
  <2>4. led[0] # <<>>
    BY <2>1, <2>3 DEF AgreeUpTo
  <2>5. \E q \in Server : <<0, q>> \in leaders
    BY <2>4 DEF MatchInv, LedLogs
  <2> QED BY <2>5 DEF TermsLed
<1>4. m.prevLogIndex > 0 => m.prevLogTerm = k[m.prevLogIndex].term
  BY <1>1, <1>2, <1>3 DEF CutFrom, TermAt
<1> QED BY <1>1, <1>3, <1>4 DEF CutFrom, CutWithin

\* A log takes the entries of a request: what MergeFollows says of it.
LEMMA TakeFollows ==
    ASSUME TypeOK, TermsLed, NEW led, LogPerTerm(led), MatchInv(led),
           NEW m \in net, m.type = "AppendEntries", PassesCheck(m.to, m),
           NEW k, CutWithin(led, m, k), NEW l, l = log[m.to]
    PROVE  LET T == Truncated(l, m.prevLogIndex, m.entries)
               G == Merged(l, m.prevLogIndex, m.entries)
           IN  /\ l \in Seq(Entry) /\ T \in Seq(Entry) /\ G \in Seq(Entry)
               /\ FollowsLeaders(led, T) /\ FollowsLeaders(led, G)
               /\ AgreeUpTo(G, k, Len(k))
               /\ \A x \in Seq(Entry), i \in Nat :
                     IsPrefixOf(k, x) /\ AgreeUpTo(l, x, i) =>
                        AgreeUpTo(T, l, i) /\ AgreeUpTo(G, l, i)
<1>1. /\ m.to \in Server /\ m \in AppendEntriesReq /\ l \in Seq(Entry)
      /\ m.prevLogIndex \in Nat /\ m.entries \in Seq(Entry) /\ m.term \in Nat
  BY MessageFields DEF TypeOK, AppendEntriesReq
<1>2. /\ m.prevLogIndex <= Len(l)
      /\ m.prevLogIndex > 0 => l[m.prevLogIndex].term = m.prevLogTerm
  BY DEF PassesCheck, PrevMatches
<1>3. FollowsLeaders(led, l)
  BY <1>1 DEF MatchInv, LedLogs
<1>4. k \in Seq(Entry) /\ FollowsLeaders(led, k)
  <2>1. FollowsLeaders(led, led[m.term]) /\ led[m.term] \in Seq(Entry)
    BY <1>1, LedLog DEF MatchInv, LedLogs
  <2> QED BY <2>1, PrefixIsAgree, PrefixFollows DEF CutWithin
<1>5. /\ m.prevLogIndex <= Len(k) /\ m.entries = SubSeq(k, m.prevLogIndex + 1, Len(k))
      /\ m.prevLogIndex > 0 => l[m.prevLogIndex].term = k[m.prevLogIndex].term
  BY <1>2 DEF CutWithin
<1>6. /\ Truncated(l, m.prevLogIndex, m.entries) \in Seq(Entry)
      /\ Merged(l, m.prevLogIndex, m.entries) \in Seq(Entry)
  BY <1>1, <1>2, MergedType
<1> QED BY <1>1, <1>2, <1>3, <1>4, <1>5, <1>6, MergeFollows

LEMMA MatchTake ==
    ASSUME TypeOK, TypeOK', ElectionInv, TermsLed, NoWin,
           NEW led, LogPerTerm(led), MatchInv(led),
           NEW m \in net, Takes(m.to, m)
    PROVE  MatchInv(led)'
<1>1. /\ m.type = "AppendEntries" /\ PassesCheck(m.to, m) /\ m.to \in Server
      /\ RequestsKept /\ leaders' = leaders
  BY MessageFields DEF Takes
<1>2. PICK k : CutWithin(led, m, k)
  BY <1>1, CheckedCut
<1>3. PICK l : l = log[m.to]
  OBVIOUS
<1>4. /\ FollowsLeaders(led, Truncated(l, m.prevLogIndex, m.entries))
      /\ FollowsLeaders(led, Merged(l, m.prevLogIndex, m.entries))
  BY <1>1, <1>2, <1>3, TakeFollows
<1>5. \A q \in Server : FollowsLeaders(led, log'[q])
  <2> TAKE q \in Server
  <2>1. CASE q = m.to
    BY <1>1, <1>3, <1>4, <2>1 DEF Takes, TypeOK
  <2>2. CASE q # m.to
    BY <1>1, <2>2 DEF Takes, TypeOK, MatchInv, LedLogs
  <2> QED BY <2>1, <2>2
<1>6. \A q \in Server : state'[q] = "Leader" => log'[q] = led[currentTerm'[q]]
  <2> SUFFICES ASSUME NEW q \in Server, state'[q] = "Leader"
               PROVE  log'[q] = led[currentTerm'[q]]
    OBVIOUS
  <2>1. q # m.to
    BY <1>1 DEF Takes, FollowLeader, TypeOK
  <2>2. log'[q] = log[q]
    BY <1>1, <2>1 DEF Takes, TypeOK
  <2> QED BY <2>2 DEF NoWin, MatchInv, LedLogs
<1>7. LedLogs(led)'
  BY <1>1, <1>5, <1>6, LedLogsNext DEF MatchInv, LedLogs
<1>8. LedRequests(led)'
  <2>1. \A u \in Nat : IsPrefixOf(led[u], led[u])
    BY SameLed DEF LedGrows
  <2> QED BY <1>1, <2>1, RequestsGrow DEF MatchInv
<1> QED BY <1>7, <1>8 DEF MatchInv

-----------------------------------------------------------------------------
(* Every step *)

LEMMA MatchNext ==
    ASSUME Races = {}, TypeOK, TypeOK', ElectionInv, ElectionInv', TermsLed,
           [Next]_vars, NEW led, LogPerTerm(led), MatchInv(led)
    PROVE  \E new : LogPerTerm(new) /\ MatchInv(new)' /\ LedGrows(led, new)
<1>1. \A p \in Server : Wins(p) => FirstOfItsTerm(p)
  BY TermsLedNext
<1>2. ASSUME NEW p \in Server, Wins(p)
      PROVE  \E new : LogPerTerm(new) /\ MatchInv(new)' /\ LedGrows(led, new)
  BY <1>1, <1>2, MatchWin
<1>3. CASE \A p \in Server : ~Wins(p)
  <2>1. NoWin
    BY <1>3, NobodyWins
  <2>2. LedGrows(led, led)
    BY SameLed
  <2>3. ASSUME NEW n \in Server, NEW p \in Server, ReplicateOnce(n, p)
        PROVE  MatchInv(led)'
    BY <2>3, MatchSend
  <2>4. CASE log' = log /\ RequestsKept
    <3>1. LedLogs(led)'
      BY <2>1, <2>4, LedLogsNext DEF NoWin, MatchInv, LedLogs
    <3>2. LedRequests(led)'
      BY <2>2, <2>4, RequestsGrow DEF MatchInv, LedGrows
    <3> QED BY <2>2, <3>1, <3>2 DEF MatchInv
  <2>5. ASSUME NEW n \in Server, Appends(n)
        PROVE  \E new : LogPerTerm(new) /\ MatchInv(new)' /\ LedGrows(led, new)
    BY <2>5, MatchAppend
  <2>6. ASSUME NEW m \in net, Takes(m.to, m) PROVE MatchInv(led)'
    BY <2>1, <2>6, MatchTake
  <2> QED BY <2>2, <2>3, <2>4, <2>5, <2>6, StepRequests, StepLogs
<1> QED BY <1>2, <1>3

\* There are leaders' logs that every log follows.
LeaderLogs == \E led : LogPerTerm(led) /\ MatchInv(led)

LogInv == TypeOK /\ ElectionInv /\ TermsLed /\ LeaderLogs

LEMMA MatchInit == Init => TermsLed /\ LeaderLogs
<1> SUFFICES ASSUME Init PROVE TermsLed /\ LeaderLogs
  OBVIOUS
<1>1. TermsLed
  BY DEF Init, TermsLed
<1>2. PICK led : led = [t \in Nat |-> <<>>]
  OBVIOUS
<1>3. LogPerTerm(led) /\ \A t \in Nat : led[t] = <<>>
  BY <1>2 DEF LogPerTerm
<1>4. \A n \in Server : log[n] = <<>> /\ state[n] = "Follower"
  BY DEF Init
<1>5. FollowsLeaders(led, <<>>)
  BY DEF FollowsLeaders
<1>6. LedLogs(led)
  BY <1>3, <1>4, <1>5 DEF LedLogs
<1>7. LedRequests(led)
  BY DEF Init, LedRequests
<1> QED BY <1>1, <1>3, <1>6, <1>7 DEF LeaderLogs, MatchInv

LEMMA LogNext ==
    ASSUME Races = {}, ~StateFaults, LogInv, [Next]_vars
    PROVE  LogInv'
<1>1. TypeOK'
  BY TypeNext DEF LogInv
<1>2. ElectionInv'
  BY <1>1, ElectionNext DEF LogInv
<1>3. TermsLed'
  BY <1>1, <1>2, TermsLedNext DEF LogInv
<1>4. LeaderLogs'
  <2>1. PICK led : LogPerTerm(led) /\ MatchInv(led)
    BY DEF LogInv, LeaderLogs
  <2>2. PICK new : LogPerTerm(new) /\ MatchInv(new)'
    BY <1>1, <1>2, <2>1, MatchNext DEF LogInv
  <2>3. LogPerTerm(new)'
    BY <2>2 DEF LogPerTerm
  <2> QED BY <2>2, <2>3 DEF LeaderLogs
<1> QED BY <1>1, <1>2, <1>3, <1>4 DEF LogInv

LEMMA LogInvMatches == LogInv => LogMatching
<1> SUFFICES ASSUME LogInv, NEW n \in Server, NEW p \in Server,
                    NEW i \in DOMAIN log[n] \cap DOMAIN log[p],
                    log[n][i].term = log[p][i].term
             PROVE  \A j \in 1..i : log[n][j] = log[p][j]
  BY DEF LogMatching
<1>1. PICK led : LogPerTerm(led) /\ MatchInv(led)
  BY DEF LogInv, LeaderLogs
<1>2. log[n] \in Seq(Entry) /\ log[p] \in Seq(Entry)
  BY DEF LogInv, TypeOK
<1>3. FollowsLeaders(led, log[n]) /\ FollowsLeaders(led, log[p])
  BY <1>1 DEF MatchInv, LedLogs
<1>4. Holds(log[n], i, log[n][i].term) /\ Holds(log[p], i, log[n][i].term)
  BY <1>2 DEF Holds
<1>5. AgreeUpTo(log[n], log[p], i)
  BY <1>1, <1>2, <1>3, <1>4, SameTermAgree
<1> QED BY <1>5 DEF AgreeUpTo

\* The logs of leaders exist in every reachable state.
THEOREM LogInvariant ==
    ASSUME Races = {}, ~StateFaults
    PROVE  Spec => []LogInv
<1>1. Init => LogInv
  BY TypeInit, ElectionInit, MatchInit DEF LogInv
<1>2. LogInv /\ [Next]_vars => LogInv'
  BY LogNext
<1> QED BY <1>1, <1>2, PTL DEF Spec

\* Two logs that agree on the term of an entry agree on that entry and on all
\* before it (replication.go:6-7), through lost, late and duplicated requests,
\* crashes in the middle of persistState and log stores that fail half-way.
THEOREM LogsMatch ==
    ASSUME Races = {}, ~StateFaults
    PROVE  Spec => []LogMatching
  BY LogInvariant, LogInvMatches, PTL

=============================================================================
