-------------------------------- MODULE Raft --------------------------------
(***************************************************************************)
(* The Raft core of internal/raft: elections (election.go), log            *)
(* replication (replication.go) and the main loop that owns a node's role  *)
(* (raft.go), over a network that loses, delays and reorders calls and on  *)
(* nodes that crash and restart.                                           *)
(*                                                                         *)
(* Granularity.  r.mu makes every handler one atomic step.  Two kinds of   *)
(* goroutine change a node: the main goroutine, which runs one of the      *)
(* loops runFollower, runCandidate and runLeader (loop[n] says which) and  *)
(* reads r.state only at the head of the loop, and the replicators, which  *)
(* process the answers to AppendEntries whatever the main goroutine does.  *)
(* So loop[n] and state[n] may disagree, exactly as in the program.        *)
(*                                                                         *)
(* Races says which two scheduling windows of the program are open:        *)
(*   "EarlyReply"  a replicator processes an answer before runLeader has   *)
(*                 appended the no-op (raft.go:446-456);                   *)
(*   "StaleReply"  a replicator of an ended leadership is still waiting    *)
(*                 for its answer when the node starts an election         *)
(*                 (replication.go:124, timeouts of transport.go:91,269).  *)
(***************************************************************************)
EXTENDS Integers, Sequences, FiniteSets

CONSTANTS
    Server,       \* config.Peers: the members, fixed for the cluster's life
    Value,        \* the commands clients propose (LogEntry.Data)
    NoOp,         \* the empty Data of the entry a new leader appends
    None,         \* the empty string of votedFor and leaderID
    Races,        \* the scheduling windows that are open, see above
    DiskFaults,   \* TRUE: a write to the log store may fail
    StateFaults,  \* TRUE: a write to the stable store may fail
    Candidates,   \* bound: the nodes whose election timer may fire
    MaxElections, \* bound: elections started by all nodes together
    MaxLog,       \* bound: no client command is appended past this length
    MaxCrashes,   \* bound: crashes of all nodes together
    MaxCalls      \* bound: AppendEntries requests and answers in flight

ASSUME ServerAssumption == IsFiniteSet(Server) /\ Server # {}
ASSUME NoneAssumption == None \notin Server
ASSUME RacesAssumption == Races \subseteq {"EarlyReply", "StaleReply"}
ASSUME BoundsAssumption ==
    /\ DiskFaults \in BOOLEAN /\ StateFaults \in BOOLEAN
    /\ Candidates \subseteq Server
    /\ MaxElections \in Nat /\ MaxLog \in Nat
    /\ MaxCrashes \in Nat /\ MaxCalls \in Nat

VARIABLES
    \* what the node acts on: its term, its vote, and the log in its LogStore
    currentTerm, votedFor, log,
    \* the term and the vote that its StableStore holds
    stored,
    \* volatile, every node
    state, loop, commitIndex, leaderID,
    \* runCandidate's locals: the election it runs and the votes it counted
    electionTerm, votes,
    \* r.peers: replication progress, and the term it was initialised in
    nextIndex, matchIndex, peersTerm,
    \* calls in flight, and how many elections and crashes there have been
    net, elections, crashes,
    \* history: ballots cast, leaders that ever were, the committed log
    ballots, leaders, committed

persistentVars == <<currentTerm, votedFor, log, stored>>
candidateVars  == <<electionTerm, votes>>
peerVars       == <<nextIndex, matchIndex, peersTerm>>
vars == <<currentTerm, votedFor, log, stored, state, loop, commitIndex, leaderID,
          electionTerm, votes, nextIndex, matchIndex, peersTerm,
          net, elections, crashes, ballots, leaders, committed>>

-----------------------------------------------------------------------------
(* Values *)

States == {"Follower", "Candidate", "Leader"}

\* Where the main goroutine is: blocked in the select of one of the three
\* loops, at the start of runLeader before appendNoOp, or not running.
Loops == {"follower", "candidate", "starting", "leader", "down"}

\* The loops in which the main goroutine takes RPCs from the transport.
Selecting == {"follower", "candidate", "leader"}

Entry == [term : Nat, value : Value \cup {NoOp}]

\* Requests and responses.  "live" tells a request whose caller still waits
\* from one whose caller timed out; "call" in a response is the term of the
\* request it answers, "last" the index of the last entry sent (0 if none).
RequestVoteReq ==
    [type : {"RequestVote"}, from : Server, to : Server, term : Nat,
     lastLogIndex : Nat, lastLogTerm : Nat]
RequestVoteResp ==
    [type : {"Vote"}, from : Server, to : Server, call : Nat, term : Nat,
     granted : BOOLEAN]
AppendEntriesReq ==
    [type : {"AppendEntries"}, from : Server, to : Server, term : Nat,
     prevLogIndex : Nat, prevLogTerm : Nat, entries : Seq(Entry),
     leaderCommit : Nat, live : BOOLEAN]
AppendEntriesResp ==
    [type : {"Appended"}, from : Server, to : Server, call : Nat, term : Nat,
     last : Nat, success : BOOLEAN, conflictTerm : Nat, conflictIndex : Nat]
Message == RequestVoteReq \cup RequestVoteResp
             \cup AppendEntriesReq \cup AppendEntriesResp

Quorum == Cardinality(Server) \div 2 + 1
Quorums == {Q \in SUBSET Server : Cardinality(Q) >= Quorum}

LastTerm(l) == IF l = <<>> THEN 0 ELSE l[Len(l)].term
TermAt(l, i) == IF i \in DOMAIN l THEN l[i].term ELSE 0

\* Mutant: compares lengths only.
IsLogLonger(candTerm, candIndex, voterTerm, voterIndex) ==
    candIndex >= voterIndex

IsLogUpToDate(candTerm, candIndex, voterTerm, voterIndex) ==
    \/ candTerm > voterTerm
    \/ candTerm = voterTerm /\ candIndex >= voterIndex

\* Rule 2 of handleRequestVote: the vote of this term is still free, or was
\* already given to this candidate.
\* Mutant: rule 2 is forgotten.
VoteNeverTaken(vote, candidate) == TRUE

VoteFree(vote, candidate) == vote \in {None, candidate}

\* leaderID after a message of this term: stepDown forgets the leader.
\* Mutant: stepDown keeps it.
HintKept(n, term) == leaderID[n]

HintAfter(n, term) == IF term > currentTerm[n] THEN None ELSE leaderID[n]

\* The loop that run() enters for a role.
\* Mutant: run() always starts over as a follower.
LoopStartsOver(s) == "follower"

LoopOf(s) == CASE s = "Follower"  -> "follower"
               [] s = "Candidate" -> "candidate"
               [] s = "Leader"    -> "leader"

-----------------------------------------------------------------------------
(* Calls.  A replicator has one AppendEntries call at a time; an election   *)
(* makes one RequestVote call per peer.                                     *)

IsCallOf(n, m) == \/ m.type = "AppendEntries" /\ m.from = n /\ m.live
                  \/ m.type = "Appended" /\ m.to = n

\* Nobody reads the answers to an election that is over (voteCh is dropped).
DropVotes(msgs, n) == {m \in msgs : ~(m.type = "Vote" /\ m.to = n)}

\* The caller of a request gives up or dies; the request may still arrive.
Orphan(m) == IF m.type = "AppendEntries" THEN [m EXCEPT !.live = FALSE] ELSE m
Calls == {m \in net : m.type \in {"AppendEntries", "Appended"}}

-----------------------------------------------------------------------------
Init ==
    /\ currentTerm  = [n \in Server |-> 0]
    /\ votedFor     = [n \in Server |-> None]
    /\ log          = [n \in Server |-> <<>>]
    /\ stored       = [n \in Server |-> <<0, None>>]
    /\ state        = [n \in Server |-> "Follower"]
    /\ loop         = [n \in Server |-> "follower"]
    /\ commitIndex  = [n \in Server |-> 0]
    /\ leaderID     = [n \in Server |-> None]
    /\ electionTerm = [n \in Server |-> 0]
    /\ votes        = [n \in Server |-> {}]
    /\ nextIndex    = [n \in Server |-> [p \in Server |-> 1]]
    /\ matchIndex   = [n \in Server |-> [p \in Server |-> 0]]
    /\ peersTerm    = [n \in Server |-> 0]
    /\ net = {}
    /\ elections = 0
    /\ crashes = 0
    /\ ballots = {}
    /\ leaders = {}
    /\ committed = <<>>

-----------------------------------------------------------------------------
(* Elections *)

\* Mutant: the term is not written.
PersistVoteOnly(n, term, vote, older) ==
    stored' = [stored EXCEPT ![n] = <<@[1], vote>>]

\* persistState writes the term and then the vote, each in a transaction whose
\* error is logged and otherwise ignored: either field may keep what it held.
\* "older" are the votes that the writes so far may have left there.
Persist(n, term, vote, older) ==
    \E t \in {term} \cup (IF StateFaults THEN {stored[n][1]} ELSE {}),
       v \in {vote} \cup (IF StateFaults THEN older ELSE {}) :
        stored' = [stored EXCEPT ![n] = <<t, v>>]

\* The node becomes leader of whatever term it is in: state and leaderID are
\* set without looking at them again, runLeader rebuilds r.peers and starts
\* the replicators.
BecomeLeader(n, term) ==
    /\ state'        = [state EXCEPT ![n] = "Leader"]
    /\ loop'         = [loop EXCEPT ![n] = "starting"]
    /\ leaderID'     = [leaderID EXCEPT ![n] = n]
    /\ electionTerm' = [electionTerm EXCEPT ![n] = 0]
    /\ votes'        = [votes EXCEPT ![n] = {}]
    /\ nextIndex'    = [nextIndex EXCEPT ![n] = [p \in Server |-> Len(log[n]) + 1]]
    /\ matchIndex'   = [matchIndex EXCEPT ![n] = [p \in Server |-> 0]]
    /\ peersTerm'    = [peersTerm EXCEPT ![n] = term]
    /\ leaders'      = leaders \cup {<<term, n>>}

\* The election timer fires: a follower, or a candidate still in that role,
\* increments its term, votes for itself, persists both and asks every peer.
StartElection(n) ==
    LET term == currentTerm[n] + 1 IN
    /\ \/ loop[n] = "follower"
       \/ loop[n] = "candidate" /\ state[n] = "Candidate"
    /\ n \in Candidates /\ elections < MaxElections
    /\ elections' = elections + 1
    /\ "StaleReply" \in Races \/ ~\E m \in net : IsCallOf(n, m)
    /\ currentTerm' = [currentTerm EXCEPT ![n] = term]
    /\ votedFor'    = [votedFor EXCEPT ![n] = n]
    /\ Persist(n, term, n, {stored[n][2]})
    /\ ballots'     = ballots \cup {<<term, n, n>>}
    /\ net' = DropVotes(net, n) \cup
              {[type |-> "RequestVote", from |-> n, to |-> p, term |-> term,
                lastLogIndex |-> Len(log[n]), lastLogTerm |-> LastTerm(log[n])] :
               p \in Server \ {n}}
    /\ IF Quorum = 1
         THEN BecomeLeader(n, term)
         ELSE /\ state'        = [state EXCEPT ![n] = "Candidate"]
              /\ loop'         = [loop EXCEPT ![n] = "candidate"]
              /\ electionTerm' = [electionTerm EXCEPT ![n] = term]
              /\ votes'        = [votes EXCEPT ![n] = {n}]
              /\ UNCHANGED <<leaderID, leaders, peerVars>>
    /\ UNCHANGED <<log, commitIndex, crashes, committed>>

\* The timer fires in runCandidate after a replicator has already made the
\* node a follower: run() enters runFollower.
LeaveElection(n) ==
    /\ loop[n] = "candidate" /\ state[n] # "Candidate"
    /\ loop'         = [loop EXCEPT ![n] = LoopOf(state[n])]
    /\ electionTerm' = [electionTerm EXCEPT ![n] = 0]
    /\ votes'        = [votes EXCEPT ![n] = {}]
    /\ net' = DropVotes(net, n)
    /\ UNCHANGED <<persistentVars, state, commitIndex, leaderID, peerVars,
                   elections, crashes, ballots, leaders, committed>>

\* Rules 2 and 3 of handleRequestVote, for a node whose vote this is.
Grants(n, m, vote) ==
    /\ VoteFree(vote, m.from)
    /\ IsLogUpToDate(m.lastLogTerm, m.lastLogIndex,
                     LastTerm(log[n]), Len(log[n]))

\* handleRequestVote, run by the main goroutine in any of its loops, and the
\* loop-head check that follows it.  A vote in a newer term is persisted twice:
\* stepDown clears it, the grant sets it.  A refusal in the candidate's own term
\* changes nothing there and is not sent, nor is an answer nobody awaits.
HandleRequestVote(n, m) ==
    LET newer == m.term > currentTerm[n]
        vote  == IF newer THEN None ELSE votedFor[n]
        term  == IF newer THEN m.term ELSE currentTerm[n]
        role  == IF newer THEN "Follower" ELSE state[n]
        grant == m.term = term /\ Grants(n, m, vote)
        final == IF grant THEN m.from ELSE vote
        resp  == [type |-> "Vote", from |-> n, to |-> m.from, call |-> m.term,
                  term |-> term, granted |-> grant]
        awaited == /\ loop[m.from] = "candidate"
                   /\ electionTerm[m.from] = m.term
                   /\ grant \/ term > m.term
        left  == LoopOf(role) # "candidate"
    IN
    /\ m \in net /\ m.type = "RequestVote" /\ m.to = n
    /\ loop[n] \in Selecting
    /\ currentTerm'  = [currentTerm EXCEPT ![n] = term]
    /\ votedFor'     = [votedFor EXCEPT ![n] = final]
    /\ IF newer \/ grant
         THEN Persist(n, term, final,
                      {stored[n][2]} \cup (IF newer THEN {None} ELSE {}))
         ELSE UNCHANGED stored
    /\ state'        = [state EXCEPT ![n] = role]
    /\ loop'         = [loop EXCEPT ![n] = LoopOf(role)]
    /\ leaderID'     = [leaderID EXCEPT ![n] = HintAfter(n, m.term)]
    /\ electionTerm' = [electionTerm EXCEPT ![n] = IF left THEN 0 ELSE @]
    /\ votes'        = [votes EXCEPT ![n] = IF left THEN {} ELSE @]
    /\ ballots' = IF grant THEN ballots \cup {<<m.term, n, m.from>>} ELSE ballots
    /\ net' = (IF left THEN DropVotes(net \ {m}, n) ELSE net \ {m})
                \cup (IF awaited THEN {resp} ELSE {})
    /\ UNCHANGED <<log, commitIndex, peerVars, elections, crashes, leaders,
                   committed>>

\* runCandidate takes an answer from voteCh.  A higher term ends the
\* candidacy; a granted vote is counted and the quorum makes a leader.
HandleVote(n, m) ==
    LET counted == votes[n] \cup {m.from} IN
    /\ m \in net /\ m.type = "Vote" /\ m.to = n
    /\ loop[n] = "candidate" /\ m.call = electionTerm[n]
    /\ UNCHANGED <<log, commitIndex, elections, crashes, ballots, committed>>
    /\ \/ /\ m.term > currentTerm[n]
          /\ currentTerm'  = [currentTerm EXCEPT ![n] = m.term]
          /\ votedFor'     = [votedFor EXCEPT ![n] = None]
          /\ Persist(n, m.term, None, {stored[n][2]})
          /\ state'        = [state EXCEPT ![n] = "Follower"]
          /\ loop'         = [loop EXCEPT ![n] = "follower"]
          /\ leaderID'     = [leaderID EXCEPT ![n] = None]
          /\ electionTerm' = [electionTerm EXCEPT ![n] = 0]
          /\ votes'        = [votes EXCEPT ![n] = {}]
          /\ net' = DropVotes(net, n)
          /\ UNCHANGED <<peerVars, leaders>>
       \/ /\ m.term <= currentTerm[n]
          /\ m.granted
          /\ UNCHANGED <<currentTerm, votedFor, stored>>
          /\ IF Cardinality(counted) >= Quorum
               THEN /\ BecomeLeader(n, currentTerm[n])
                    /\ net' = DropVotes(net, n)
               ELSE /\ loop'  = [loop EXCEPT ![n] = LoopOf(state[n])]
                    /\ votes' = [votes EXCEPT ![n] =
                                    IF state[n] = "Candidate" THEN counted ELSE {}]
                    /\ electionTerm' = [electionTerm EXCEPT ![n] =
                                    IF state[n] = "Candidate" THEN @ ELSE 0]
                    /\ net' = IF state[n] = "Candidate" THEN net \ {m}
                                                        ELSE DropVotes(net, n)
                    /\ UNCHANGED <<state, leaderID, peerVars, leaders>>

-----------------------------------------------------------------------------
(* The leader's log *)

\* Mutant: the index of a new entry is taken from commitIndex.
AppendedAfterCommit(n, v) ==
    Append(SubSeq(log[n], 1, commitIndex[n]),
           [term |-> currentTerm[n], value |-> v])

\* The log with a new entry of the current term at LastIndex + 1.
Appended(n, v) == Append(log[n], [term |-> currentTerm[n], value |-> v])

\* appendNoOp, then the head of runLeader's loop.  The code does not look at
\* r.state before it appends; the store may refuse the entry.
AppendNoOp(n) ==
    /\ loop[n] = "starting"
    /\ \/ log' = [log EXCEPT ![n] = Appended(n, NoOp)]
       \/ DiskFaults /\ UNCHANGED log
    /\ loop' = [loop EXCEPT ![n] = LoopOf(state[n])]
    /\ UNCHANGED <<currentTerm, votedFor, stored, state, commitIndex, leaderID,
                   candidateVars, peerVars, net, elections, crashes, ballots,
                   leaders, committed>>

\* runLeader takes a client's command from applyCh while it leads.
HandleApplyRequest(n, v) ==
    /\ loop[n] = "leader" /\ state[n] = "Leader"
    /\ Len(log[n]) < MaxLog
    /\ log' = [log EXCEPT ![n] = Appended(n, v)]
    /\ UNCHANGED <<currentTerm, votedFor, stored, state, loop, commitIndex,
                   leaderID, candidateVars, peerVars, net, elections, crashes, ballots,
                   leaders, committed>>

\* runLeader takes a command that was queued before a replicator made the
\* node a follower: the command is refused and the loop ends.
RefuseApplyRequest(n) ==
    /\ loop[n] = "leader" /\ state[n] # "Leader"
    /\ loop' = [loop EXCEPT ![n] = LoopOf(state[n])]
    /\ UNCHANGED <<persistentVars, state, commitIndex, leaderID,
                   candidateVars, peerVars, net, elections, crashes, ballots,
                   leaders, committed>>

\* replicateOnce up to the call: a heartbeat or the entries from nextIndex on.
ReplicateOnce(n, p) ==
    LET prev == nextIndex[n][p] - 1 IN
    /\ n # p
    /\ Cardinality(Calls) < MaxCalls
    /\ loop[n] \in {"starting", "leader"} /\ state[n] = "Leader"
    /\ ~\E m \in net : /\ IsCallOf(n, m) /\ p \in {m.from, m.to}
                       /\ m.type = "AppendEntries" => m.term = peersTerm[n]
                       /\ m.type = "Appended" => m.call = peersTerm[n]
    /\ net' = net \cup
         {[type |-> "AppendEntries", from |-> n, to |-> p,
           term |-> currentTerm[n], prevLogIndex |-> prev,
           prevLogTerm |-> TermAt(log[n], prev),
           entries |-> SubSeq(log[n], prev + 1, Len(log[n])),
           leaderCommit |-> commitIndex[n], live |-> TRUE]}
    /\ UNCHANGED <<persistentVars, state, loop, commitIndex, leaderID,
                   candidateVars, peerVars, elections, crashes, ballots,
                   leaders, committed>>

-----------------------------------------------------------------------------
(* Followers *)

\* The consistency check at prevLogIndex, for a log long enough for it.
\* Mutant: any entry at prevLogIndex will do.
PrevExists(l, prev, term) == TRUE

PrevMatches(l, prev, term) == prev > 0 => l[prev].term = term

\* The positions of the entries a follower lacks or holds with another term.
Mismatches(l, prev, es) ==
    {i \in DOMAIN es : prev + i > Len(l) \/ l[prev + i].term # es[i].term}

\* Where handleAppendEntries starts to write, if it writes at all.
FirstMismatch(l, prev, es) ==
    CHOOSE i \in Mismatches(l, prev, es) :
        \A j \in Mismatches(l, prev, es) : i <= j

\* The log with the conflicting suffix deleted (DeleteRange) ...
Truncated(l, prev, es) ==
    IF Mismatches(l, prev, es) = {} THEN l
    ELSE SubSeq(l, 1, prev + FirstMismatch(l, prev, es) - 1)

\* ... and with the missing entries stored (StoreLogs).
\* Mutant: everything after prevLogIndex is replaced, conflict or not.
Replaced(l, prev, es) == SubSeq(l, 1, prev) \o es

Merged(l, prev, es) ==
    IF Mismatches(l, prev, es) = {} THEN l
    ELSE Truncated(l, prev, es)
           \o SubSeq(es, FirstMismatch(l, prev, es), Len(es))

\* The first index of the run of entries that ends at i and has i's term.
FirstOfTerm(l, i) ==
    CHOOSE k \in 1..i : /\ \A j \in k..i : l[j].term = l[i].term
                        /\ k = 1 \/ l[k - 1].term # l[i].term

\* committed is the longest log any node has known to be committed.
Remember(l, index) ==
    committed' = IF index > Len(committed) THEN SubSeq(l, 1, index)
                                           ELSE committed

\* The response to m, and its way back to a caller that still waits.  The
\* handler ends the candidacy, if any: nobody reads its votes any more.
AppendResponse(n, m, term, success, conflictTerm, conflictIndex) ==
    [type |-> "Appended", from |-> n, to |-> m.from, call |-> m.term,
     term |-> term, success |-> success,
     last |-> IF m.entries = <<>> THEN 0 ELSE m.prevLogIndex + Len(m.entries),
     conflictTerm |-> conflictTerm, conflictIndex |-> conflictIndex]

Reply(n, m, r) ==
    net' = DropVotes(net \ {m}, n) \cup (IF m.live THEN {r} ELSE {})

\* A stale leader is told our term; then the head of the loop is passed.
RejectStaleLeader(n, m) ==
    /\ m.term < currentTerm[n]
    /\ net' = (IF state[n] = "Candidate" THEN net \ {m}
                                         ELSE DropVotes(net \ {m}, n))
                \cup (IF m.live
                        THEN {AppendResponse(n, m, currentTerm[n], FALSE, 0, 0)}
                        ELSE {})
    /\ loop' = [loop EXCEPT ![n] = LoopOf(state[n])]
    /\ electionTerm' = [electionTerm EXCEPT ![n] =
                           IF state[n] = "Candidate" THEN @ ELSE 0]
    /\ votes' = [votes EXCEPT ![n] = IF state[n] = "Candidate" THEN @ ELSE {}]
    /\ UNCHANGED <<persistentVars, state, commitIndex, leaderID, committed>>

\* The leader of this term or a later one: step down, which forgets our vote
\* unless we already follow in this term, and remember the leader.
\* Mutant: the leader of any term will do.
FollowAnyLeader(n, m) ==
    /\ currentTerm' = [currentTerm EXCEPT ![n] = m.term]
    /\ votedFor'    = [votedFor EXCEPT ![n] = None]
    /\ Persist(n, m.term, None, {stored[n][2]})
    /\ state'    = [state EXCEPT ![n] = "Follower"]
    /\ loop'     = [loop EXCEPT ![n] = "follower"]
    /\ leaderID' = [leaderID EXCEPT ![n] = m.from]
    /\ electionTerm' = [electionTerm EXCEPT ![n] = 0]
    /\ votes'        = [votes EXCEPT ![n] = {}]

FollowLeader(n, m) ==
    /\ m.term >= currentTerm[n]
    /\ currentTerm' = [currentTerm EXCEPT ![n] = m.term]
    /\ IF m.term > currentTerm[n] \/ state[n] # "Follower"
         THEN /\ votedFor' = [votedFor EXCEPT ![n] = None]
              /\ Persist(n, m.term, None, {stored[n][2]})
         ELSE UNCHANGED <<votedFor, stored>>
    /\ state'    = [state EXCEPT ![n] = "Follower"]
    /\ loop'     = [loop EXCEPT ![n] = "follower"]
    /\ leaderID' = [leaderID EXCEPT ![n] = m.from]
    /\ electionTerm' = [electionTerm EXCEPT ![n] = 0]
    /\ votes'        = [votes EXCEPT ![n] = {}]

\* Our log ends before prevLogIndex.
RejectShortLog(n, m) ==
    /\ m.prevLogIndex > Len(log[n])
    /\ Reply(n, m, AppendResponse(n, m, m.term, FALSE, 0, Len(log[n]) + 1))
    /\ UNCHANGED <<log, commitIndex, committed>>

\* We hold another entry at prevLogIndex.
RejectConflict(n, m) ==
    /\ m.prevLogIndex \in DOMAIN log[n]
    /\ ~PrevMatches(log[n], m.prevLogIndex, m.prevLogTerm)
    /\ Reply(n, m, AppendResponse(n, m, m.term, FALSE,
                                  log[n][m.prevLogIndex].term,
                                  FirstOfTerm(log[n], m.prevLogIndex)))
    /\ UNCHANGED <<log, commitIndex, committed>>

PassesCheck(n, m) ==
    /\ m.prevLogIndex <= Len(log[n])
    /\ PrevMatches(log[n], m.prevLogIndex, m.prevLogTerm)

\* Store the entries, then learn what is committed.
StoreEntries(n, m) ==
    LET newLog == Merged(log[n], m.prevLogIndex, m.entries)
        newCommit == IF m.leaderCommit < Len(newLog) THEN m.leaderCommit
                                                     ELSE Len(newLog)
    IN  /\ PassesCheck(n, m)
        /\ log' = [log EXCEPT ![n] = newLog]
        /\ IF m.leaderCommit > commitIndex[n]
             THEN /\ commitIndex' = [commitIndex EXCEPT ![n] = newCommit]
                  /\ Remember(newLog, newCommit)
             ELSE UNCHANGED <<commitIndex, committed>>
        /\ Reply(n, m, AppendResponse(n, m, m.term, TRUE, 0, 0))

\* The store fails, perhaps after the conflicting suffix went.
StoreFails(n, m) ==
    /\ DiskFaults
    /\ PassesCheck(n, m)
    /\ Mismatches(log[n], m.prevLogIndex, m.entries) # {}
    /\ \/ log' = [log EXCEPT ![n] = Truncated(@, m.prevLogIndex, m.entries)]
       \/ UNCHANGED log
    /\ Reply(n, m, AppendResponse(n, m, m.term, FALSE, 0, 0))
    /\ UNCHANGED <<commitIndex, committed>>

\* handleAppendEntries, run by the main goroutine in any of its loops, and
\* the loop-head check that follows it.
HandleAppendEntries(n, m) ==
    /\ m \in net /\ m.type = "AppendEntries" /\ m.to = n
    /\ loop[n] \in Selecting
    /\ UNCHANGED <<peerVars, elections, crashes, ballots, leaders>>
    /\ \/ RejectStaleLeader(n, m)
       \/ /\ FollowLeader(n, m)
          /\ \/ RejectShortLog(n, m)
             \/ RejectConflict(n, m)
             \/ StoreEntries(n, m)
             \/ StoreFails(n, m)

-----------------------------------------------------------------------------
(* Answers to AppendEntries *)

Match(n, p) == IF p = n THEN Len(log[n]) ELSE matchIndex'[n][p]

\* matches[majority-1] of the sorted slice: the largest index that a majority
\* has reached.
\* Mutant: matches[majority-2], one replica short of a majority.
MinorityMatch(n) ==
    CHOOSE k \in {Match(n, p) : p \in Server} :
        /\ Cardinality({p \in Server : Match(n, p) >= k}) >= Quorum - 1
        /\ Cardinality({p \in Server : Match(n, p) > k}) < Quorum - 1

MajorityMatch(n) ==
    CHOOSE k \in {Match(n, p) : p \in Server} :
        /\ Cardinality({p \in Server : Match(n, p) >= k}) >= Quorum
        /\ Cardinality({p \in Server : Match(n, p) > k}) < Quorum

\* advanceCommitIndex, with the matchIndex the answer has just set.  It looks
\* at the term of the entry and not at the node's role.
AdvanceCommitIndex(n) ==
    LET k == MajorityMatch(n) IN
    IF /\ k > commitIndex[n]
       /\ k \in DOMAIN log[n]
       /\ log[n][k].term = currentTerm[n]
      THEN /\ commitIndex' = [commitIndex EXCEPT ![n] = k]
           /\ Remember(log[n], k)
      ELSE UNCHANGED <<commitIndex, committed>>

\* Where to resume after a refused AppendEntries: after our last entry of the
\* conflicting term if we have one, else where the follower says.
ConflictNext(n, m) ==
    LET same == {i \in DOMAIN log[n] : log[n][i].term = m.conflictTerm}
    IN  IF m.conflictTerm > 0 /\ same # {}
          THEN (CHOOSE i \in same : \A j \in same : j <= i) + 1
          ELSE m.conflictIndex

\* Mutants: nextIndex may become 0; nextIndex stays when the conflicting term
\* is unknown to the leader.
BackUpUnclamped(n, m) == ConflictNext(n, m)
BackUpStays(n, m) ==
    IF m.conflictTerm > 0 THEN nextIndex[n][m.from] ELSE ConflictNext(n, m)

BackUp(n, m) ==
    IF ConflictNext(n, m) < 1 THEN 1 ELSE ConflictNext(n, m)

\* replicateOnce after the call: a replicator processes the answer, whatever
\* role the node has by now.  An answer to a call of an earlier leadership
\* updates a peerState that is no longer in r.peers.
HandleAppendEntriesResponse(n, m) ==
    LET current == m.call = peersTerm[n] IN
    /\ m \in net /\ m.type = "Appended" /\ m.to = n
    /\ loop[n] # "down"
    /\ loop[n] = "starting" => "EarlyReply" \in Races
    /\ net' = net \ {m}
    /\ UNCHANGED <<log, loop, candidateVars, peersTerm, elections, crashes,
                   ballots, leaders>>
    /\ \/ /\ m.term > currentTerm[n]
          /\ currentTerm' = [currentTerm EXCEPT ![n] = m.term]
          /\ votedFor'    = [votedFor EXCEPT ![n] = None]
          /\ Persist(n, m.term, None, {stored[n][2]})
          /\ state'       = [state EXCEPT ![n] = "Follower"]
          /\ leaderID'    = [leaderID EXCEPT ![n] = None]
          /\ UNCHANGED <<commitIndex, nextIndex, matchIndex, committed>>
       \/ /\ m.term <= currentTerm[n]
          /\ m.success
          /\ IF current /\ m.last > 0
               THEN /\ matchIndex' = [matchIndex EXCEPT ![n][m.from] = m.last]
                    /\ nextIndex'  = [nextIndex EXCEPT ![n][m.from] = m.last + 1]
               ELSE UNCHANGED <<matchIndex, nextIndex>>
          /\ AdvanceCommitIndex(n)
          /\ UNCHANGED <<currentTerm, votedFor, stored, state, leaderID>>
       \/ /\ m.term <= currentTerm[n]
          /\ ~m.success
          /\ nextIndex' = [nextIndex EXCEPT ![n][m.from] =
                              IF current THEN BackUp(n, m) ELSE @]
          /\ UNCHANGED <<currentTerm, votedFor, stored, state, leaderID,
                         commitIndex, matchIndex, committed>>

-----------------------------------------------------------------------------
(* Failures *)

\* SendAppendEntries fails: the request or the answer is lost, or the caller
\* times out while the request is still on its way.  (A RequestVote call that
\* fails needs no step: its message is one that never arrives.)
CallFails(m) ==
    /\ m \in Calls
    /\ \/ net' = net \ {m}
       \/ /\ m.type = "AppendEntries" /\ m.live
          /\ net' = (net \ {m}) \cup {Orphan(m)}
    /\ UNCHANGED <<persistentVars, state, loop, commitIndex, leaderID,
                   candidateVars, peerVars, elections, crashes, ballots,
                   leaders, committed>>

\* What a crash may leave on disk: what is stored or, in the middle of a handler
\* that calls persistState, what its writes so far have made of that.  A new
\* term is written before the vote; stepDown clears the vote before a handler
\* grants it or goes on; a vote granted in the current term rewrites the term.
OnDisk(n) ==
    LET taken   == {m \in net : /\ m.to = n
                                /\ m.type = "Appended" \/ loop[n] \in Selecting}
        downs   == {m.term : m \in {x \in taken :
                      \/ x.term > currentTerm[n]
                      \/ /\ x.type = "AppendEntries"
                         /\ x.term = currentTerm[n] /\ state[n] # "Follower"}}
        started == {t \in {currentTerm[n] + 1} :
                      \/ loop[n] = "follower"
                      \/ loop[n] = "candidate" /\ state[n] = "Candidate"}
        granted == {m.term : m \in {x \in taken :
                      /\ x.type = "RequestVote" /\ x.term = currentTerm[n]
                      /\ Grants(n, x, votedFor[n])}}
        failed  == {t \in {stored[n][1]} : StateFaults /\ downs # {}}
    IN  {stored[n]}
          \cup {<<t, stored[n][2]>> : t \in downs \cup started \cup granted}
          \cup {<<t, None>> : t \in downs \cup failed}

\* The process dies, keeping what is on disk; NewRaftNode restores that.
Crash(n, disk) ==
    /\ loop[n] # "down"
    /\ crashes < MaxCrashes
    /\ crashes' = crashes + 1
    /\ currentTerm'  = [currentTerm EXCEPT ![n] = disk[1]]
    /\ votedFor'     = [votedFor EXCEPT ![n] = disk[2]]
    /\ stored'       = [stored EXCEPT ![n] = disk]
    /\ state'        = [state EXCEPT ![n] = "Follower"]
    /\ loop'         = [loop EXCEPT ![n] = "down"]
    /\ commitIndex'  = [commitIndex EXCEPT ![n] = 0]
    /\ leaderID'     = [leaderID EXCEPT ![n] = None]
    /\ electionTerm' = [electionTerm EXCEPT ![n] = 0]
    /\ votes'        = [votes EXCEPT ![n] = {}]
    /\ nextIndex'    = [nextIndex EXCEPT ![n] = [p \in Server |-> 1]]
    /\ matchIndex'   = [matchIndex EXCEPT ![n] = [p \in Server |-> 0]]
    /\ peersTerm'    = [peersTerm EXCEPT ![n] = 0]
    /\ net' = {IF m.from = n THEN Orphan(m) ELSE m :
               m \in {x \in net : x.to # n}}
    /\ UNCHANGED <<log, elections, ballots, leaders, committed>>

Restart(n) ==
    /\ loop[n] = "down"
    /\ loop' = [loop EXCEPT ![n] = "follower"]
    /\ UNCHANGED <<persistentVars, state, commitIndex, leaderID,
                   candidateVars, peerVars, net, elections, crashes, ballots,
                   leaders, committed>>

-----------------------------------------------------------------------------
Next ==
    \/ \E n \in Server :
          \/ StartElection(n)
          \/ LeaveElection(n)
          \/ AppendNoOp(n)
          \/ \E v \in Value : HandleApplyRequest(n, v)
          \/ RefuseApplyRequest(n)
          \/ \E p \in Server : ReplicateOnce(n, p)
          \/ \E disk \in OnDisk(n) : Crash(n, disk)
          \/ Restart(n)
    \/ \E m \in net :
          \/ HandleRequestVote(m.to, m)
          \/ HandleVote(m.to, m)
          \/ HandleAppendEntries(m.to, m)
          \/ HandleAppendEntriesResponse(m.to, m)
          \/ CallFails(m)

Spec == Init /\ [][Next]_vars

\* What the program does again and again as long as it can: replicators send
\* on every heartbeat and retry failed calls, so that a call which succeeds
\* often enough to be possible again and again succeeds; a node that is down
\* is started again and a new leader gets to append its no-op.
Deliver(p, n) ==
    \E m \in net : /\ m.from = p /\ m.to = n
                   /\ IsCallOf(n, m) \/ IsCallOf(p, m)
                   /\ \/ HandleAppendEntries(n, m)
                      \/ HandleAppendEntriesResponse(n, m)

\* A request whose caller has given up does not stay in flight for ever.
Expire ==
    \E m \in net : /\ m.type = "AppendEntries" /\ ~m.live
                   /\ HandleAppendEntries(m.to, m) \/ CallFails(m)

Fairness ==
    /\ WF_vars(Expire)
    /\ \A n \in Server :
          /\ WF_vars(AppendNoOp(n))
          /\ WF_vars(Restart(n))
          /\ \A p \in Server \ {n} : /\ SF_vars(ReplicateOnce(n, p))
                                     /\ SF_vars(Deliver(p, n))

FairSpec == Spec /\ Fairness

-----------------------------------------------------------------------------
(* Properties *)

\* Every variable has its type; in particular nextIndex never reaches 0, which
\* would wrap PrevLogIndex around (replication.go:85 computes nextIndex - 1 on
\* an unsigned integer).
TypeOK ==
    /\ currentTerm \in [Server -> Nat]
    /\ votedFor \in [Server -> Server \cup {None}]
    /\ log \in [Server -> Seq(Entry)]
    /\ stored \in [Server -> Nat \X (Server \cup {None})]
    /\ state \in [Server -> States]
    /\ loop \in [Server -> Loops]
    /\ commitIndex \in [Server -> Nat]
    /\ leaderID \in [Server -> Server \cup {None}]
    /\ electionTerm \in [Server -> Nat]
    /\ votes \in [Server -> SUBSET Server]
    /\ nextIndex \in [Server -> [Server -> Nat \ {0}]]
    /\ matchIndex \in [Server -> [Server -> Nat]]
    /\ peersTerm \in [Server -> Nat]
    /\ net \subseteq Message
    /\ elections \in Nat
    /\ crashes \in Nat
    /\ ballots \subseteq (Nat \X Server \X Server)
    /\ leaders \subseteq (Nat \X Server)
    /\ committed \in Seq(Entry)

IsPrefixOf(s, t) == Len(s) <= Len(t) /\ \A i \in DOMAIN s : s[i] = t[i]

\* What node n takes for committed.
Known(n) == SubSeq(log[n], 1, commitIndex[n])

\* At most one node ever becomes leader of a term (types.go:35, election.go:6),
\* although stepDown forgets votes in the middle of a term
\* (replication.go:248-253) and crashes tear persistState.
ElectionSafety ==
    \A l1, l2 \in leaders : l1[1] = l2[1] => l1[2] = l2[2]

\* The inductive strengthening of ElectionSafety, for a program in which
\* replicators do not outlive their leadership ("StaleReply" not in Races), on
\* stable stores that fail no write ("~StateFaults").
\* Main goroutine and role agree where an election is concerned.
RoleInv ==
    \A n \in Server :
        /\ state[n] = "Candidate" <=> loop[n] = "candidate"
        /\ state[n] = "Leader" => loop[n] \in {"starting", "leader"}
        /\ state[n] # "Follower" => votedFor[n] = n
        /\ loop[n] = "candidate" => /\ electionTerm[n] = currentTerm[n]
                                    /\ \A m \in net : ~IsCallOf(n, m)

\* A node is for good a voter of leader l: it voted for nobody else in that
\* term and never will.
Supports(v, l) ==
    /\ <<l[1], v, l[2]>> \in ballots
    /\ \A b \in ballots : b[1] = l[1] /\ b[2] = v => b[3] = l[2]
    /\ currentTerm[v] = l[1] => votedFor[v] = l[2]

\* A ballot is cast in the voter's term or an earlier one.
BallotTerms == \A b \in ballots : b[1] <= currentTerm[b[2]]

\* Until a term has a leader, its ballots are single and votedFor records them.
\* (Afterwards an AppendEntries may erase the vote of a losing candidate.)
UndecidedInv ==
    \A b \in ballots : (\A l \in leaders : l[1] # b[1]) =>
        /\ b[1] = currentTerm[b[2]] => votedFor[b[2]] = b[3]
        /\ \A c \in ballots : c[1] = b[1] /\ c[2] = b[2] => c[3] = b[3]

\* Every leader keeps the support of a majority in its term.
LeadersSupported ==
    \A l \in leaders : \E Q \in Quorums : \A v \in Q : Supports(v, l)

VoteInv == BallotTerms /\ UndecidedInv /\ LeadersSupported

\* What a candidate counts, or will count, was cast; a node that leads won; and
\* requests in the name of a leader come from one.
RecordInv ==
    /\ \A n \in Server : loop[n] = "candidate" =>
          \A v \in votes[n] : <<currentTerm[n], v, n>> \in ballots
    /\ \A m \in net : m.type = "Vote" /\ m.granted =>
          <<m.call, m.from, m.to>> \in ballots
    /\ \A n \in Server : state[n] = "Leader" => <<currentTerm[n], n>> \in leaders
    /\ \A m \in net : m.type = "AppendEntries" =>
          <<m.term, m.from>> \in leaders /\ m.from # m.to

\* The stable store holds the term and the vote that the node acts on, which
\* is so as long as no write to it fails ("~StateFaults").
StoreInv == \A n \in Server : stored[n] = <<currentTerm[n], votedFor[n]>>

\* Leaders keep a majority that can never vote for another node in their term,
\* from the win on and through any number of crashes.
ElectionInv == RoleInv /\ VoteInv /\ RecordInv /\ StoreInv

\* Two logs that agree on the term of an entry agree on that entry and on all
\* before it (replication.go:6-7).
LogMatching ==
    \A n, p \in Server : \A i \in DOMAIN log[n] \cap DOMAIN log[p] :
        log[n][i].term = log[p][i].term =>
            \A j \in 1..i : log[n][j] = log[p][j]

\* The terms in a log never decrease and never pass the node's own term, which
\* isLogUpToDate relies on when it compares last entries only
\* (election.go:190-198); whatever replicators do to the role in between and
\* whichever writes of the log fail, but no write of the term ("~StateFaults").
LogTermsOrdered ==
    \A n \in Server : \A i \in DOMAIN log[n] :
        /\ log[n][i].term <= currentTerm[n]
        /\ i > 1 => log[n][i - 1].term <= log[n][i].term

\* No node is candidate or leader outside the loop of that role, where it would
\* keep its role without doing its work: replicators may only turn the main
\* goroutine's node into a follower behind its back.
LoopServesRole ==
    \A n \in Server :
        /\ state[n] = "Candidate" => loop[n] = "candidate"
        /\ state[n] = "Leader" => loop[n] \in {"starting", "leader"}

\* No two nodes ever hold different entries for committed at one index, now or
\* at an earlier time, and no node loses what it took for committed.
StateMachineSafety ==
    \A n \in Server : /\ commitIndex[n] <= Len(log[n])
                      /\ IsPrefixOf(Known(n), committed)

\* The leader of the highest term holds every entry that was ever committed
\* (election.go:151-152).
LeaderCompleteness ==
    \A n \in Server :
        /\ state[n] = "Leader"
        /\ \A p \in Server : currentTerm[p] <= currentTerm[n]
        => IsPrefixOf(committed, log[n])

\* A majority of the disks holds everything that was ever committed, whatever
\* DeleteRange removed and whichever stores failed.
CommittedOnQuorum ==
    \E Q \in Quorums : \A v \in Q : IsPrefixOf(committed, log[v])

\* matchIndex never overstates: a follower that has not moved to a later term
\* holds the leader's entries up to it, even when requests of an abandoned
\* call arrive late.
MatchIndexSound ==
    \A n, p \in Server :
        /\ state[n] = "Leader"
        /\ currentTerm[p] <= currentTerm[n]
        => /\ matchIndex[n][p] <= Len(log[p])
           /\ \A i \in 1..matchIndex[n][p] : log[p][i] = log[n][i]

\* A follower that names a leader to its clients names the one that was
\* elected in the follower's own term.
HintIsLeaderOfTerm ==
    \A n \in Server : state[n] = "Follower" /\ leaderID[n] # None
                        => <<currentTerm[n], leaderID[n]>> \in leaders

\* "as long as majority alive, progress is made" (fault_test.go:24): it never
\* happens that a majority runs, yet every running node sits in runLeader's
\* select without leading, where it has no election timer, and no call is on
\* its way to any of them (RequestVote requests may be lost).
MajorityCanProgress ==
    LET up == {n \in Server : loop[n] # "down"} IN
    ~ /\ Cardinality(up) >= Quorum
      /\ \A n \in up : loop[n] = "leader" /\ state[n] # "Leader"
      /\ \A m \in net : m.to \in up => m.type = "RequestVote"

\* A leader never overwrites or deletes its own entries (replication.go:8).
LeaderAppendOnly ==
    [][\A n \in Server : state[n] = "Leader" /\ state'[n] = "Leader"
                            => IsPrefixOf(log[n], log'[n])]_vars

\* A node's term goes back only at a crash, and only to the term that a failed
\* write of persistState (raft.go:650-652) left on its disk: not when a crash
\* tears persistState, and not at all when no write to the stable store fails.
TermsNeverRegress ==
    [][\A n \in Server : currentTerm'[n] < currentTerm[n] =>
          /\ StateFaults /\ loop'[n] = "down"
          /\ currentTerm'[n] = stored[n][1]]_vars

\* Once elections, commands and crashes cease, every node ends up with the
\* log of whoever leads, all of it committed: backing up over conflicts
\* terminates and the last commitIndex reaches every follower.
ReplicationConverges ==
    <>[](\A n, p \in Server : state[n] = "Leader" =>
            log[p] = log[n] /\ commitIndex[p] = Len(log[n]))

\* The nodes together implement the abstract replicated log: what is committed
\* only grows, and each node's committed prefix is learnt from it.
Abstract == INSTANCE ReplicatedLog
    WITH Node <- Server, chosen <- committed,
         replica <- [n \in Server |-> Known(n)]
ImplementsReplicatedLog == Abstract!Spec
=============================================================================
