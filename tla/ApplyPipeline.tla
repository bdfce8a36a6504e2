---------------------------- MODULE ApplyPipeline ----------------------------
(***************************************************************************)
(* From Apply() to the state machine on one node: the request channel, the *)
(* futures by log index, the leader's loop and the apply loop (raft.go,    *)
(* future.go).  What the other nodes and the replicators do to this node   *)
(* is what module Raft allows: leaderships begin and end, a new leader     *)
(* replaces entries that are not committed, committed entries stay.        *)
(*                                                                         *)
(* Goroutines: callers of Apply with their timeouts; the main goroutine,   *)
(* of which only runLeader matters here (loop); the replicators; and the   *)
(* apply loop, which reads entries without holding r.mu.                   *)
(***************************************************************************)
EXTENDS Integers, Sequences, FiniteSets

CONSTANTS
    Request,     \* calls of Apply, each with its own command
    Other,       \* a command that another node proposed
    NoOp,        \* the empty Data of a new leader's entry
    Nothing,     \* no entry in the apply loop's hands
    QueueCap,    \* capacity of applyCh (256 in the code)
    MaxTerm,     \* bound: terms
    MaxLog,      \* bound: length of the log
    MaxCrashes   \* bound: crashes of the node

ASSUME CommandAssumption ==
    /\ Other \notin Request /\ NoOp \notin Request /\ Nothing \notin Request
    /\ NoOp # Other /\ Nothing # NoOp /\ Nothing # Other
ASSUME CapAssumption ==
    /\ QueueCap \in Nat \ {0}
    /\ MaxTerm \in Nat /\ MaxLog \in Nat /\ MaxCrashes \in Nat

VARIABLES
    currentTerm, state, log, commitIndex,
    loop,            \* the main goroutine: in runLeader's loop, past it, in
                     \* another loop, or ended after Shutdown
    applyCh,         \* commands that runLeader has not taken yet
    pendingFutures,  \* log index -> the call that waits for it
    future,          \* the state of every call
    response,        \* the command whose response a successful call was given
    notified,        \* the token in commitNotifyCh
    lastApplied,
    next, limit,     \* applyCommitted's loop: idx and the commitIndex it read
    inHand,          \* the command it has applied and not yet recorded
    up, crashes,
    \* history: the committed log, the last term this node led, what this
    \* life's state machine was given, the entries whose last read failed
    chosen, led, applied, failed

raftVars  == <<currentTerm, state, log, commitIndex, chosen, led>>
callVars  == <<applyCh, pendingFutures, future, response>>
applyVars == <<lastApplied, next, limit, inHand, applied, failed>>
vars == <<currentTerm, state, log, commitIndex, loop, applyCh, pendingFutures,
          future, response, notified, lastApplied, next, limit, inHand, up,
          crashes, chosen, led, applied, failed>>

-----------------------------------------------------------------------------
Command == Request \cup {Other, NoOp}
Entry == [term : Nat, cmd : Command]

\* A call that has not been answered: blocked on applyCh, or behind it.
Open == {"sending", "waiting"}
Errors == {"NotLeader", "Timeout", "Shutdown", "LeaderLost", "StoreError"}

\* "dead": the caller's process is gone.
FutureStates == {"new", "ok", "dead"} \cup Open \cup Errors

\* respond(): sync.Once lets only the first answer through.
Respond(f, calls, answer) ==
    [r \in Request |-> IF r \in calls /\ f[r] \in Open THEN answer ELSE f[r]]

Init ==
    /\ currentTerm = 0 /\ state = "Follower" /\ log = <<>> /\ commitIndex = 0
    /\ loop = "other"
    /\ applyCh = <<>>
    /\ pendingFutures = <<>>
    /\ future = [r \in Request |-> "new"]
    /\ response = [r \in Request |-> Nothing]
    /\ notified = FALSE
    /\ lastApplied = 0 /\ next = 1 /\ limit = 0 /\ inHand = Nothing
    /\ up = TRUE /\ crashes = 0
    /\ chosen = <<>> /\ led = 0 /\ applied = <<>> /\ failed = {}

-----------------------------------------------------------------------------
(* Callers *)

\* Apply() looks at the role before it offers the command.
Apply(r) ==
    /\ future[r] = "new"
    /\ future' = [future EXCEPT ![r] = IF state = "Leader" THEN "sending"
                                                           ELSE "NotLeader"]
    /\ UNCHANGED <<raftVars, loop, applyCh, pendingFutures, response, notified,
                   applyVars, up, crashes>>

\* Mutant: one request too many.
RoomForOneMore == Len(applyCh) <= QueueCap

HasRoom == Len(applyCh) < QueueCap

\* There is room in applyCh, whether or not anybody reads it.
Send(r) ==
    /\ future[r] = "sending"
    /\ HasRoom
    /\ applyCh' = Append(applyCh, r)
    /\ future' = [future EXCEPT ![r] = "waiting"]
    /\ UNCHANGED <<raftVars, loop, pendingFutures, response, notified,
                   applyVars, up, crashes>>

\* A timer fires or the node is shut down.  The command stays where it is.
TimeoutCall(r) ==
    /\ future[r] \in Open
    /\ \/ future' = Respond(future, {r}, "Timeout")
       \/ ~up /\ future' = Respond(future, {r}, "Shutdown")
    /\ UNCHANGED <<raftVars, loop, applyCh, pendingFutures, response, notified,
                   applyVars, up, crashes>>

-----------------------------------------------------------------------------
(* The main goroutine *)

\* The node wins an election and enters runLeader, which appends a no-op unless
\* the store fails.
BecomeLeader ==
    /\ up
    /\ loop = "other" /\ state = "Follower"
    /\ currentTerm < MaxTerm /\ Len(log) < MaxLog
    /\ currentTerm' = currentTerm + 1
    /\ state' = "Leader"
    /\ loop' = "leader"
    /\ log' \in {log, Append(log, [term |-> currentTerm + 1, cmd |-> NoOp])}
    /\ led' = currentTerm + 1
    /\ UNCHANGED <<commitIndex, chosen, callVars, notified, applyVars, up,
                   crashes>>

\* The select of runCandidate may take the winning vote although Shutdown has
\* closed shutdownCh and set the role: the node is Leader again, but run() ends
\* instead of entering runLeader.
WinAfterShutdown ==
    /\ ~up
    /\ loop = "other" /\ state = "Follower"
    /\ currentTerm < MaxTerm
    /\ currentTerm' = currentTerm + 1
    /\ state' = "Leader"
    /\ loop' = "ended"
    /\ led' = currentTerm + 1
    /\ UNCHANGED <<log, commitIndex, chosen, callVars, notified, applyVars, up,
                   crashes>>

\* handleApplyRequest stores the command at LastIndex + 1 and files the future
\* under that index.
AppendCommand(r) ==
    /\ state = "Leader"
    /\ Len(log) < MaxLog
    /\ log' = Append(log, [term |-> currentTerm, cmd |-> r])
    /\ pendingFutures' = [i \in DOMAIN pendingFutures \cup {Len(log) + 1} |->
                             IF i = Len(log) + 1 THEN r ELSE pendingFutures[i]]
    /\ UNCHANGED <<loop, future>>

\* The log store fails.
AppendFails(r) ==
    /\ state = "Leader"
    /\ future' = Respond(future, {r}, "StoreError")
    /\ UNCHANGED <<log, pendingFutures, loop>>

\* A replicator or Shutdown changed the role; the loop ends as well.
RefuseCommand(r) ==
    /\ state # "Leader"
    /\ future' = Respond(future, {r}, "NotLeader")
    /\ loop' = "leaving"
    /\ UNCHANGED <<log, pendingFutures>>

HandleApplyRequest ==
    /\ loop = "leader" /\ applyCh # <<>>
    /\ applyCh' = Tail(applyCh)
    /\ \/ AppendCommand(Head(applyCh))
       \/ AppendFails(Head(applyCh))
       \/ RefuseCommand(Head(applyCh))
    /\ UNCHANGED <<currentTerm, state, commitIndex, chosen, led, response,
                   notified, applyVars, up, crashes>>

\* The loop takes some other RPC, or the shutdown signal, and finds that the
\* node does not lead.
LeaveLoop ==
    /\ loop = "leader" /\ state # "Leader"
    /\ loop' = "leaving"
    /\ UNCHANGED <<raftVars, callVars, notified, applyVars, up, crashes>>

\* The calls that failPendingFutures answers.
Pending == {pendingFutures[i] : i \in DOMAIN pendingFutures}

\* What remains of pendingFutures.
\* Mutant: the futures are answered and stay in the map.
KeptFutures == pendingFutures

NoFutures == <<>>

\* failPendingFutures on the way out of runLeader.
FailPendingFutures ==
    /\ loop = "leaving"
    /\ future' = Respond(future, Pending, "LeaderLost")
    /\ pendingFutures' = NoFutures
    /\ loop' = "other"
    /\ UNCHANGED <<raftVars, applyCh, response, notified, applyVars, up,
                   crashes>>

-----------------------------------------------------------------------------
(* Raft *)

\* notifyCommit puts a token into a channel that holds one.
\* Mutant: the channel holds none, and only a waiting apply loop gets it.
NotifyIfWaiting == IF next > limit THEN TRUE ELSE notified

Notify == TRUE

Learn(l, index) ==
    /\ commitIndex' = index
    /\ notified' = Notify
    /\ chosen' = IF index > Len(chosen) THEN SubSeq(l, 1, index) ELSE chosen

\* advanceCommitIndex after an answer: an entry of the current term is on a
\* majority.  A replicator does not look at the role, which may be lost by now.
Commit(index) ==
    /\ led > 0
    /\ index > commitIndex /\ log[index].term = currentTerm
    /\ Learn(log, index)
    /\ UNCHANGED <<currentTerm, state, log, led, loop, callVars, applyVars, up,
                   crashes>>

\* A replicator learns of a later term: only the role and the term change.
Depose ==
    /\ led > 0 /\ currentTerm < MaxTerm
    /\ currentTerm' = currentTerm + 1
    /\ state' = "Follower"
    /\ UNCHANGED <<log, commitIndex, chosen, led, loop, callVars, notified,
                   applyVars, up, crashes>>

\* handleRequestVote with a later term, in any loop.
HandleRequestVote ==
    /\ loop \in {"leader", "other"}
    /\ currentTerm < MaxTerm
    /\ currentTerm' = currentTerm + 1
    /\ state' = "Follower"
    /\ loop' = IF loop = "leader" THEN "leaving" ELSE loop
    /\ UNCHANGED <<log, commitIndex, chosen, led, callVars, notified, applyVars,
                   up, crashes>>

\* handleAppendEntries from another leader of this term or of a later one, which
\* shares our first keep entries, among them all that is committed, and has new
\* ones after them.  A leaderCommit below our commitIndex changes nothing.
HandleAppendEntries(term, keep, new, index) ==
    LET l == IF new = <<>> THEN log ELSE SubSeq(log, 1, keep) \o new
    IN  /\ loop \in {"leader", "other"}
        /\ term > currentTerm \/ term # led
        /\ currentTerm' = term
        /\ state' = "Follower"
        /\ loop' = IF loop = "leader" THEN "leaving" ELSE loop
        /\ log' = l
        /\ IF index > commitIndex
             THEN Learn(l, index)
             ELSE UNCHANGED <<commitIndex, notified, chosen>>
        /\ UNCHANGED <<led, callVars, applyVars, up, crashes>>

\* The entries a new leader may have: its own no-op, and a command.
NewEntries(term) ==
    {<<>>, <<[term |-> term, cmd |-> NoOp]>>,
     <<[term |-> term, cmd |-> NoOp], [term |-> term, cmd |-> Other]>>}

-----------------------------------------------------------------------------
(* The apply loop *)

\* applyLoop takes the token, applyCommitted reads what there is to do.
Wake ==
    /\ next > limit /\ notified
    /\ notified' = FALSE
    /\ next' = lastApplied + 1
    /\ limit' = commitIndex
    /\ UNCHANGED <<raftVars, loop, callVars, lastApplied, inHand, applied,
                   failed, up, crashes>>

\* GetLog and fsm.Apply, without r.mu; a no-op is not given to the FSM.
ApplyEntry ==
    /\ next <= limit /\ inHand = Nothing
    /\ inHand' = log[next].cmd
    /\ applied' = IF log[next].cmd = NoOp THEN applied
                  ELSE Append(applied, [index |-> next, cmd |-> log[next].cmd])
    /\ failed' = failed \ {next}
    /\ UNCHANGED <<raftVars, loop, callVars, notified, lastApplied, next, limit,
                   up, crashes>>

\* GetLog fails: the loop goes on with the next entry.
SkipEntry ==
    /\ next <= limit /\ inHand = Nothing
    /\ failed' = failed \cup {next}
    /\ next' = next + 1
    /\ UNCHANGED <<raftVars, loop, callVars, notified, lastApplied, limit,
                   inHand, applied, up, crashes>>

\* What lastApplied becomes.
\* Mutant: it is left to the next round.
NotAdvanced == lastApplied

Advanced == next

\* The entry is recorded, and whoever waits for its index is answered.
RecordEntry ==
    LET calls == IF next \in DOMAIN pendingFutures THEN {pendingFutures[next]}
                                                   ELSE {}
    IN  /\ inHand # Nothing
        /\ lastApplied' = Advanced
        /\ next' = next + 1
        /\ inHand' = Nothing
        /\ future' = Respond(future, calls, "ok")
        /\ response' = [r \in Request |->
                          IF r \in calls /\ future[r] \in Open THEN inHand
                                                               ELSE response[r]]
        /\ pendingFutures' = [i \in DOMAIN pendingFutures \ {next} |->
                                 pendingFutures[i]]
        /\ UNCHANGED <<raftVars, loop, applyCh, notified, limit, applied, failed,
                       up, crashes>>

-----------------------------------------------------------------------------
(* The end of the process *)

\* Shutdown closes shutdownCh, drops the role and answers the futures.
Shutdown ==
    /\ up /\ up' = FALSE
    /\ state' = "Follower"
    /\ future' = Respond(future, Pending, "Shutdown")
    /\ pendingFutures' = <<>>
    /\ UNCHANGED <<currentTerm, log, commitIndex, chosen, led, loop, applyCh,
                   response, notified, applyVars, crashes>>

\* The process ends and starts again with the log and the term, and with a new
\* state machine, to which everything is applied from the start.
CrashAndRestart ==
    /\ crashes < MaxCrashes
    /\ crashes' = crashes + 1
    /\ up' = TRUE
    /\ state' = "Follower" /\ loop' = "other" /\ commitIndex' = 0
    /\ applyCh' = <<>> /\ pendingFutures' = <<>>
    /\ future' = Respond(future, Request, "dead")
    /\ notified' = FALSE
    /\ lastApplied' = 0 /\ next' = 1 /\ limit' = 0 /\ inHand' = Nothing
    /\ applied' = <<>> /\ failed' = {}
    /\ UNCHANGED <<currentTerm, log, chosen, led, response>>

-----------------------------------------------------------------------------
Next ==
    \/ \E r \in Request : Apply(r) \/ Send(r) \/ TimeoutCall(r)
    \/ BecomeLeader \/ WinAfterShutdown
    \/ HandleApplyRequest \/ LeaveLoop \/ FailPendingFutures
    \/ \E index \in DOMAIN log : Commit(index)
    \/ Depose
    \/ HandleRequestVote
    \/ \E term \in currentTerm..MaxTerm : \E keep \in Len(chosen)..Len(log) :
          \E new \in NewEntries(term) : \E index \in commitIndex..(keep + Len(new)) :
             /\ keep + Len(new) <= MaxLog
             /\ HandleAppendEntries(term, keep, new, index)
    \/ Wake \/ ApplyEntry \/ SkipEntry \/ RecordEntry
    \/ Shutdown \/ CrashAndRestart

Spec == Init /\ [][Next]_vars

-----------------------------------------------------------------------------
(* Properties *)

\* Every variable has its type, and applyCh holds no more than its capacity.
TypeOK ==
    /\ currentTerm \in Nat /\ led \in Nat /\ commitIndex \in Nat /\ lastApplied \in Nat
    /\ state \in {"Follower", "Leader"}
    /\ log \in Seq(Entry) /\ chosen \in Seq(Entry)
    /\ loop \in {"leader", "leaving", "other", "ended"}
    /\ applyCh \in Seq(Request) /\ Len(applyCh) <= QueueCap
    /\ DOMAIN pendingFutures \subseteq Nat /\ Pending \subseteq Request
    /\ future \in [Request -> FutureStates]
    /\ response \in [Request -> Command \cup {Nothing}]
    /\ next \in Nat /\ limit \in Nat /\ inHand \in Command \cup {Nothing}
    /\ notified \in BOOLEAN /\ up \in BOOLEAN /\ crashes \in Nat
    /\ applied \in Seq([index : Nat, cmd : Command])
    /\ failed \subseteq Nat

\* While the node leads, every pending future's index holds the future's own
\* command, in the node's own term: what a leader's apply loop answers is the
\* caller's own entry.  Futures of a lost leadership never meet the next one's
\* entries at the same index (raft.go:465, 479, 624).
PendingMatchesLog ==
    state = "Leader" => \A i \in DOMAIN pendingFutures :
        /\ i \in DOMAIN log
        /\ log[i] = [term |-> currentTerm, cmd |-> pendingFutures[i]]

\* "The client blocks on future.Error() until the entry is either committed
\* (returns nil) or fails" (future.go:5-6): success is the caller's own entry.
SuccessIsOwnEntry ==
    \A r \in Request : future[r] = "ok" => response[r] = r

\* The state machine is given committed entries only, in the order of the log,
\* each one at most once in a life of the process, although the apply loop reads
\* them without the lock while handlers rewrite the log.
AppliedInOrder ==
    /\ \A i \in DOMAIN applied :
          /\ applied[i].index \in DOMAIN chosen
          /\ applied[i].cmd = chosen[applied[i].index].cmd
    /\ \A i, j \in DOMAIN applied : i < j => applied[i].index < applied[j].index

\* No wake-up is lost: when the apply loop waits and no token is there, all
\* committed entries have been applied, but for those that could not be read.
NoLostWakeup ==
    next > limit /\ ~notified => (lastApplied + 1)..commitIndex \subseteq failed

-----------------------------------------------------------------------------
(* The inductive invariant behind the three safety properties *)

\* Futures exist between a win and failPendingFutures only; a node that leads is
\* in runLeader, unless it won after Shutdown.
RoleInv ==
    /\ state = "Leader" => loop = "leader" \/ (loop = "ended" /\ ~up)
    /\ loop \in {"other", "ended"} => DOMAIN pendingFutures = {}

\* What is committed is a prefix of the log, and the apply loop stays within.
CommitInv ==
    /\ Len(chosen) <= Len(log)
    /\ \A i \in DOMAIN chosen : log[i] = chosen[i]
    /\ commitIndex <= Len(chosen)
    /\ limit <= Len(chosen)

\* How far the state machine has got: to lastApplied, or to the entry in the
\* apply loop's hands.
ApplyInv ==
    /\ lastApplied < next
    /\ inHand = Nothing => \A i \in DOMAIN applied : applied[i].index <= lastApplied
    /\ inHand # Nothing => /\ next <= limit
                           /\ \A i \in DOMAIN applied : applied[i].index <= next

\* A round covers everything committed unless a token announces another one,
\* and has left nothing behind but what it could not read.
WakeInv ==
    /\ ~notified => commitIndex = limit
    /\ (lastApplied + 1)..(next - 1) \subseteq failed

PipelineInv == RoleInv /\ CommitInv /\ ApplyInv /\ WakeInv
                 /\ PendingMatchesLog /\ AppliedInOrder

=============================================================================
