----------------------------- MODULE ApplyProofs -----------------------------
(***************************************************************************)
(* The safety properties of the apply pipeline, for every number of calls, *)
(* every channel capacity and every bound.  One inductive invariant,       *)
(* PipelineInv, gives all three; each of its parts has a lemma that says   *)
(* which steps can disturb it.                                             *)
(***************************************************************************)
EXTENDS ApplyPipeline, TLAPS

\* What respond() leaves is again a state of every call.
LEMMA RespondType ==
    ASSUME TypeOK, NEW calls, NEW answer \in FutureStates
    PROVE  Respond(future, calls, answer) \in [Request -> FutureStates]
  BY DEF Respond, TypeOK

\* A fresh node has the types.
LEMMA TypeInit == Init => TypeOK
<1> SUFFICES ASSUME Init PROVE TypeOK
  OBVIOUS
<1>1. notified \in BOOLEAN /\ up \in BOOLEAN
  BY DEF Init
<1>2. future \in [Request -> FutureStates]
  BY DEF Init, FutureStates
<1>3. Pending \subseteq Request /\ DOMAIN pendingFutures \subseteq Nat
  BY DEF Init, Pending
<1>4. /\ log \in Seq(Entry) /\ chosen \in Seq(Entry)
      /\ applyCh \in Seq(Request) /\ Len(applyCh) <= QueueCap
      /\ applied \in Seq([index : Nat, cmd : Command])
  BY CapAssumption DEF Init
<1> QED BY <1>1, <1>2, <1>3, <1>4 DEF Init, TypeOK

\* Putting entries after the first keep of the log.
LEMMA Rewritten ==
    ASSUME TypeOK, CommitInv, NEW new \in Seq(Entry),
           NEW keep \in Len(chosen)..Len(log)
    PROVE  LET l == SubSeq(log, 1, keep) \o new
           IN  /\ l \in Seq(Entry)
               /\ Len(l) = keep + Len(new)
               /\ \A i \in DOMAIN chosen : l[i] = chosen[i]
<1> DEFINE l == SubSeq(log, 1, keep) \o new
           s == SubSeq(log, 1, keep)
<1>1. keep \in Nat /\ keep <= Len(log) /\ Len(chosen) <= keep /\ Len(chosen) \in Nat
  BY DEF TypeOK
<1>2. s \in Seq(Entry) /\ Len(s) = keep /\ \A i \in 1..keep : s[i] = log[i]
  BY <1>1 DEF TypeOK
<1>3. l = s \o new
  OBVIOUS
<1> HIDE DEF s
<1>4. l \in Seq(Entry) /\ Len(l) = keep + Len(new) /\ \A i \in 1..keep : l[i] = s[i]
  BY <1>1, <1>2, <1>3
<1>5. DOMAIN chosen = 1..Len(chosen)
  BY DEF TypeOK
<1>6. \A i \in DOMAIN chosen : l[i] = chosen[i]
  BY <1>1, <1>2, <1>4, <1>5 DEF CommitInv
<1> QED BY <1>4, <1>6

\* What a new leader may send is a sequence of entries.
LEMMA NewEntriesType ==
    ASSUME NEW term \in Nat, NEW new \in NewEntries(term)
    PROVE  new \in Seq(Entry)
<1> DEFINE a == [term |-> term, cmd |-> NoOp]
           b == [term |-> term, cmd |-> Other]
<1>1. a \in Entry /\ b \in Entry
  BY DEF Entry, Command
<1>2. new \in {<<>>, <<a>>, <<a, b>>}
  BY DEF NewEntries
<1> HIDE DEF a, b
<1>3. <<>> \in Seq(Entry) /\ <<a>> \in Seq(Entry) /\ <<a, b>> \in Seq(Entry)
  BY <1>1
<1> QED BY <1>2, <1>3

\* The apply loop's reads stay within the log because of the invariant.
LEMMA TypeStep == TypeOK /\ PipelineInv /\ [Next]_vars => TypeOK'
<1> SUFFICES ASSUME TypeOK, PipelineInv, [Next]_vars PROVE TypeOK'
  OBVIOUS
<1> USE CapAssumption
<1>1. ASSUME NEW r \in Request, Apply(r) \/ Send(r) \/ TimeoutCall(r)
      PROVE  TypeOK'
  <2>1. CASE Apply(r)
    BY <2>1 DEF Apply, TypeOK, raftVars, applyVars, FutureStates, Open, Errors,
                Pending
  <2>2. CASE Send(r)
    BY <2>2 DEF Send, HasRoom, TypeOK, raftVars, applyVars, FutureStates, Open,
                Errors, Pending
  <2>3. CASE TimeoutCall(r)
    <3>1. future' \in [Request -> FutureStates]
      BY <2>3, RespondType DEF TimeoutCall, FutureStates, Errors
    <3> QED BY <2>3, <3>1 DEF TimeoutCall, TypeOK, raftVars, applyVars, Pending
  <2> QED BY <1>1, <2>1, <2>2, <2>3
<1>18. CASE WinAfterShutdown
  BY <1>18 DEF WinAfterShutdown, TypeOK, callVars, applyVars, Pending
<1>2. CASE BecomeLeader
  <2>1. Append(log, [term |-> currentTerm + 1, cmd |-> NoOp]) \in Seq(Entry)
    BY DEF TypeOK, Entry, Command
  <2>2. log' \in Seq(Entry)
    BY <1>2, <2>1 DEF BecomeLeader, TypeOK
  <2> QED BY <1>2, <2>2 DEF BecomeLeader, TypeOK, callVars, applyVars, Pending
<1>3. CASE HandleApplyRequest
  <2> DEFINE r == Head(applyCh)
  <2>1. r \in Request /\ applyCh' \in Seq(Request) /\ Len(applyCh') <= QueueCap
    BY <1>3 DEF HandleApplyRequest, TypeOK
  <2> HIDE DEF r
  <2>2. CASE AppendCommand(r)
    <3>1. log' \in Seq(Entry)
      BY <2>1, <2>2 DEF AppendCommand, TypeOK, Entry, Command
    <3>2. DOMAIN pendingFutures' \subseteq Nat
      BY <2>2 DEF AppendCommand, TypeOK
    <3>3. Pending' \subseteq Request
      BY <2>1, <2>2 DEF AppendCommand, TypeOK, Pending
    <3> QED BY <1>3, <2>1, <2>2, <3>1, <3>2, <3>3 DEF HandleApplyRequest,
            AppendCommand, TypeOK, applyVars
  <2>3. CASE AppendFails(r)
    <3>1. future' \in [Request -> FutureStates]
      BY <2>3, RespondType DEF AppendFails, FutureStates, Errors
    <3> QED BY <1>3, <2>1, <2>3, <3>1 DEF HandleApplyRequest, AppendFails,
            TypeOK, applyVars, Pending
  <2>4. CASE RefuseCommand(r)
    <3>1. future' \in [Request -> FutureStates]
      BY <2>4, RespondType DEF RefuseCommand, FutureStates, Errors
    <3> QED BY <1>3, <2>1, <2>4, <3>1 DEF HandleApplyRequest, RefuseCommand,
            TypeOK, applyVars, Pending
  <2> QED BY <1>3, <2>2, <2>3, <2>4 DEF HandleApplyRequest, r
<1>4. CASE LeaveLoop
  BY <1>4 DEF LeaveLoop, TypeOK, raftVars, callVars, applyVars, Pending
<1>5. CASE FailPendingFutures
  <2>1. future' \in [Request -> FutureStates]
    BY <1>5, RespondType DEF FailPendingFutures, FutureStates, Errors
  <2> QED BY <1>5, <2>1 DEF FailPendingFutures, NoFutures, TypeOK, raftVars,
          applyVars, Pending
<1>6. ASSUME NEW index \in DOMAIN log, Commit(index) PROVE TypeOK'
  BY <1>6 DEF Commit, Learn, Notify, TypeOK, callVars, applyVars, Pending
<1>7. CASE Depose
  BY <1>7 DEF Depose, TypeOK, callVars, applyVars, Pending
<1>8. CASE HandleRequestVote
  BY <1>8 DEF HandleRequestVote, TypeOK, callVars, applyVars, Pending
<1>9. ASSUME NEW term \in currentTerm..MaxTerm, NEW keep \in Len(chosen)..Len(log),
             NEW new \in NewEntries(term),
             NEW index \in commitIndex..(keep + Len(new)),
             HandleAppendEntries(term, keep, new, index)
      PROVE  TypeOK'
  <2> DEFINE l == IF new = <<>> THEN log ELSE SubSeq(log, 1, keep) \o new
  <2>1. term \in Nat /\ keep \in Nat /\ keep <= Len(log)
    BY DEF TypeOK
  <2>2. new \in Seq(Entry)
    BY <2>1, NewEntriesType
  <2>3. l \in Seq(Entry) /\ Len(l) >= keep + Len(new)
    <3>1. CASE new = <<>>
      BY <2>1, <3>1 DEF TypeOK
    <3>2. CASE new # <<>>
      BY <2>1, <2>2, <3>2, Rewritten DEF PipelineInv
    <3> QED BY <3>1, <3>2
  <2> HIDE DEF l
  <2>4. index \in Nat /\ index <= Len(l)
    BY <2>1, <2>2, <2>3 DEF TypeOK
  <2>5. log' = l /\ (IF index > commitIndex THEN Learn(l, index)
                     ELSE UNCHANGED <<commitIndex, notified, chosen>>)
    BY <1>9 DEF HandleAppendEntries, l
  <2>6. chosen' \in Seq(Entry) /\ commitIndex' \in Nat /\ notified' \in BOOLEAN
    <3>1. CASE index > commitIndex
      <4>1. notified' \in BOOLEAN /\ commitIndex' \in Nat
        BY <2>5, <2>4, <3>1 DEF Learn, Notify
      <4>2. SubSeq(l, 1, index) \in Seq(Entry)
        BY <2>3, <2>4
      <4>3. chosen' \in Seq(Entry)
        BY <2>5, <3>1, <4>2 DEF Learn, TypeOK
      <4> QED BY <4>1, <4>3
    <3>2. CASE ~(index > commitIndex)
      BY <2>5, <3>2 DEF TypeOK
    <3> QED BY <3>1, <3>2
  <2> QED BY <1>9, <2>1, <2>3, <2>5, <2>6 DEF HandleAppendEntries, TypeOK,
          callVars, applyVars, Pending
<1>10. CASE Wake
  <2>1. notified' \in BOOLEAN
    BY <1>10 DEF Wake
  <2> QED BY <1>10, <2>1 DEF Wake, TypeOK, raftVars, callVars, Pending
<1>11. next <= limit => next \in DOMAIN log /\ log[next].cmd \in Command
  <2> SUFFICES ASSUME next <= limit PROVE next \in DOMAIN log /\ log[next].cmd \in Command
    OBVIOUS
  <2>1. next \in DOMAIN log
    BY DEF PipelineInv, CommitInv, ApplyInv, TypeOK
  <2>2. log[next] \in Entry
    BY <2>1 DEF TypeOK
  <2> QED BY <2>1, <2>2 DEF Entry
<1>12. CASE ApplyEntry
  <2>1. applied' \in Seq([index : Nat, cmd : Command])
    <3> DEFINE e == [index |-> next, cmd |-> log[next].cmd]
    <3>1. e \in [index : Nat, cmd : Command]
      BY <1>11, <1>12 DEF ApplyEntry, TypeOK
    <3>2. applied' = applied \/ applied' = Append(applied, e)
      BY <1>12 DEF ApplyEntry
    <3> DEFINE S == [index : Nat, cmd : Command]
    <3>3. applied \in Seq(S) /\ e \in S
      BY <3>1 DEF TypeOK
    <3> HIDE DEF e, S
    <3>4. applied' \in Seq(S)
      BY <3>2, <3>3
    <3> QED BY <3>4 DEF S
  <2> QED BY <1>11, <1>12, <2>1 DEF ApplyEntry, TypeOK, raftVars, callVars, Pending
<1>13. CASE SkipEntry
  BY <1>13 DEF SkipEntry, TypeOK, raftVars, callVars, Pending
<1>14. CASE RecordEntry
  <2>1. response' \in [Request -> Command \cup {Nothing}]
    BY <1>14 DEF RecordEntry, TypeOK
  <2>2. future' \in [Request -> FutureStates]
    BY <1>14, RespondType DEF RecordEntry, FutureStates
  <2>3. DOMAIN pendingFutures' \subseteq Nat /\ Pending' \subseteq Request
    BY <1>14 DEF RecordEntry, TypeOK, Pending
  <2>4. lastApplied' \in Nat /\ next' \in Nat /\ inHand' = Nothing
    BY <1>14 DEF RecordEntry, Advanced, TypeOK
  <2>5. UNCHANGED <<raftVars, loop, applyCh, notified, limit, applied, failed,
                    up, crashes>>
    BY <1>14 DEF RecordEntry
  <2> QED BY <2>1, <2>2, <2>3, <2>4, <2>5 DEF TypeOK, raftVars
<1>15. CASE Shutdown
  <2>1. future' \in [Request -> FutureStates]
    BY <1>15, RespondType DEF Shutdown, FutureStates, Errors
  <2>2. DOMAIN pendingFutures' \subseteq Nat /\ Pending' \subseteq Request
    BY <1>15 DEF Shutdown, Pending
  <2> QED BY <1>15, <2>1, <2>2 DEF Shutdown, TypeOK, applyVars
<1>16. CASE CrashAndRestart
  <2>1. future' \in [Request -> FutureStates]
    BY <1>16, RespondType DEF CrashAndRestart, FutureStates
  <2>2. DOMAIN pendingFutures' \subseteq Nat /\ Pending' \subseteq Request
    BY <1>16 DEF CrashAndRestart, Pending
  <2>3. notified' \in BOOLEAN /\ up' \in BOOLEAN
    BY <1>16 DEF CrashAndRestart
  <2> QED BY <1>16, <2>1, <2>2, <2>3 DEF CrashAndRestart, TypeOK
<1>17. CASE UNCHANGED vars
  BY <1>17 DEF vars, TypeOK, Pending
<1> QED BY <1>1, <1>2, <1>3, <1>4, <1>5, <1>6, <1>7, <1>8, <1>9, <1>10, <1>12,
        <1>13, <1>14, <1>15, <1>16, <1>17, <1>18 DEF Next
-----------------------------------------------------------------------------
(* The parts of the invariant *)

\* Only a win makes a leader, and it does so from outside runLeader; futures are
\* filed inside and dropped on the way out.  A node that wins too late stays out.
LEMMA RoleStep == TypeOK /\ RoleInv /\ [Next]_vars => RoleInv'
<1> SUFFICES ASSUME TypeOK, RoleInv, [Next]_vars PROVE RoleInv'
  OBVIOUS
<1> USE DEF RoleInv
<1>1. ASSUME NEW r \in Request, Apply(r) \/ Send(r) \/ TimeoutCall(r)
      PROVE  RoleInv'
  BY <1>1 DEF Apply, Send, TimeoutCall, raftVars
<1>2. CASE BecomeLeader \/ LeaveLoop \/ FailPendingFutures
  BY <1>2 DEF BecomeLeader, LeaveLoop, FailPendingFutures, NoFutures, raftVars,
              callVars
<1>11. CASE WinAfterShutdown
  <2>1. up' = up /\ ~up /\ loop' = "ended" /\ DOMAIN pendingFutures' = {}
    BY <1>11 DEF WinAfterShutdown, callVars
  <2> QED BY <2>1
<1>3. CASE HandleApplyRequest
  BY <1>3 DEF HandleApplyRequest, AppendCommand, AppendFails, RefuseCommand
<1>4. ASSUME NEW index \in DOMAIN log, Commit(index) PROVE RoleInv'
  BY <1>4 DEF Commit, callVars
<1>5. CASE Depose \/ HandleRequestVote
  BY <1>5 DEF Depose, HandleRequestVote, callVars
<1>6. ASSUME NEW term, NEW keep, NEW new, NEW index,
             HandleAppendEntries(term, keep, new, index)
      PROVE  RoleInv'
  BY <1>6 DEF HandleAppendEntries, callVars
<1>7. CASE Wake \/ ApplyEntry \/ SkipEntry
  BY <1>7 DEF Wake, ApplyEntry, SkipEntry, raftVars, callVars
<1>8. CASE RecordEntry
  BY <1>8 DEF RecordEntry, raftVars
<1>9. CASE Shutdown \/ CrashAndRestart
  BY <1>9 DEF Shutdown, CrashAndRestart
<1>10. CASE UNCHANGED vars
  BY <1>10 DEF vars
<1> QED BY <1>1, <1>2, <1>3, <1>4, <1>5, <1>6, <1>7, <1>8, <1>9, <1>10,
        <1>11 DEF Next

\* Learning a commit index of log l, which has what is committed in front.
LEMMA LearnCommits ==
    ASSUME TypeOK, CommitInv, NEW l \in Seq(Entry), NEW index \in Nat,
           index <= Len(l), Len(chosen) <= Len(l),
           \A i \in DOMAIN chosen : l[i] = chosen[i],
           log' = l, limit' = limit,
           Learn(l, index) \/ UNCHANGED <<commitIndex, chosen>>
    PROVE  /\ CommitInv'
           /\ Len(chosen) <= Len(chosen')
           /\ \A i \in DOMAIN chosen : chosen'[i] = chosen[i]
<1>1. CASE UNCHANGED <<commitIndex, chosen>> \/ index <= Len(chosen)
  BY <1>1 DEF CommitInv, Learn, TypeOK
<1>2. CASE Learn(l, index) /\ index > Len(chosen)
  <2>1. chosen' = SubSeq(l, 1, index) /\ commitIndex' = index
    BY <1>2 DEF Learn
  <2>2. Len(chosen') = index /\ DOMAIN chosen' = 1..index
    BY <2>1 DEF TypeOK
  <2>3. \A i \in 1..index : chosen'[i] = l[i]
    BY <2>1 DEF TypeOK
  <2>4. DOMAIN chosen = 1..Len(chosen) /\ Len(chosen) \in Nat
    BY DEF TypeOK
  <2>5. DOMAIN chosen \subseteq 1..index /\ Len(chosen) <= index
    BY <1>2, <2>4
  <2> QED BY <2>1, <2>2, <2>3, <2>4, <2>5 DEF CommitInv, TypeOK
<1> QED BY <1>1, <1>2 DEF TypeOK

\* Committed entries stay in front of the log, and stay committed.
LEMMA CommitStep ==
    ASSUME TypeOK, CommitInv, [Next]_vars
    PROVE  /\ CommitInv'
           /\ Len(chosen) <= Len(chosen')
           /\ \A i \in DOMAIN chosen : chosen'[i] = chosen[i]
<1> DEFINE Goal == /\ CommitInv'
                   /\ Len(chosen) <= Len(chosen')
                   /\ \A i \in DOMAIN chosen : chosen'[i] = chosen[i]
<1>1. ASSUME UNCHANGED <<log, commitIndex, chosen, limit>> PROVE Goal
  BY <1>1 DEF CommitInv, TypeOK
<1>2. ASSUME NEW e \in Entry, log' \in {log, Append(log, e)},
             UNCHANGED <<commitIndex, chosen, limit>>
      PROVE  Goal
  <2>1. CASE log' = log
    BY <1>1, <1>2, <2>1
  <2>2. CASE log' = Append(log, e)
    <3>1. Append(log, e) \in Seq(Entry) /\ Len(Append(log, e)) = Len(log) + 1
      BY <1>2 DEF TypeOK
    <3>2. \A i \in DOMAIN log : Append(log, e)[i] = log[i]
      BY <1>2 DEF TypeOK
    <3>3. DOMAIN chosen \subseteq DOMAIN log
      BY DEF CommitInv, TypeOK
    <3> QED BY <1>2, <2>2, <3>1, <3>2, <3>3 DEF CommitInv, TypeOK
  <2> QED BY <1>2, <2>1, <2>2
<1>3. ASSUME NEW r \in Request, Apply(r) \/ Send(r) \/ TimeoutCall(r)
      PROVE  Goal
  BY <1>1, <1>3 DEF Apply, Send, TimeoutCall, raftVars, applyVars
<1>4. CASE BecomeLeader
  <2>1. [term |-> currentTerm + 1, cmd |-> NoOp] \in Entry
    BY DEF TypeOK, Entry, Command
  <2> QED BY <1>2, <1>4, <2>1 DEF BecomeLeader, applyVars
<1>5. CASE HandleApplyRequest
  <2> DEFINE r == Head(applyCh)
  <2>1. [term |-> currentTerm, cmd |-> r] \in Entry
    BY <1>5 DEF HandleApplyRequest, TypeOK, Entry, Command
  <2>2. CASE AppendCommand(r)
    BY <1>2, <1>5, <2>1, <2>2 DEF HandleApplyRequest, AppendCommand, applyVars
  <2>3. CASE AppendFails(r) \/ RefuseCommand(r)
    BY <1>1, <1>5, <2>3 DEF HandleApplyRequest, AppendFails, RefuseCommand, applyVars
  <2> QED BY <1>5, <2>2, <2>3 DEF HandleApplyRequest
<1>6. CASE \/ WinAfterShutdown \/ LeaveLoop \/ FailPendingFutures
           \/ Depose \/ HandleRequestVote
  BY <1>1, <1>6 DEF WinAfterShutdown, LeaveLoop, FailPendingFutures, Depose,
                    HandleRequestVote, raftVars, applyVars
<1>7. ASSUME NEW index \in DOMAIN log, Commit(index) PROVE Goal
  <2>1. log \in Seq(Entry) /\ index \in Nat /\ index <= Len(log)
    BY DEF TypeOK
  <2> QED BY <1>7, <2>1, LearnCommits DEF Commit, applyVars, CommitInv
<1>8. ASSUME NEW term \in currentTerm..MaxTerm, NEW keep \in Len(chosen)..Len(log),
             NEW new \in NewEntries(term),
             NEW index \in commitIndex..(keep + Len(new)),
             HandleAppendEntries(term, keep, new, index)
      PROVE  Goal
  <2> DEFINE l == IF new = <<>> THEN log ELSE SubSeq(log, 1, keep) \o new
  <2>1. term \in Nat
    BY CapAssumption DEF TypeOK
  <2>2. new \in Seq(Entry)
    BY <2>1, NewEntriesType
  <2>3. keep \in Nat /\ Len(chosen) \in Nat /\ Len(new) \in Nat /\ Len(log) \in Nat
    BY <2>2 DEF TypeOK
  <2>4. l \in Seq(Entry) /\ Len(l) >= keep + Len(new) /\ \A i \in DOMAIN chosen : l[i] = chosen[i]
    <3>1. CASE new = <<>>
      BY <2>3, <3>1 DEF CommitInv, TypeOK
    <3>2. CASE new # <<>>
      BY <2>2, <2>3, <3>2, Rewritten
    <3> QED BY <3>1, <3>2
  <2>5. log' = l /\ (Learn(l, index) \/ UNCHANGED <<commitIndex, chosen>>) /\ limit' = limit
    BY <1>8 DEF HandleAppendEntries, applyVars
  <2> HIDE DEF l
  <2>6. index \in Nat /\ index <= Len(l) /\ Len(chosen) <= Len(l)
    BY <2>3, <2>4 DEF TypeOK
  <2> QED BY <2>4, <2>5, <2>6, LearnCommits
<1>9. CASE Wake
  BY <1>9 DEF Wake, raftVars, CommitInv, TypeOK
<1>10. CASE ApplyEntry \/ SkipEntry \/ RecordEntry \/ Shutdown
  BY <1>1, <1>10 DEF ApplyEntry, SkipEntry, RecordEntry, Shutdown, raftVars, applyVars
<1>11. CASE CrashAndRestart
  BY <1>11 DEF CrashAndRestart, CommitInv, TypeOK
<1>12. CASE UNCHANGED vars
  BY <1>1, <1>12 DEF vars
<1> QED BY <1>3, <1>4, <1>5, <1>6, <1>7, <1>8, <1>9, <1>10, <1>11, <1>12 DEF Next

\* What the state machine was given has an index.
LEMMA AppliedIndex == TypeOK => \A i \in DOMAIN applied : applied[i].index \in Nat
<1> DEFINE S == [index : Nat, cmd : Command]
<1> SUFFICES ASSUME TypeOK, NEW i \in DOMAIN applied PROVE applied[i].index \in Nat
  OBVIOUS
<1>1. applied \in Seq(S)
  BY DEF TypeOK
<1>2. \A s \in S : s.index \in Nat
  OBVIOUS
<1> HIDE DEF S
<1>3. applied[i] \in S
  BY <1>1
<1> QED BY <1>2, <1>3

\* The apply loop moves forward one entry at a time.
LEMMA ApplyStep ==
    ASSUME TypeOK, CommitInv, ApplyInv, [Next]_vars
    PROVE  ApplyInv'
<1>1. ASSUME UNCHANGED applyVars PROVE ApplyInv'
  BY <1>1 DEF applyVars, ApplyInv
<1>2. ASSUME NEW r \in Request, Apply(r) \/ Send(r) \/ TimeoutCall(r)
      PROVE  ApplyInv'
  BY <1>1, <1>2 DEF Apply, Send, TimeoutCall
<1>3. CASE \/ BecomeLeader \/ WinAfterShutdown \/ HandleApplyRequest \/ LeaveLoop
           \/ FailPendingFutures \/ Depose \/ HandleRequestVote
  BY <1>1, <1>3 DEF BecomeLeader, WinAfterShutdown, HandleApplyRequest, LeaveLoop,
     FailPendingFutures, Depose, HandleRequestVote
<1>4. ASSUME NEW index \in DOMAIN log, Commit(index) PROVE ApplyInv'
  BY <1>1, <1>4 DEF Commit
<1>5. ASSUME NEW term, NEW keep, NEW new, NEW index,
             HandleAppendEntries(term, keep, new, index)
      PROVE  ApplyInv'
  BY <1>1, <1>5 DEF HandleAppendEntries
<1>6. CASE Wake
  BY <1>6 DEF Wake, ApplyInv, TypeOK
<1>7. CASE ApplyEntry
  <2> DEFINE e == [index |-> next, cmd |-> log[next].cmd]
  <2>1. applied' = applied \/ applied' = Append(applied, e)
    BY <1>7 DEF ApplyEntry
  <2>2. UNCHANGED <<lastApplied, next, limit>> /\ inHand = Nothing /\ next <= limit
    BY <1>7 DEF ApplyEntry
  <2>3. lastApplied < next /\ \A i \in DOMAIN applied : applied[i].index <= lastApplied
    BY <2>2 DEF ApplyInv
  <2>4. \A i \in DOMAIN applied : applied[i].index \in Nat
    BY AppliedIndex
  <2>5. \A i \in DOMAIN applied : applied[i].index <= next
    BY <2>3, <2>4 DEF TypeOK
  <2>6. inHand' # Nothing
    <3>1. next \in DOMAIN log
      BY <2>2 DEF CommitInv, ApplyInv, TypeOK
    <3>2. log[next] \in Entry
      BY <3>1 DEF TypeOK
    <3> QED BY <1>7, <3>2, CommandAssumption DEF ApplyEntry, Entry, Command
  <2>7. \A i \in DOMAIN applied' : applied'[i].index <= next
    <3>1. e.index = next
      OBVIOUS
    <3>2. applied \in Seq([index : Nat, cmd : Command])
      BY DEF TypeOK
    <3> HIDE DEF e
    <3>3. CASE applied' = Append(applied, e)
      <4>1. DOMAIN applied = 1..Len(applied) /\ DOMAIN applied' = 1..(Len(applied) + 1)
        BY <3>2, <3>3
      <4>2. applied'[Len(applied) + 1] = e
            /\ \A i \in 1..Len(applied) : applied'[i] = applied[i]
        BY <3>2, <3>3
      <4>3. ASSUME NEW i \in DOMAIN applied' PROVE applied'[i].index <= next
        <5>1. CASE i = Len(applied) + 1
          BY <3>1, <4>2, <5>1 DEF TypeOK
        <5>2. CASE i \in 1..Len(applied)
          BY <2>5, <4>1, <4>2, <5>2
        <5> QED BY <3>2, <4>1, <5>1, <5>2
      <4> QED BY <4>3
    <3> QED BY <2>1, <2>5, <3>3
  <2> QED BY <2>2, <2>3, <2>6, <2>7 DEF ApplyInv
<1>8. CASE SkipEntry
  BY <1>8 DEF SkipEntry, ApplyInv, TypeOK
<1>9. CASE RecordEntry
  BY <1>9 DEF RecordEntry, Advanced, ApplyInv, TypeOK
<1>10. CASE Shutdown
  BY <1>1, <1>10 DEF Shutdown
<1>11. CASE CrashAndRestart
  BY <1>11 DEF CrashAndRestart, ApplyInv
<1>12. CASE UNCHANGED vars
  BY <1>1, <1>12 DEF vars, applyVars
<1> QED BY <1>2, <1>3, <1>4, <1>5, <1>6, <1>7, <1>8, <1>9, <1>10, <1>11, <1>12 DEF Next

\* Whoever raises commitIndex leaves a token, and the apply loop reads
\* commitIndex after it took the token.
LEMMA WakeStep ==
    ASSUME TypeOK, ApplyInv, WakeInv, [Next]_vars
    PROVE  WakeInv'
<1>1. ASSUME UNCHANGED applyVars,
             notified' = TRUE \/ UNCHANGED <<commitIndex, notified>>
      PROVE  WakeInv'
  BY <1>1 DEF applyVars, WakeInv
<1>2. ASSUME NEW r \in Request, Apply(r) \/ Send(r) \/ TimeoutCall(r)
      PROVE  WakeInv'
  BY <1>1, <1>2 DEF Apply, Send, TimeoutCall, raftVars
<1>3. CASE \/ BecomeLeader \/ WinAfterShutdown \/ HandleApplyRequest \/ LeaveLoop
           \/ FailPendingFutures \/ Depose \/ HandleRequestVote
  BY <1>1, <1>3 DEF BecomeLeader, WinAfterShutdown, HandleApplyRequest, LeaveLoop,
     FailPendingFutures, Depose, HandleRequestVote, raftVars
<1>4. ASSUME NEW index \in DOMAIN log, Commit(index) PROVE WakeInv'
  BY <1>1, <1>4 DEF Commit, Learn, Notify
<1>5. ASSUME NEW term, NEW keep, NEW new, NEW index,
             HandleAppendEntries(term, keep, new, index)
      PROVE  WakeInv'
  BY <1>1, <1>5 DEF HandleAppendEntries, Learn, Notify
<1>6. CASE Wake
  BY <1>6 DEF Wake, raftVars, WakeInv, TypeOK
<1>7. CASE ApplyEntry
  BY <1>7 DEF ApplyEntry, raftVars, WakeInv, TypeOK
<1>8. CASE SkipEntry
  <2>1. (lastApplied + 1)..(next' - 1) \subseteq ((lastApplied + 1)..(next - 1)) \cup {next}
    BY <1>8 DEF SkipEntry, TypeOK
  <2> QED BY <1>8, <2>1 DEF SkipEntry, raftVars, WakeInv
<1>9. CASE RecordEntry
  BY <1>9 DEF RecordEntry, Advanced, raftVars, WakeInv, TypeOK
<1>10. CASE Shutdown
  BY <1>1, <1>10 DEF Shutdown
<1>11. CASE CrashAndRestart
  BY <1>11 DEF CrashAndRestart, WakeInv
<1>12. CASE UNCHANGED vars
  BY <1>1, <1>12 DEF vars, applyVars
<1> QED BY <1>2, <1>3, <1>4, <1>5, <1>6, <1>7, <1>8, <1>9, <1>10, <1>11, <1>12 DEF Next

\* A win finds no futures; a leader's log only grows, and a future is filed with
\* its own entry.
LEMMA PendingStep ==
    ASSUME TypeOK, RoleInv, PendingMatchesLog, [Next]_vars
    PROVE  PendingMatchesLog'
<1>1. ASSUME UNCHANGED <<currentTerm, state, log, pendingFutures>>
      PROVE  PendingMatchesLog'
  BY <1>1 DEF PendingMatchesLog
<1>2. ASSUME state' # "Leader" PROVE PendingMatchesLog'
  BY <1>2 DEF PendingMatchesLog
<1>3. ASSUME NEW r \in Request, Apply(r) \/ Send(r) \/ TimeoutCall(r)
      PROVE  PendingMatchesLog'
  BY <1>1, <1>3 DEF Apply, Send, TimeoutCall, raftVars
<1>4. CASE BecomeLeader
  <2>1. DOMAIN pendingFutures' = {}
    BY <1>4 DEF BecomeLeader, callVars, RoleInv
  <2> QED BY <2>1 DEF PendingMatchesLog
<1>14. CASE WinAfterShutdown
  <2>1. DOMAIN pendingFutures' = {}
    BY <1>14 DEF WinAfterShutdown, callVars, RoleInv
  <2> QED BY <2>1 DEF PendingMatchesLog
<1>5. CASE HandleApplyRequest
  <2> DEFINE r == Head(applyCh)
             e == [term |-> currentTerm, cmd |-> r]
             n == Len(log) + 1
  <2>1. UNCHANGED <<currentTerm, state>>
    BY <1>5 DEF HandleApplyRequest
  <2>2. CASE AppendCommand(r)
    <3>1. e \in Entry
      BY <1>5 DEF HandleApplyRequest, TypeOK, Entry, Command
    <3>2. log' = Append(log, e) /\ state = "Leader"
      BY <2>2 DEF AppendCommand
    <3>3. /\ DOMAIN pendingFutures' = DOMAIN pendingFutures \cup {n}
          /\ pendingFutures'[n] = r
          /\ \A i \in DOMAIN pendingFutures \ {n} : pendingFutures'[i] = pendingFutures[i]
      BY <2>2 DEF AppendCommand
    <3>4. e.term = currentTerm /\ e.cmd = r
      OBVIOUS
    <3>5. DOMAIN log' = DOMAIN log \cup {n} /\ log'[n] = e
          /\ \A i \in DOMAIN log : log'[i] = log[i] /\ i # n
      <4> HIDE DEF e
      <4> QED BY <3>1, <3>2 DEF TypeOK
    <3>6. \A i \in DOMAIN pendingFutures :
             i \in DOMAIN log /\ log[i] = [term |-> currentTerm, cmd |-> pendingFutures[i]]
      BY <3>2 DEF PendingMatchesLog
    <3> HIDE DEF n, r
    <3>7. ASSUME NEW i \in DOMAIN pendingFutures'
          PROVE  i \in DOMAIN log' /\ log'[i] = [term |-> currentTerm, cmd |-> pendingFutures'[i]]
      <4>1. CASE i = n
        BY <3>3, <3>5, <4>1
      <4>2. CASE i # n
        BY <3>3, <3>5, <3>6, <4>2
      <4> QED BY <4>1, <4>2
    <3> QED BY <2>1, <3>7 DEF PendingMatchesLog
  <2>3. CASE AppendFails(r) \/ RefuseCommand(r)
    BY <1>1, <1>5, <2>3 DEF HandleApplyRequest, AppendFails, RefuseCommand
  <2> QED BY <1>5, <2>2, <2>3 DEF HandleApplyRequest
<1>6. CASE LeaveLoop
  BY <1>1, <1>6 DEF LeaveLoop, raftVars, callVars
<1>7. CASE FailPendingFutures
  <2>1. DOMAIN pendingFutures' = {}
    BY <1>7 DEF FailPendingFutures, NoFutures
  <2> QED BY <2>1 DEF PendingMatchesLog
<1>8. ASSUME NEW index \in DOMAIN log, Commit(index) PROVE PendingMatchesLog'
  BY <1>1, <1>8 DEF Commit, callVars
<1>9. CASE Depose \/ HandleRequestVote \/ Shutdown \/ CrashAndRestart
  BY <1>2, <1>9 DEF Depose, HandleRequestVote, Shutdown, CrashAndRestart
<1>10. ASSUME NEW term, NEW keep, NEW new, NEW index,
              HandleAppendEntries(term, keep, new, index)
       PROVE  PendingMatchesLog'
  BY <1>2, <1>10 DEF HandleAppendEntries
<1>11. CASE Wake \/ ApplyEntry \/ SkipEntry
  BY <1>1, <1>11 DEF Wake, ApplyEntry, SkipEntry, raftVars, callVars
<1>12. CASE RecordEntry
  BY <1>12 DEF RecordEntry, raftVars, PendingMatchesLog
<1>13. CASE UNCHANGED vars
  BY <1>1, <1>13 DEF vars
<1> QED BY <1>3, <1>4, <1>5, <1>6, <1>7, <1>8, <1>9, <1>10, <1>11, <1>12, <1>13,
        <1>14 DEF Next

\* The entry that the apply loop reads is committed, and comes after all that
\* it has applied.
LEMMA OrderStep ==
    ASSUME TypeOK, TypeOK', CommitInv, ApplyInv, AppliedInOrder, [Next]_vars
    PROVE  AppliedInOrder'
<1>1. \A i \in DOMAIN chosen : i \in DOMAIN chosen' /\ chosen'[i] = chosen[i]
  <2>1. Len(chosen) <= Len(chosen') /\ \A i \in DOMAIN chosen : chosen'[i] = chosen[i]
    BY CommitStep
  <2>2. DOMAIN chosen = 1..Len(chosen) /\ DOMAIN chosen' = 1..Len(chosen')
        /\ Len(chosen) \in Nat /\ Len(chosen') \in Nat
    BY DEF TypeOK
  <2> QED BY <2>1, <2>2
<1>2. ASSUME applied' = applied PROVE AppliedInOrder'
  BY <1>1, <1>2 DEF AppliedInOrder
<1>3. ASSUME NEW r \in Request, Apply(r) \/ Send(r) \/ TimeoutCall(r)
      PROVE  applied' = applied
  BY <1>3 DEF Apply, Send, TimeoutCall, applyVars
<1>4. CASE \/ BecomeLeader \/ WinAfterShutdown \/ HandleApplyRequest \/ LeaveLoop
           \/ FailPendingFutures \/ Depose \/ HandleRequestVote
           \/ Wake \/ SkipEntry \/ RecordEntry \/ Shutdown \/ UNCHANGED vars
  BY <1>2, <1>4 DEF BecomeLeader, WinAfterShutdown, HandleApplyRequest, LeaveLoop, vars,
     FailPendingFutures, Depose, HandleRequestVote, Wake, SkipEntry,
     RecordEntry, Shutdown, applyVars
<1>5. ASSUME NEW index \in DOMAIN log, Commit(index) PROVE applied' = applied
  BY <1>5 DEF Commit, applyVars
<1>6. ASSUME NEW term, NEW keep, NEW new, NEW index,
             HandleAppendEntries(term, keep, new, index)
      PROVE  applied' = applied
  BY <1>6 DEF HandleAppendEntries, applyVars
<1>7. CASE ApplyEntry
  <2> DEFINE e == [index |-> next, cmd |-> log[next].cmd]
             S == [index : Nat, cmd : Command]
  <2>1. applied' = applied \/ applied' = Append(applied, e)
    BY <1>7 DEF ApplyEntry
  <2>2. inHand = Nothing /\ next <= limit
    BY <1>7 DEF ApplyEntry
  <2>3. next \in DOMAIN chosen /\ log[next] = chosen[next]
    <3>1. next \in Nat /\ lastApplied \in Nat /\ lastApplied < next /\ limit \in Nat
      BY DEF ApplyInv, TypeOK
    <3>2. limit <= Len(chosen) /\ chosen \in Seq(Entry)
      BY DEF CommitInv, TypeOK
    <3>3. next \in DOMAIN chosen
      BY <2>2, <3>1, <3>2
    <3> QED BY <3>3 DEF CommitInv
  <2>4. e.index = next /\ e.cmd = chosen[next].cmd
    BY <2>3
  <2>5. \A i \in DOMAIN applied : applied[i].index < next
    <3>1. \A i \in DOMAIN applied : applied[i].index <= lastApplied
      BY <2>2 DEF ApplyInv
    <3>2. \A i \in DOMAIN applied : applied[i].index \in Nat
      BY AppliedIndex
    <3>3. next \in Nat /\ lastApplied \in Nat /\ lastApplied < next
      BY DEF ApplyInv, TypeOK
    <3> QED BY <3>1, <3>2, <3>3
  <2>6. applied \in Seq(S)
    BY DEF TypeOK
  <2> HIDE DEF e, S
  <2>7. CASE applied' = Append(applied, e)
    <3> DEFINE n == Len(applied)
    <3>1. n \in Nat /\ DOMAIN applied = 1..n /\ DOMAIN applied' = 1..(n + 1)
      BY <2>6, <2>7
    <3>2. applied'[n + 1] = e /\ \A i \in 1..n : applied'[i] = applied[i]
      BY <2>6, <2>7
    <3> HIDE DEF n
    <3>3. ASSUME NEW i \in DOMAIN applied'
          PROVE  /\ applied'[i].index \in DOMAIN chosen'
                 /\ applied'[i].cmd = chosen'[applied'[i].index].cmd
      <4>1. CASE i = n + 1
        BY <1>1, <2>3, <2>4, <3>2, <4>1
      <4>2. CASE i \in 1..n
        BY <1>1, <3>1, <3>2, <4>2 DEF AppliedInOrder
      <4> QED BY <3>1, <4>1, <4>2
    <3>4. ASSUME NEW i \in DOMAIN applied', NEW j \in DOMAIN applied', i < j
          PROVE  applied'[i].index < applied'[j].index
      <4>1. i \in 1..n
        BY <3>1, <3>4
      <4>2. CASE j = n + 1
        BY <2>4, <2>5, <3>1, <3>2, <4>1, <4>2
      <4>3. CASE j \in 1..n
        BY <3>1, <3>2, <3>4, <4>1, <4>3 DEF AppliedInOrder
      <4> QED BY <3>1, <4>2, <4>3
    <3> QED BY <3>3, <3>4 DEF AppliedInOrder
  <2> QED BY <1>2, <2>1, <2>7
<1>8. CASE CrashAndRestart
  BY <1>8 DEF CrashAndRestart, AppliedInOrder
<1> QED BY <1>2, <1>3, <1>4, <1>5, <1>6, <1>7, <1>8 DEF Next

-----------------------------------------------------------------------------
(* The theorems *)

\* A fresh node has nothing pending, committed or applied.
LEMMA PipelineInit == Init => PipelineInv
<1> SUFFICES ASSUME Init PROVE PipelineInv
  OBVIOUS
<1>1. RoleInv /\ CommitInv /\ PendingMatchesLog
  BY DEF Init, RoleInv, CommitInv, PendingMatchesLog
<1>2. ApplyInv /\ WakeInv /\ AppliedInOrder
  BY DEF Init, ApplyInv, WakeInv, AppliedInOrder
<1> QED BY <1>1, <1>2 DEF PipelineInv

\* The parts together are inductive.
LEMMA PipelineStep == TypeOK /\ PipelineInv /\ [Next]_vars => PipelineInv'
<1> SUFFICES ASSUME TypeOK, PipelineInv, [Next]_vars PROVE PipelineInv'
  OBVIOUS
<1>1. TypeOK'
  BY TypeStep
<1>2. RoleInv' /\ PendingMatchesLog'
  BY RoleStep, PendingStep DEF PipelineInv
<1>3. CommitInv' /\ ApplyInv' /\ WakeInv'
  BY CommitStep, ApplyStep, WakeStep DEF PipelineInv
<1>4. AppliedInOrder'
  BY <1>1, OrderStep DEF PipelineInv
<1> QED BY <1>2, <1>3, <1>4 DEF PipelineInv

\* Types and the invariant hold in every reachable state; applyCh never holds
\* more than its capacity (raft.go:159).
THEOREM PipelineInvariant == Spec => [](TypeOK /\ PipelineInv)
  BY TypeInit, TypeStep, PipelineInit, PipelineStep, PTL DEF Spec

\* The pipeline keeps its types, in particular applyCh its capacity, although
\* requests stay in it when nobody leads any more (raft.go:159).
THEOREM PipelineTypes == Spec => []TypeOK
  BY PipelineInvariant, PTL

\* While a node leads, each pending future waits at its own command's index
\* (raft.go:507, 545-552).
THEOREM FuturesMatchLog == Spec => []PendingMatchesLog
<1>1. PipelineInv => PendingMatchesLog
  BY DEF PipelineInv
<1> QED BY <1>1, PipelineInvariant, PTL

\* The state machine is given committed entries only, in log order, none twice
\* in a life (raft.go:600-629).
THEOREM ApplyOrder == Spec => []AppliedInOrder
<1>1. PipelineInv => AppliedInOrder
  BY DEF PipelineInv
<1> QED BY <1>1, PipelineInvariant, PTL

\* The one-slot channel of notifyCommit loses no commit: an apply loop that
\* waits without a token has nothing left to apply (raft.go:588-640).
THEOREM WakeupKept == Spec => []NoLostWakeup
<1>1. TypeOK /\ PipelineInv => NoLostWakeup
  <2> SUFFICES ASSUME TypeOK, PipelineInv, next > limit, ~notified
               PROVE  (lastApplied + 1)..commitIndex \subseteq failed
    BY DEF NoLostWakeup
  <2>1. commitIndex = limit /\ (lastApplied + 1)..(next - 1) \subseteq failed
    BY DEF PipelineInv, WakeInv
  <2>2. (lastApplied + 1)..commitIndex \subseteq (lastApplied + 1)..(next - 1)
    BY <2>1 DEF TypeOK
  <2> QED BY <2>1, <2>2
<1> QED BY <1>1, PipelineInvariant, PTL
=============================================================================
