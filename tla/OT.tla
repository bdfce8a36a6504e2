--------------------------------- MODULE OT ---------------------------------
(***************************************************************************)
(* The EasySync changesets of internal/ot, which the browser's client.js   *)
(* carries a port of: Validate, ApplyChangeset, Compose, Follow and        *)
(* DiffToChangeset, and the rebasing formulas of the client.               *)
(*                                                                         *)
(* A text is a sequence of characters and a character a natural number, so *)
(* that texts have the lexicographic order the tie-breaker needs.  Every   *)
(* character has width 1, as ASCII has both in Go (bytes) and in           *)
(* JavaScript (UTF-16 units).                                              *)
(***************************************************************************)
EXTENDS Integers, Sequences

Retain(n) == [type |-> "retain", len |-> n, chars |-> <<>>]
Delete(n) == [type |-> "delete", len |-> n, chars |-> <<>>]
Insert(s) == [type |-> "insert", len |-> 0, chars |-> s]

Changeset(oldLen, newLen, ops) ==
    [oldLen |-> oldLen, newLen |-> newLen, ops |-> ops]

Least(a, b) == IF a < b THEN a ELSE b
Greatest(a, b) == IF a < b THEN b ELSE a

\* The characters an op stands for.
Size(op) == IF op.type = "insert" THEN Len(op.chars) ELSE op.len

\* The sum of the sizes of the ops of the given types.
RECURSIVE Total(_, _)
Total(ops, types) ==
    IF ops = <<>> THEN 0
    ELSE (IF Head(ops).type \in types THEN Size(Head(ops)) ELSE 0)
           + Total(Tail(ops), types)

-----------------------------------------------------------------------------
(* Making and checking changesets *)

Identity(n) == Changeset(n, n, IF n = 0 THEN <<>> ELSE <<Retain(n)>>)

IsIdentity(c) ==
    /\ c.oldLen = c.newLen
    /\ \/ c.oldLen = 0 /\ c.ops = <<>>
       \/ c.ops = <<Retain(c.oldLen)>>

RetainIfAny(n) == IF n > 0 THEN <<Retain(n)>> ELSE <<>>

MakeInsert(oldLen, pos, text) ==
    Changeset(oldLen, oldLen + Len(text),
              RetainIfAny(pos) \o <<Insert(text)>> \o RetainIfAny(oldLen - pos))

MakeDelete(oldLen, pos, count) ==
    Changeset(oldLen, oldLen - count,
              RetainIfAny(pos) \o <<Delete(count)>>
                               \o RetainIfAny(oldLen - pos - count))

Validate(c) ==
    /\ \A i \in DOMAIN c.ops : Size(c.ops[i]) > 0
    /\ Total(c.ops, {"retain", "delete"}) = c.oldLen
    /\ Total(c.ops, {"retain", "insert"}) = c.newLen

\* addOp of Compose, Follow and DiffToChangeset: neighbours of one type merge.
\* Mutant: they do not.
AddOpUnmerged(ops, op) == Append(ops, op)

AddOp(ops, op) ==
    IF ops # <<>> /\ ops[Len(ops)].type = op.type
      THEN [ops EXCEPT ![Len(ops)].len = @ + op.len,
                       ![Len(ops)].chars = @ \o op.chars]
      ELSE Append(ops, op)

\* consume: the ops that remain when n characters of the first are used up.
Consume(ops, n) ==
    IF n >= Size(Head(ops)) THEN Tail(ops)
    ELSE <<[Head(ops) EXCEPT !.len = IF Head(ops).type = "insert" THEN 0 ELSE @ - n,
                             !.chars = SubSeq(@, n + 1, Len(@))]>> \o Tail(ops)

-----------------------------------------------------------------------------
(* ApplyChangeset.  The result is the set with the new text, empty when the *)
(* function returns an error.                                               *)

RECURSIVE ApplyOps(_, _, _, _)
ApplyOps(text, ops, pos, out) ==
    IF ops = <<>> THEN (IF pos = Len(text) THEN {out} ELSE {})
    ELSE LET op == Head(ops) IN
         CASE op.type = "insert" -> ApplyOps(text, Tail(ops), pos, out \o op.chars)
           [] pos + op.len > Len(text) /\ op.type # "insert" -> {}
           [] pos + op.len <= Len(text) /\ op.type = "delete" ->
                ApplyOps(text, Tail(ops), pos + op.len, out)
           [] OTHER -> ApplyOps(text, Tail(ops), pos + op.len,
                                out \o SubSeq(text, pos + 1, pos + op.len))

ApplyChangeset(text, c) ==
    IF c.oldLen # Len(text) THEN {} ELSE ApplyOps(text, c.ops, 0, <<>>)

-----------------------------------------------------------------------------
(* Compose *)

IsInsert(ops) == ops # <<>> /\ Head(ops).type = "insert"

\* What becomes of n characters that A passes on and B keeps or deletes.
\* Mutant: B's delete of what A inserted is not seen.
PassedInsert(aOp, bOp, n) ==
    IF aOp.type = "insert" THEN <<Insert(SubSeq(aOp.chars, 1, n))>>
    ELSE <<[bOp EXCEPT !.len = n]>>

Passed(aOp, bOp, n) ==
    CASE aOp.type = "retain" -> <<[bOp EXCEPT !.len = n]>>
      [] aOp.type = "insert" /\ bOp.type = "retain" ->
           <<Insert(SubSeq(aOp.chars, 1, n))>>
      [] aOp.type = "insert" /\ bOp.type = "delete" -> <<>>

RECURSIVE ComposeOps(_, _, _)
ComposeOps(a, b, out) ==
    CASE IsInsert(b) -> ComposeOps(a, Tail(b), AddOp(out, Head(b)))
      [] ~IsInsert(b) /\ a # <<>> /\ Head(a).type = "delete" ->
           ComposeOps(Tail(a), b, AddOp(out, Head(a)))
      [] ~IsInsert(b) /\ (a = <<>> \/ b = <<>>) /\ ~(a # <<>> /\ Head(a).type = "delete") ->
           out
      [] OTHER ->
           LET n == Least(Size(Head(a)), Head(b).len)
               p == Passed(Head(a), Head(b), n)
           IN  ComposeOps(Consume(a, n), Consume(b, n),
                          IF p = <<>> THEN out ELSE AddOp(out, p[1]))

Compose(A, B) == Changeset(A.oldLen, B.newLen, ComposeOps(A.ops, B.ops, <<>>))

-----------------------------------------------------------------------------
(* Follow *)

\* s <= t for Go strings.
LexLeq(s, t) ==
    \/ Len(s) <= Len(t) /\ SubSeq(t, 1, Len(s)) = s
    \/ \E i \in 1..Least(Len(s), Len(t)) :
          s[i] < t[i] /\ \A j \in 1..(i - 1) : s[j] = t[j]

\* Of two inserts at one place, whether A's comes first.
\* Mutant: it always does, whichever side asks.
AAlwaysFirst(aChars, bChars) == TRUE

AFirst(aChars, bChars) == LexLeq(aChars, bChars)

RECURSIVE FollowOps(_, _, _)
FollowOps(a, b, out) ==
    IF IsInsert(a) /\ (IsInsert(b) => AFirst(Head(a).chars, Head(b).chars))
      THEN FollowOps(Tail(a), b, AddOp(out, Retain(Len(Head(a).chars))))
    ELSE IF IsInsert(b)
      THEN FollowOps(a, Tail(b), AddOp(out, Head(b)))
    ELSE IF a = <<>> \/ b = <<>>
      THEN out
    ELSE LET n == Least(Head(a).len, Head(b).len)
         IN  FollowOps(Consume(a, n), Consume(b, n),
                       IF Head(a).type = "delete" THEN out
                       ELSE AddOp(out, [Head(b) EXCEPT !.len = n]))

Follow(A, B) ==
    LET ops == FollowOps(A.ops, B.ops, <<>>)
    IN  Changeset(A.newLen, Total(ops, {"retain", "insert"}), ops)

-----------------------------------------------------------------------------
(* DiffToChangeset *)

\* dp[i][j]: the length of the longest common subsequence of old[:i], new[:j].
\* Mutant: only equal neighbours are ever matched.
LcsOfRuns(old, new) ==
    [i \in 0..Len(old) |-> [j \in 0..Len(new) |->
        IF i > 0 /\ j > 0 THEN (IF old[i] = new[j] THEN 1 ELSE 0) ELSE 0]]

RECURSIVE LcsRow(_, _, _, _, _)
LcsRow(old, new, i, prev, row) ==
    LET j == Len(row) IN   \* row holds dp[i][0..j-1]
    IF j > Len(new) THEN row
    ELSE LcsRow(old, new, i, prev,
                Append(row, IF old[i] = new[j] THEN prev[j] + 1
                            ELSE Greatest(prev[j + 1], row[j])))

RECURSIVE LcsRows(_, _, _)
LcsRows(old, new, rows) ==
    IF Len(rows) > Len(old) THEN rows
    ELSE LcsRows(old, new,
                 Append(rows, LcsRow(old, new, Len(rows), rows[Len(rows)], <<0>>)))

Lcs(old, new) ==
    LET rows == LcsRows(old, new, <<[j \in 1..(Len(new) + 1) |-> 0]>>)
    IN  [i \in 0..Len(old) |-> [j \in 0..Len(new) |-> rows[i + 1][j + 1]]]

\* The backtracking walk from (n, m) to (0, 0); the segments come out reversed.
RECURSIVE DiffOps(_, _, _, _, _)
DiffOps(old, new, dp, i, j) ==
    CASE i = 0 /\ j = 0 -> <<>>
      [] i > 0 /\ j > 0 /\ old[i] = new[j] ->
           AddOp(DiffOps(old, new, dp, i - 1, j - 1), Retain(1))
      [] /\ ~(i > 0 /\ j > 0 /\ old[i] = new[j])
         /\ j > 0 /\ (i = 0 \/ dp[i][j - 1] >= dp[i - 1][j]) ->
           AddOp(DiffOps(old, new, dp, i, j - 1), Insert(<<new[j]>>))
      [] OTHER ->
           AddOp(DiffOps(old, new, dp, i - 1, j), Delete(1))

DiffToChangeset(old, new) ==
    Changeset(Len(old), Len(new),
              DiffOps(old, new, Lcs(old, new), Len(old), Len(new)))

-----------------------------------------------------------------------------
(* handleBroadcast of the client: a changeset B of somebody else arrives    *)
(* while X is submitted and Y is typed.                                     *)

RebasedX(X, B) == Follow(B, X)

\* Mutant: Y is rebased with the X that has already been rebased, as
\* handleConnectAck does.
RebasedYTwice(X, Y, B) == Follow(Follow(Follow(B, X), B), Y)

RebasedY(X, Y, B) == Follow(Follow(X, B), Y)

\* What is applied to the text on the screen.
ScreenDelta(X, Y, B) == Follow(Y, Follow(X, B))

=============================================================================
