----------------------------- MODULE MCSession -----------------------------
(* Pages and nodes for TLC.                                                  *)
EXTENDS Session, TLC

CONSTANTS c1, c2, n1, n2

\* Both pages are connected to the leader and nothing has been typed.
Joined(c) == [client |-> c, node |-> n1, known |-> 0, stage |-> "serving", up |-> TRUE,
              event |-> FALSE, catchUp |-> <<>>, text |-> <<>>, rev |-> 0,
              inbox |-> <<>>, outbox |-> <<>>]

Order == IF c2 \in Client THEN <<c1, c2>> ELSE <<c1>>

MCInit ==
    /\ DocInit
    /\ leaderID = [n \in Node |-> n1]
    /\ proposals = [n \in Node |-> <<>>]
    /\ clients = [n \in Node |-> [c \in Client |->
                    IF n = n1 THEN CHOOSE k \in DOMAIN Order : Order[k] = c ELSE 0]]
    /\ conn = [k \in DOMAIN Order |-> Joined(Order[k])]
    /\ page = [c \in Client |->
                 [NewPage(0) EXCEPT !.ws = CHOOSE k \in DOMAIN Order : Order[k] = c,
                                    !.ready = TRUE, !.running = TRUE]]
    /\ wide = {} /\ missed = {} /\ exposed = {}

MCSpec == MCInit /\ [][Next]_vars /\ Fairness

OneSubmission == [c \in Client |-> 1]
TwoSubmissions == [c \in Client |-> 2]

\* A bound on what is followed when things have gone wrong: from a change of
\* leadership on, one client types; from the first exposed client on, one client
\* types, until the second commit or a change of leadership.
Small ==
    LET changed == leaderID # [n \in Node |-> n1]
    IN  /\ changed \/ exposed # {} =>
             \E c \in Client : page[c].sub = 0 /\ page[c].typed = "no"
        /\ exposed # {} => ~changed /\ Len(log) <= 1
=============================================================================
