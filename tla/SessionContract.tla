--------------------------- MODULE SessionContract ---------------------------
(***************************************************************************)
(* What a QuerySession promises the handler that uses it: the outcomes of  *)
(* its Exec calls and when it counts as dead, without the connection, the  *)
(* goroutines and the channels behind them. WsSession implements it;       *)
(* QueryExec relies on it.                                                 *)
(***************************************************************************)
EXTENDS Naturals

CONSTANT MaxQuery    \* bound: Exec calls on this session

VARIABLES
  cur,      \* number of the latest Exec call, 0 before the first
  status,   \* how each call ended
  answer,   \* whose result each call returned, 0 if none
  done      \* the session is dead: IsDead()

vars == <<cur, status, answer, done>>

Queries == 1..MaxQuery

Init ==
  /\ cur = 0
  /\ status = [q \in Queries |-> "none"]
  /\ answer = [q \in Queries |-> 0]
  /\ done = FALSE

Running == cur > 0 /\ status[cur] = "running"

\* Exec is called, by one goroutine at a time.
Ask ==
  /\ ~Running /\ cur < MaxQuery
  /\ cur' = cur + 1
  /\ status' = [status EXCEPT ![cur + 1] = "running"]
  /\ UNCHANGED <<answer, done>>

\* A call gets its own result or, once a call has been abandoned, that of an
\* earlier one; results come in the order of the queries and only once.
Answer(r) ==
  /\ Running
  /\ r <= cur
  /\ r = cur \/ \E q \in 1..(cur - 1) : status[q] \in {"timeout", "closed"}
  /\ \A q \in Queries : answer[q] < r
  /\ status' = [status EXCEPT ![cur] = "result"]
  /\ answer' = [answer EXCEPT ![cur] = r]
  /\ UNCHANGED <<cur, done>>

\* A call fails and says nothing about the session: it timed out or its
\* write failed.
Fail ==
  /\ Running
  /\ \E how \in {"timeout", "werr"} : status' = [status EXCEPT ![cur] = how]
  /\ UNCHANGED <<cur, answer, done>>

\* errClosed comes from a dead session only.
FailClosed ==
  /\ Running /\ done
  /\ status' = [status EXCEPT ![cur] = "closed"]
  /\ UNCHANGED <<cur, answer, done>>

\* The session dies, at any time and for good.
Die ==
  /\ ~done /\ done' = TRUE
  /\ UNCHANGED <<cur, status, answer>>

Next == Ask \/ (\E r \in Queries : Answer(r)) \/ Fail \/ FailClosed \/ Die

Spec == Init /\ [][Next]_vars
=============================================================================
