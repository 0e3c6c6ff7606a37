------------------------------ MODULE WsSession ------------------------------
(***************************************************************************)
(* One query session to Yearning: the WebSocket connection of              *)
(* internal/yearning/ws.go together with the Exec, keepAlive and Close of  *)
(* QuerySession in internal/yearning/client.go.                            *)
(*                                                                         *)
(* Three goroutines share the connection:                                  *)
(*   "exec"   the handler goroutine: Exec calls and Close, one at a time;  *)
(*   "alive"  keepAlive, which sends a text ping at every tick;            *)
(*   "pump"   readPump, which moves what arrives into the channel msgCh.   *)
(* The network is two FIFO pipes and a server that answers in order.       *)
(*                                                                         *)
(* A query is the number of its Exec call, and so is its result on the     *)
(* wire; Beat stands for a ping on the way out and for anything Exec       *)
(* skips on the way back (pong text, heartbeat, undecodable payload).      *)
(***************************************************************************)
EXTENDS Naturals, Sequences, FiniteSets

CONSTANTS
  MaxQuery,   \* bound: Exec calls on this session
  Cap,        \* capacity of msgCh (64 in the code)
  MaxBeats,   \* bound: beats on the wire at any time
  MaxTicks    \* bound: pings sent while one Exec runs (timeout.query / 10s)

ASSUME BoundsAssumption ==
  /\ MaxQuery \in Nat \ {0}
  /\ Cap \in Nat \ {0}
  /\ MaxBeats \in Nat
  /\ MaxTicks \in Nat

VARIABLES
  pc,         \* label of each goroutine
  cur,        \* number of the latest Exec call, 0 before the first
  status,     \* how each Exec call ended
  answer,     \* whose result each Exec call returned, 0 if none
  msgCh,      \* the channel the pump delivers into
  chClosed,   \* close(msgCh) has happened
  done,       \* close(done) has happened: IsDead()
  once,       \* the sync.Once shared by close() and readPump
  sock,       \* the local socket
  writeL,     \* holder of the write mutex
  held,       \* the message ReadMessage handed to the pump
  toServer, toClient,   \* the two directions of the wire
  rd, wr,     \* whether reading and writing the socket work
  ticks       \* pings put on the wire since the current Exec started

chVars   == <<msgCh, chClosed>>
lifeVars == <<done, once, sock>>
wireVars == <<toServer, toClient, rd, wr>>
callVars == <<cur, status, answer>>
vars == <<pc, callVars, chVars, lifeVars, writeL, held, wireVars, ticks>>

Beat    == 0
Queries == 1..MaxQuery
Message == 0..MaxQuery
None    == MaxQuery + 1           \* held: the pump holds nothing
Nobody  == "nobody"               \* writeL is free

Threads == {"exec", "alive", "pump"}
ExecLabels  == {"idle", "drain", "lock", "write", "read", "close", "sock"}
AliveLabels == {"wait", "lock", "write", "close", "sock", "exit"}
PumpLabels  == {"read", "deliver", "once", "closeCh", "exit"}

Init ==
  /\ pc = [t \in Threads |-> IF t = "exec" THEN "idle"
                             ELSE IF t = "alive" THEN "wait" ELSE "read"]
  /\ cur = 0
  /\ status = [q \in Queries |-> "none"]
  /\ answer = [q \in Queries |-> 0]
  /\ msgCh = <<>> /\ chClosed = FALSE
  /\ done = FALSE /\ once = "fresh" /\ sock = "open"
  /\ writeL = Nobody
  /\ held = None
  /\ toServer = <<>> /\ toClient = <<>>
  /\ rd = "ok" /\ wr = "ok"
  /\ ticks = 0

Goto(t, from, to) == pc[t] = from /\ pc' = [pc EXCEPT ![t] = to]

-----------------------------------------------------------------------------
(* The mutex around WriteMessage, and one write under it.                   *)

Lock(t) ==
  /\ Goto(t, "lock", "write")
  /\ writeL = Nobody
  /\ writeL' = t
  /\ UNCHANGED <<callVars, chVars, lifeVars, held, wireVars, ticks>>

WriteFails    == sock = "closed" \/ wr = "fail"
WriteSucceeds == sock = "open" /\ wr = "ok"

-----------------------------------------------------------------------------
(* sync.Once around close(done) and ws.Close(). A caller that finds another *)
(* call running waits for it; one that finds it spent does nothing.         *)

CloseOnce(t, next) ==
  /\ \/ /\ once = "fresh"
        /\ once' = "running"
        /\ done' = TRUE
        /\ Goto(t, "close", "sock")
     \/ /\ once = "spent"
        /\ UNCHANGED <<once, done>>
        /\ Goto(t, "close", next)
  /\ UNCHANGED <<callVars, chVars, sock, writeL, held, wireVars, ticks>>

\* Mutant: close() marks done but leaves the socket open.
MutCloseKeepsSocket(t, next) ==
  /\ Goto(t, "sock", next)
  /\ once' = "spent"
  /\ UNCHANGED <<callVars, chVars, done, sock, writeL, held, wireVars, ticks>>

CloseSocket(t, next) ==
  /\ Goto(t, "sock", next)
  /\ sock' = "closed"
  /\ once' = "spent"
  /\ UNCHANGED <<callVars, chVars, done, writeL, held, wireVars, ticks>>

-----------------------------------------------------------------------------
(* QuerySession.Exec and QuerySession.Close.                                *)

\* A call of Exec. Nothing here looks at done: the handler tests IsDead in an
\* earlier step (sessionFor), and its retry after a query order not at all.
ExecStart ==
  /\ cur < MaxQuery
  /\ Goto("exec", "idle", "drain")
  /\ cur' = cur + 1
  /\ status' = [status EXCEPT ![cur + 1] = "running"]
  /\ ticks' = 0
  /\ UNCHANGED <<answer, chVars, lifeVars, writeL, held, wireVars>>

\* Mutant: Exec does not drain the channel.
MutNoDrain ==
  /\ Goto("exec", "drain", "lock")
  /\ UNCHANGED <<callVars, chVars, lifeVars, writeL, held, wireVars, ticks>>

\* One turn of drainPending's loop. Receiving from a closed channel is always
\* ready, so once msgCh is closed the loop takes its first case for ever.
ExecDrain ==
  /\ \/ /\ pc["exec"] = "drain"
        /\ msgCh # <<>>
        /\ msgCh' = Tail(msgCh)
        /\ UNCHANGED pc
     \/ /\ pc["exec"] = "drain"
        /\ msgCh = <<>> /\ chClosed
        /\ UNCHANGED <<pc, msgCh>>
     \/ /\ msgCh = <<>> /\ ~chClosed
        /\ Goto("exec", "drain", "lock")
        /\ UNCHANGED msgCh
  /\ UNCHANGED <<callVars, chClosed, lifeVars, writeL, held, wireVars, ticks>>

ExecEnds(from, how) ==
  /\ Goto("exec", from, "idle")
  /\ status' = [status EXCEPT ![cur] = how]

ExecLock == Lock("exec")

\* Mutant: the query is written a second time after a write that worked.
MutWriteTwice ==
  /\ WriteSucceeds
  /\ Goto("exec", "write", "read")
  /\ toServer' = toServer \o <<cur, cur>>
  /\ writeL' = Nobody
  /\ UNCHANGED <<callVars, chVars, lifeVars, held, toClient, rd, wr, ticks>>

ExecWrite ==
  /\ \/ /\ WriteSucceeds
        /\ Goto("exec", "write", "read")
        /\ toServer' = Append(toServer, cur)
        /\ UNCHANGED status
     \/ /\ WriteFails
        /\ ExecEnds("write", "werr")
        /\ UNCHANGED toServer
  /\ writeL' = Nobody
  /\ UNCHANGED <<cur, answer, chVars, lifeVars, held, toClient, rd, wr, ticks>>

\* Mutant: Exec takes a heartbeat for a result.
MutHeartbeatIsResult ==
  /\ msgCh # <<>>
  /\ msgCh' = Tail(msgCh)
  /\ ExecEnds("read", "result")
  /\ answer' = [answer EXCEPT ![cur] = Head(msgCh)]
  /\ UNCHANGED <<cur, chClosed, lifeVars, writeL, held, wireVars, ticks>>

\* read() returned a message: a beat is skipped, a result is the answer,
\* whichever query it belongs to (results carry no request id).
ExecReceive ==
  /\ pc["exec"] = "read"
  /\ msgCh # <<>>
  /\ msgCh' = Tail(msgCh)
  /\ \/ /\ Head(msgCh) = Beat
        /\ UNCHANGED <<pc, status, answer>>
     \/ /\ Head(msgCh) # Beat
        /\ ExecEnds("read", "result")
        /\ answer' = [answer EXCEPT ![cur] = Head(msgCh)]
  /\ UNCHANGED <<cur, chClosed, lifeVars, writeL, held, wireVars, ticks>>

\* read() returned errClosed: done is closed, or msgCh is closed and empty.
ExecClosed ==
  /\ done \/ (chClosed /\ msgCh = <<>>)
  /\ ExecEnds("read", "closed")
  /\ UNCHANGED <<cur, answer, chVars, lifeVars, writeL, held, wireVars, ticks>>

\* Mutant: the deadline is only looked at when a message has arrived.
MutTimeoutNeedsMessage ==
  /\ msgCh # <<>>
  /\ ExecEnds("read", "timeout")
  /\ UNCHANGED <<cur, answer, chVars, lifeVars, writeL, held, wireVars, ticks>>

\* read() returned errTimeout. Time is abstracted: the deadline may pass at
\* any moment, and select may prefer it to a message that is also ready.
ExecTimeout ==
  /\ ExecEnds("read", "timeout")
  /\ UNCHANGED <<cur, answer, chVars, lifeVars, writeL, held, wireVars, ticks>>

\* The handler drops the session (dropSession, Handler.Close).
OwnerClose ==
  /\ Goto("exec", "idle", "close")
  /\ UNCHANGED <<callVars, chVars, lifeVars, writeL, held, wireVars, ticks>>

OwnerCloseOnce   == CloseOnce("exec", "idle")
OwnerCloseSocket == CloseSocket("exec", "idle")

-----------------------------------------------------------------------------
(* keepAlive.                                                               *)

\* How many of the messages S are in s.
Count(s, S) == Cardinality({i \in 1..Len(s) : s[i] \in S})

OnWire(S) == Count(toServer, S) + Count(toClient, S) + (IF held \in S THEN 1 ELSE 0)

BeatsOnWire == OnWire({Beat})

AliveTick ==
  /\ Goto("alive", "wait", "lock")
  /\ UNCHANGED <<callVars, chVars, lifeVars, writeL, held, wireVars, ticks>>

AliveLock == Lock("alive")

\* Mutant: keepAlive stops on a failed ping and does not close the session.
MutPingErrorIgnored ==
  /\ \/ WriteSucceeds /\ Goto("alive", "write", "wait")
     \/ WriteFails /\ Goto("alive", "write", "exit")
  /\ writeL' = Nobody
  /\ UNCHANGED <<callVars, chVars, lifeVars, held, wireVars, ticks>>

\* The ping. The bounds only limit how many beats the model keeps track of:
\* past them the ping is sent and its pong is not represented.
AliveWrite ==
  /\ \/ /\ WriteSucceeds
        /\ Goto("alive", "write", "wait")
        /\ IF BeatsOnWire < MaxBeats /\ (pc["exec"] = "idle" \/ ticks < MaxTicks)
           THEN /\ toServer' = Append(toServer, Beat)
                /\ ticks' = IF pc["exec"] = "idle" THEN ticks ELSE ticks + 1
           ELSE UNCHANGED <<toServer, ticks>>
     \/ /\ WriteFails
        /\ Goto("alive", "write", "close")
        /\ UNCHANGED <<toServer, ticks>>
  /\ writeL' = Nobody
  /\ UNCHANGED <<callVars, chVars, lifeVars, held, toClient, rd, wr>>

AliveCloseOnce   == CloseOnce("alive", "exit")
AliveCloseSocket == CloseSocket("alive", "exit")

AliveStop ==
  /\ done
  /\ Goto("alive", "wait", "exit")
  /\ UNCHANGED <<callVars, chVars, lifeVars, writeL, held, wireVars, ticks>>

-----------------------------------------------------------------------------
(* readPump.                                                                *)

PumpRead ==
  /\ Goto("pump", "read", "deliver")
  /\ rd = "ok" /\ sock = "open"
  /\ toClient # <<>>
  /\ held' = Head(toClient)
  /\ toClient' = Tail(toClient)
  /\ UNCHANGED <<callVars, chVars, lifeVars, writeL, toServer, rd, wr, ticks>>

PumpReadFails ==
  /\ Goto("pump", "read", "once")
  /\ rd = "fail" \/ sock = "closed"
  /\ UNCHANGED <<callVars, chVars, lifeVars, writeL, held, wireVars, ticks>>

\* Mutant: the pump delivers without looking for room.
MutDeliverUnbounded ==
  /\ Goto("pump", "deliver", "read")
  /\ msgCh' = Append(msgCh, held)
  /\ held' = None
  /\ UNCHANGED <<callVars, chClosed, lifeVars, writeL, wireVars, ticks>>

\* The non-blocking select: deliver if there is room, leave if done is
\* closed (either, if both are ready), drop the message if neither.
PumpDeliver ==
  /\ \/ /\ Len(msgCh) < Cap
        /\ Goto("pump", "deliver", "read")
        /\ msgCh' = Append(msgCh, held)
     \/ /\ done
        /\ Goto("pump", "deliver", "once")
        /\ UNCHANGED msgCh
     \/ /\ Len(msgCh) = Cap /\ ~done
        /\ Goto("pump", "deliver", "read")
        /\ UNCHANGED msgCh
  /\ held' = None
  /\ UNCHANGED <<callVars, chClosed, lifeVars, writeL, wireVars, ticks>>

\* Mutant: the pump ends without marking the session dead.
MutPumpForgetsDone ==
  /\ Goto("pump", "once", "closeCh")
  /\ UNCHANGED <<callVars, chVars, lifeVars, writeL, held, wireVars, ticks>>

\* The deferred calls of readPump, in the order they run: first the once,
\* which closes done and nothing else, then close(msgCh).
PumpOnce ==
  /\ once # "running"
  /\ Goto("pump", "once", "closeCh")
  /\ once' = "spent"
  /\ done' = TRUE
  /\ UNCHANGED <<callVars, chVars, sock, writeL, held, wireVars, ticks>>

PumpCloseCh ==
  /\ Goto("pump", "closeCh", "exit")
  /\ chClosed' = TRUE
  /\ UNCHANGED <<callVars, msgCh, lifeVars, writeL, held, wireVars, ticks>>

-----------------------------------------------------------------------------
(* The network and Yearning, as the client uses them.                       *)

\* Yearning takes one message at a time and answers each with one message.
ServerReply ==
  /\ toServer # <<>>
  /\ toServer' = Tail(toServer)
  /\ toClient' = Append(toClient, Head(toServer))
  /\ UNCHANGED <<pc, callVars, chVars, lifeVars, writeL, held, rd, wr, ticks>>

\* Reading ends: a close frame, a reset, the kernel giving the peer up.
BreakRead ==
  /\ rd = "ok" /\ rd' = "fail"
  /\ UNCHANGED <<pc, callVars, chVars, lifeVars, writeL, held, toServer, toClient, wr, ticks>>

\* Writing ends: gorilla keeps the first write error for ever.
BreakWrite ==
  /\ wr # "fail" /\ wr' = "fail"
  /\ UNCHANGED <<pc, callVars, chVars, lifeVars, writeL, held, toServer, toClient, rd, ticks>>

\* The send buffer is full: WriteMessage, which has no deadline, blocks.
BlockWrite ==
  /\ wr = "ok" /\ wr' = "blocked"
  /\ UNCHANGED <<pc, callVars, chVars, lifeVars, writeL, held, toServer, toClient, rd, ticks>>

UnblockWrite ==
  /\ wr = "blocked" /\ wr' = "ok"
  /\ UNCHANGED <<pc, callVars, chVars, lifeVars, writeL, held, toServer, toClient, rd, ticks>>

-----------------------------------------------------------------------------
Exec  == \/ ExecStart \/ ExecDrain \/ ExecLock \/ ExecWrite
         \/ ExecReceive \/ ExecClosed \/ ExecTimeout
Owner == OwnerClose \/ OwnerCloseOnce \/ OwnerCloseSocket
Alive == \/ AliveTick \/ AliveLock \/ AliveWrite
         \/ AliveCloseOnce \/ AliveCloseSocket \/ AliveStop
Pump  == PumpRead \/ PumpReadFails \/ PumpDeliver \/ PumpOnce \/ PumpCloseCh
Net   == ServerReply \/ BreakRead \/ BreakWrite \/ BlockWrite \/ UnblockWrite

Next == Exec \/ Owner \/ Alive \/ Pump \/ Net

Spec == Init /\ [][Next]_vars

\* Each goroutine keeps being scheduled. The mutex is starvation free and a
\* writer waiting for buffer space is served when there is some, hence SF for
\* the two steps of a write; the timer of read() fires whatever else happens;
\* a full send buffer drains or the kernel fails the write. Nothing is assumed
\* of the server, of the ping's peer or of the caller.
Fairness ==
  /\ WF_vars(ExecDrain) /\ SF_vars(ExecLock) /\ SF_vars(ExecWrite)
  /\ WF_vars(ExecReceive \/ ExecClosed) /\ WF_vars(ExecTimeout)
  /\ WF_vars(OwnerCloseOnce) /\ WF_vars(OwnerCloseSocket)
  /\ WF_vars(AliveTick) /\ SF_vars(AliveStop)
  /\ SF_vars(AliveLock) /\ SF_vars(AliveWrite)
  /\ WF_vars(AliveCloseOnce) /\ WF_vars(AliveCloseSocket)
  /\ WF_vars(Pump) /\ WF_vars(UnblockWrite)

FairSpec == Spec /\ Fairness

-----------------------------------------------------------------------------
Status == {"none", "running", "result", "timeout", "closed", "werr"}

ControlOK ==
  /\ pc \in [Threads -> ExecLabels \cup AliveLabels \cup PumpLabels]
  /\ pc["exec"] \in ExecLabels
  /\ pc["alive"] \in AliveLabels
  /\ pc["pump"] \in PumpLabels
  /\ writeL \in {"exec", "alive", Nobody}

CallsOK ==
  /\ cur \in 0..MaxQuery
  /\ status \in [Queries -> Status]
  /\ answer \in [Queries -> Message]

ChannelOK ==
  /\ msgCh \in Seq(Message) /\ Len(msgCh) <= Cap
  /\ chClosed \in BOOLEAN
  /\ held \in Message \cup {None}
  /\ held \in Message <=> pc["pump"] = "deliver"

LifeOK ==
  /\ done \in BOOLEAN
  /\ once \in {"fresh", "running", "spent"}
  /\ sock \in {"open", "closed"}

WireOK ==
  /\ toServer \in Seq(Message) /\ toClient \in Seq(Message)
  /\ rd \in {"ok", "fail"} /\ wr \in {"ok", "blocked", "fail"}
  /\ ticks \in 0..MaxTicks

\* The variables keep their types; in particular msgCh never exceeds its
\* capacity, and the pump has a message in hand exactly when it is about to
\* deliver one.
TypeOK == ControlOK /\ CallsOK /\ ChannelOK /\ LifeOK /\ WireOK

\* Results carry no request id, so a call that was abandoned (errTimeout, or
\* errClosed while its result was in flight) can hand its result to the next
\* one, and that one's to the one after it. Until a call is abandoned every
\* result is the caller's own; after it, calls still get results in the order
\* of the queries, none of them twice and none from the future.
Abandoned(q) == status[q] \in {"timeout", "closed"}

AnswersOwnUntilAbandoned ==
  \A q \in Queries : status[q] = "result" =>
    /\ answer[q] \in 1..q
    /\ (\A p \in 1..(q - 1) : ~Abandoned(p)) => answer[q] = q
    /\ \A p \in 1..(q - 1) : status[p] = "result" => answer[p] < answer[q]

\* While Exec waits for a result the pump never meets a full channel with
\* that result in hand: the drop in readPump's select only ever hits beats
\* and abandoned results, as its comment says.
AwaitedResultHasRoom ==
  pc["exec"] = "read" /\ pc["pump"] = "deliver" /\ held = cur /\ ~done
    => Len(msgCh) < Cap

\* An Exec that ends with errClosed leaves a session that IsDead() reports
\* dead, so the handler rebuilds it: done is closed before msgCh is.
ClosedMeansDead ==
  /\ chClosed => done
  /\ \A q \in Queries : status[q] = "closed" => done

\* No zombie session: when either direction of the socket has failed the
\* session is eventually marked dead, by the pump for reads and by the ping
\* of keepAlive for writes.
BrokenBecomesDead == (rd = "fail" \/ wr = "fail") ~> done

\* Once a session is dead its two goroutines end.
GoroutinesEnd == done ~> (pc["pump"] = "exit" /\ pc["alive"] = "exit")

\* A dead session gives its socket back, unless reading from it had failed: a
\* pump that ends on a read error spends the once without ws.Close(), and the
\* close() that dropSession calls later does nothing.
SocketReleased == done ~> (sock = "closed" \/ rd = "fail")

\* Past drainPending every Exec returns, with a result or an error, even when
\* the server never answers and the socket stalls.
SentExecReturns ==
  pc["exec"] \in {"lock", "write", "read"} ~> pc["exec"] = "idle"

\* The connection and its goroutines implement the contract the handler relies
\* on: every step is a step of SessionContract or leaves its variables alone.
Contract == INSTANCE SessionContract
ImplementsContract == Contract!Spec

-----------------------------------------------------------------------------
(* What the code's comments and documents say and the model refutes.        *)

\* "Exec sends one query and returns the result": of that query.
AnswersOwn == \A q \in Queries : status[q] = "result" => answer[q] = q

\* Every Exec returns: "timeout.query" is the limit of a query, and a dead
\* session makes it fail with errClosed.
ExecReturns == pc["exec"] = "drain" ~> pc["exec"] = "idle"
=============================================================================
