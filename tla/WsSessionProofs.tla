--------------------------- MODULE WsSessionProofs ---------------------------
(***************************************************************************)
(* Proofs about WsSession, for every value of its constants: any number of *)
(* Exec calls, any capacity of msgCh, any number of beats. In order: the    *)
(* type invariant; errClosed comes from dead sessions only; until a call   *)
(* is abandoned every Exec gets its own result; the connection implements  *)
(* SessionContract; and the result an Exec waits for is never dropped for  *)
(* want of room in msgCh: how many messages there can be between the socket *)
(* and Exec, for every bound and any number of abandoned calls.            *)
(***************************************************************************)
EXTENDS WsSession, FiniteSetTheorems, FunctionTheorems, TLAPS

LEMMA NoneIsNoMessage == None \notin Message
  BY BoundsAssumption DEF None, Message

LEMMA InitTypeOK == Init => TypeOK
  <1> SUFFICES ASSUME Init PROVE TypeOK
    OBVIOUS
  <1>1. ControlOK
    BY DEF Init, ControlOK, Threads, ExecLabels, AliveLabels, PumpLabels, Nobody
  <1>2. CallsOK
    BY BoundsAssumption DEF Init, CallsOK, Queries, Message, Status
  <1>3. ChannelOK
    <2>1. msgCh \in Seq(Message)
      BY DEF Init
    <2>2. Len(msgCh) <= Cap
      BY BoundsAssumption DEF Init
    <2>3. chClosed \in BOOLEAN
      BY DEF Init
    <2>4. held \in Message \cup {None} /\ held \notin Message
      BY NoneIsNoMessage DEF Init
    <2>5. pc["pump"] # "deliver"
      BY DEF Init, Threads
    <2> QED
      BY <2>1, <2>2, <2>3, <2>4, <2>5 DEF ChannelOK
  <1>4. LifeOK
    BY DEF Init, LifeOK
  <1>5. WireOK
    BY BoundsAssumption DEF Init, WireOK
  <1> QED
    BY <1>1, <1>2, <1>3, <1>4, <1>5 DEF TypeOK

LEMMA TailFacts ==
  ASSUME NEW S, NEW s \in Seq(S), s # <<>>
  PROVE  /\ Head(s) \in S
         /\ Tail(s) \in Seq(S)
         /\ Len(Tail(s)) = Len(s) - 1
         /\ Len(s) \in Nat \ {0}
  OBVIOUS

LEMMA AppendFacts ==
  ASSUME NEW S, NEW s \in Seq(S), NEW e \in S
  PROVE  /\ Append(s, e) \in Seq(S)
         /\ Len(Append(s, e)) = Len(s) + 1
         /\ Len(s) \in Nat
  OBVIOUS

LEMMA ControlStep ==
  ASSUME ControlOK, [Next]_vars
  PROVE  ControlOK'
  <1>1. CASE ExecStart
    BY <1>1 DEF ExecStart, ControlOK, Goto, Threads, ExecLabels, AliveLabels, PumpLabels, Nobody
  <1>2. CASE ExecDrain
    BY <1>2 DEF ExecDrain, ControlOK, Goto, Threads, ExecLabels, AliveLabels, PumpLabels, Nobody
  <1>3. CASE ExecLock
    BY <1>3 DEF ExecLock, Lock, ControlOK, Goto, Threads, ExecLabels, AliveLabels, PumpLabels, Nobody
  <1>4. CASE ExecWrite
    BY <1>4 DEF ExecWrite, ExecEnds, ControlOK, Goto, Threads, ExecLabels, AliveLabels, PumpLabels, Nobody
  <1>5. CASE ExecReceive
    BY <1>5 DEF ExecReceive, ExecEnds, ControlOK, Goto, Threads, ExecLabels, AliveLabels, PumpLabels, Nobody
  <1>6. CASE ExecClosed
    BY <1>6 DEF ExecClosed, ExecEnds, ControlOK, Goto, Threads, ExecLabels, AliveLabels, PumpLabels, Nobody
  <1>7. CASE ExecTimeout
    BY <1>7 DEF ExecTimeout, ExecEnds, ControlOK, Goto, Threads, ExecLabels, AliveLabels, PumpLabels, Nobody
  <1>8. CASE OwnerClose
    BY <1>8 DEF OwnerClose, ControlOK, Goto, Threads, ExecLabels, AliveLabels, PumpLabels, Nobody
  <1>9. CASE OwnerCloseOnce
    BY <1>9 DEF OwnerCloseOnce, CloseOnce, ControlOK, Goto, Threads, ExecLabels, AliveLabels, PumpLabels, Nobody
  <1>10. CASE OwnerCloseSocket
    BY <1>10 DEF OwnerCloseSocket, CloseSocket, ControlOK, Goto, Threads, ExecLabels, AliveLabels, PumpLabels, Nobody
  <1>11. CASE AliveTick
    BY <1>11 DEF AliveTick, ControlOK, Goto, Threads, ExecLabels, AliveLabels, PumpLabels, Nobody
  <1>12. CASE AliveLock
    BY <1>12 DEF AliveLock, Lock, ControlOK, Goto, Threads, ExecLabels, AliveLabels, PumpLabels, Nobody
  <1>13. CASE AliveWrite
    BY <1>13 DEF AliveWrite, ControlOK, Goto, Threads, ExecLabels, AliveLabels, PumpLabels, Nobody
  <1>14. CASE AliveCloseOnce
    BY <1>14 DEF AliveCloseOnce, CloseOnce, ControlOK, Goto, Threads, ExecLabels, AliveLabels, PumpLabels, Nobody
  <1>15. CASE AliveCloseSocket
    BY <1>15 DEF AliveCloseSocket, CloseSocket, ControlOK, Goto, Threads, ExecLabels, AliveLabels, PumpLabels, Nobody
  <1>16. CASE AliveStop
    BY <1>16 DEF AliveStop, ControlOK, Goto, Threads, ExecLabels, AliveLabels, PumpLabels, Nobody
  <1>17. CASE PumpRead
    BY <1>17 DEF PumpRead, ControlOK, Goto, Threads, ExecLabels, AliveLabels, PumpLabels, Nobody
  <1>18. CASE PumpReadFails
    BY <1>18 DEF PumpReadFails, ControlOK, Goto, Threads, ExecLabels, AliveLabels, PumpLabels, Nobody
  <1>19. CASE PumpDeliver
    BY <1>19 DEF PumpDeliver, ControlOK, Goto, Threads, ExecLabels, AliveLabels, PumpLabels, Nobody
  <1>20. CASE PumpOnce
    BY <1>20 DEF PumpOnce, ControlOK, Goto, Threads, ExecLabels, AliveLabels, PumpLabels, Nobody
  <1>21. CASE PumpCloseCh
    BY <1>21 DEF PumpCloseCh, ControlOK, Goto, Threads, ExecLabels, AliveLabels, PumpLabels, Nobody
  <1>22. CASE Net
    BY <1>22
    DEF Net, ServerReply, BreakRead, BreakWrite, BlockWrite, UnblockWrite,
        ControlOK
  <1>23. CASE UNCHANGED vars
    BY <1>23 DEF vars, ControlOK
  <1> QED
    BY <1>1, <1>2, <1>3, <1>4, <1>5, <1>6, <1>7, <1>8, <1>9, <1>10, <1>11, <1>12, <1>13, <1>14, <1>15, <1>16, <1>17, <1>18, <1>19, <1>20, <1>21, <1>22, <1>23
    DEF Next, Exec, Owner, Alive, Pump

LEMMA LifeStep ==
  ASSUME LifeOK, [Next]_vars
  PROVE  LifeOK'
  <1>1. CASE OwnerCloseOnce
    BY <1>1 DEF OwnerCloseOnce, CloseOnce, LifeOK
  <1>2. CASE OwnerCloseSocket
    BY <1>2 DEF OwnerCloseSocket, CloseSocket, LifeOK
  <1>3. CASE AliveCloseOnce
    BY <1>3 DEF AliveCloseOnce, CloseOnce, LifeOK
  <1>4. CASE AliveCloseSocket
    BY <1>4 DEF AliveCloseSocket, CloseSocket, LifeOK
  <1>5. CASE PumpOnce
    BY <1>5 DEF PumpOnce, LifeOK
  <1>6. CASE ExecStart \/ ExecDrain \/ ExecLock \/ ExecWrite \/ ExecReceive
           \/ ExecClosed \/ ExecTimeout \/ OwnerClose \/ AliveTick \/
           AliveLock \/ AliveWrite \/ AliveStop \/ PumpRead \/
           PumpReadFails \/ PumpDeliver \/ PumpCloseCh \/ Net
    BY <1>6
    DEF ExecStart, ExecDrain, ExecLock, Lock, ExecWrite, ExecEnds,
        ExecReceive, ExecClosed, ExecTimeout, OwnerClose, AliveTick,
        AliveLock, AliveWrite, AliveStop, PumpRead, PumpReadFails,
        PumpDeliver, PumpCloseCh, Net, ServerReply, BreakRead, BreakWrite,
        BlockWrite, UnblockWrite, LifeOK, lifeVars
  <1>7. CASE UNCHANGED vars
    BY <1>7 DEF vars, LifeOK, lifeVars
  <1> QED
    BY <1>1, <1>2, <1>3, <1>4, <1>5, <1>6, <1>7
    DEF Next, Exec, Owner, Alive, Pump

LEMMA CallsStep ==
  ASSUME CallsOK, ChannelOK, [Next]_vars
  PROVE  CallsOK'
  <1>1. CASE ExecStart
    BY <1>1, BoundsAssumption DEF ExecStart, CallsOK, Queries, Status
  <1>2. CASE ExecWrite
    BY <1>2 DEF ExecWrite, ExecEnds, CallsOK, Queries, Status, callVars
  <1>3. CASE ExecReceive
    <2>1. Head(msgCh) \in Message
      BY <1>3, TailFacts DEF ExecReceive, ChannelOK
    <2> QED
      BY <1>3, <2>1 DEF ExecReceive, ExecEnds, CallsOK, Queries, Status
  <1>4. CASE ExecClosed
    BY <1>4 DEF ExecClosed, ExecEnds, CallsOK, Queries, Status, callVars
  <1>5. CASE ExecTimeout
    BY <1>5 DEF ExecTimeout, ExecEnds, CallsOK, Queries, Status, callVars
  <1>6. CASE ExecDrain \/ ExecLock \/ OwnerClose \/ OwnerCloseOnce \/
           OwnerCloseSocket \/ AliveTick \/ AliveLock \/ AliveWrite \/
           AliveCloseOnce \/ AliveCloseSocket \/ AliveStop \/ PumpRead \/
           PumpReadFails \/ PumpDeliver \/ PumpOnce \/ PumpCloseCh \/ Net
    BY <1>6
    DEF ExecDrain, ExecLock, Lock, OwnerClose, OwnerCloseOnce, CloseOnce,
        OwnerCloseSocket, CloseSocket, AliveTick, AliveLock, AliveWrite,
        AliveCloseOnce, AliveCloseSocket, AliveStop, PumpRead,
        PumpReadFails, PumpDeliver, PumpOnce, PumpCloseCh, Net,
        ServerReply, BreakRead, BreakWrite, BlockWrite, UnblockWrite,
        CallsOK, callVars
  <1>7. CASE UNCHANGED vars
    BY <1>7 DEF vars, CallsOK, callVars
  <1> QED
    BY <1>1, <1>2, <1>3, <1>4, <1>5, <1>6, <1>7
    DEF Next, Exec, Owner, Alive, Pump

LEMMA ChannelStep ==
  ASSUME ControlOK, ChannelOK, WireOK, [Next]_vars
  PROVE  ChannelOK'
  <1> USE DEF ChannelOK, ControlOK, Goto, Threads
  <1>1. CASE ExecDrain
    <2>1. msgCh' \in Seq(Message) /\ Len(msgCh') <= Cap
      BY <1>1, BoundsAssumption, TailFacts DEF ExecDrain
    <2>2. UNCHANGED <<chClosed, held>> /\ pc'["pump"] = pc["pump"]
      BY <1>1 DEF ExecDrain
    <2> QED
      BY <2>1, <2>2
  <1>2. CASE ExecReceive
    <2>1. msgCh' \in Seq(Message) /\ Len(msgCh') <= Cap
      BY <1>2, BoundsAssumption, TailFacts DEF ExecReceive
    <2>2. UNCHANGED <<chClosed, held>> /\ pc'["pump"] = pc["pump"]
      BY <1>2 DEF ExecReceive, ExecEnds
    <2> QED
      BY <2>1, <2>2
  <1>3. CASE PumpRead
    <2>1. held' \in Message
      BY <1>3, TailFacts DEF PumpRead, WireOK
    <2>2. UNCHANGED chVars /\ pc'["pump"] = "deliver"
      BY <1>3 DEF PumpRead
    <2> QED
      BY <2>1, <2>2 DEF chVars
  <1>4. CASE PumpDeliver
    <2>1. held \in Message
      BY <1>4 DEF PumpDeliver
    <2>2. msgCh' \in Seq(Message) /\ Len(msgCh') <= Cap
      BY <1>4, <2>1, BoundsAssumption, AppendFacts DEF PumpDeliver
    <2>3. held' = None /\ UNCHANGED chClosed /\ pc'["pump"] # "deliver"
      BY <1>4 DEF PumpDeliver
    <2> QED
      BY <2>2, <2>3, NoneIsNoMessage
  <1>5. CASE PumpReadFails \/ PumpOnce \/ PumpCloseCh
    BY <1>5 DEF PumpReadFails, PumpOnce, PumpCloseCh, chVars
  <1>6. CASE Owner
    BY <1>6 DEF Owner, OwnerClose, OwnerCloseOnce, OwnerCloseSocket, CloseOnce, CloseSocket, chVars
  <1>7. CASE Alive
    BY <1>7 DEF Alive, AliveTick, AliveLock, Lock, AliveWrite, AliveCloseOnce,
                AliveCloseSocket, CloseOnce, CloseSocket, AliveStop, chVars
  <1>8. CASE ExecStart \/ ExecLock \/ ExecWrite \/ ExecClosed \/ ExecTimeout
    BY <1>8 DEF ExecStart, ExecLock, Lock, ExecWrite, ExecClosed, ExecTimeout, ExecEnds, chVars
  <1>9. CASE Net
    BY <1>9 DEF Net, ServerReply, BreakRead, BreakWrite, BlockWrite, UnblockWrite, chVars
  <1>10. CASE UNCHANGED vars
    BY <1>10 DEF vars, chVars
  <1> QED
    BY <1>1, <1>2, <1>3, <1>4, <1>5, <1>6, <1>7, <1>8, <1>9, <1>10
    DEF Next, Exec, Pump

LEMMA WireStep ==
  ASSUME CallsOK, ControlOK, WireOK, [Next]_vars
  PROVE  WireOK'
  <1> USE DEF WireOK
  <1>1. CASE ExecStart
    BY <1>1, BoundsAssumption DEF ExecStart, wireVars
  <1>2. CASE ExecWrite
    <2>1. cur \in Message
      BY DEF CallsOK, Message
    <2>2. toServer' \in Seq(Message)
      BY <1>2, <2>1, AppendFacts DEF ExecWrite
    <2> QED
      BY <1>2, <2>2 DEF ExecWrite
  <1>3. CASE AliveWrite
    <2>1. Beat \in Message
      BY BoundsAssumption DEF Beat, Message
    <2>2. toServer' \in Seq(Message)
      BY <1>3, <2>1, AppendFacts DEF AliveWrite
    <2>3. ticks' \in 0..MaxTicks
      BY <1>3, BoundsAssumption DEF AliveWrite
    <2> QED
      BY <1>3, <2>2, <2>3 DEF AliveWrite
  <1>4. CASE PumpRead
    <2>1. toClient' \in Seq(Message)
      BY <1>4, TailFacts DEF PumpRead
    <2> QED
      BY <1>4, <2>1 DEF PumpRead
  <1>5. CASE ServerReply
    <2>1. toServer' \in Seq(Message) /\ toClient' \in Seq(Message)
      BY <1>5, TailFacts, AppendFacts DEF ServerReply
    <2> QED
      BY <1>5, <2>1 DEF ServerReply
  <1>6. CASE BreakRead \/ BreakWrite \/ BlockWrite \/ UnblockWrite
    BY <1>6 DEF BreakRead, BreakWrite, BlockWrite, UnblockWrite
  <1>7. CASE ExecDrain \/ ExecLock \/ ExecReceive \/ ExecClosed \/ ExecTimeout \/ Owner
    BY <1>7 DEF ExecDrain, ExecLock, Lock, ExecReceive, ExecClosed, ExecTimeout, Owner,
                OwnerClose, OwnerCloseOnce, OwnerCloseSocket, CloseOnce, CloseSocket, wireVars
  <1>8. CASE AliveTick \/ AliveLock \/ AliveCloseOnce \/ AliveCloseSocket \/ AliveStop
    BY <1>8 DEF AliveTick, AliveLock, Lock, AliveCloseOnce, AliveCloseSocket,
                CloseOnce, CloseSocket, AliveStop, wireVars
  <1>9. CASE PumpReadFails \/ PumpDeliver \/ PumpOnce \/ PumpCloseCh
    BY <1>9 DEF PumpReadFails, PumpDeliver, PumpOnce, PumpCloseCh, wireVars
  <1>10. CASE UNCHANGED vars
    BY <1>10 DEF vars, wireVars
  <1> QED
    BY <1>1, <1>2, <1>3, <1>4, <1>5, <1>6, <1>7, <1>8, <1>9, <1>10
    DEF Next, Exec, Alive, Pump, Net

LEMMA NextTypeOK == TypeOK /\ [Next]_vars => TypeOK'
  BY ControlStep, CallsStep, ChannelStep, LifeStep, WireStep DEF TypeOK

\* Type correctness of the session, the capacity of msgCh included.
THEOREM TypeCorrect == Spec => []TypeOK
  BY InitTypeOK, NextTypeOK, PTL DEF Spec
-----------------------------------------------------------------------------
(* errClosed comes from dead sessions only.                                 *)

DeadInv ==
  /\ ClosedMeansDead
  /\ pc["pump"] \in {"closeCh", "exit"} => done

LEMMA DoneStays ==
  ASSUME LifeOK, [Next]_vars
  PROVE  done => done'
  <1>1. CASE Exec
    BY <1>1 DEF Exec, ExecStart, ExecDrain, ExecLock, Lock, ExecWrite, ExecReceive,
                ExecClosed, ExecTimeout, lifeVars
  <1>2. CASE Owner
    BY <1>2 DEF Owner, OwnerClose, OwnerCloseOnce, OwnerCloseSocket, CloseOnce,
                CloseSocket, lifeVars
  <1>3. CASE Alive
    BY <1>3 DEF Alive, AliveTick, AliveLock, Lock, AliveWrite, AliveCloseOnce,
                AliveCloseSocket, CloseOnce, CloseSocket, AliveStop, lifeVars
  <1>4. CASE Pump
    BY <1>4 DEF Pump, PumpRead, PumpReadFails, PumpDeliver, PumpOnce, PumpCloseCh, lifeVars
  <1>5. CASE Net
    BY <1>5 DEF Net, ServerReply, BreakRead, BreakWrite, BlockWrite, UnblockWrite, lifeVars
  <1>6. CASE UNCHANGED vars
    BY <1>6 DEF vars, lifeVars
  <1> QED
    BY <1>1, <1>2, <1>3, <1>4, <1>5, <1>6 DEF Next

LEMMA DeadStep ==
  ASSUME TypeOK, DeadInv, [Next]_vars
  PROVE  DeadInv'
  <1> USE DEF DeadInv, ClosedMeansDead
  <1>1. done => done'
    BY DoneStays DEF TypeOK
  <1>2. CASE PumpOnce
    <2>1. done' /\ UNCHANGED <<status, chClosed>>
      BY <1>2 DEF PumpOnce, callVars, chVars
    <2> QED
      BY <2>1
  <1>3. CASE PumpCloseCh
    <2>1. pc["pump"] = "closeCh" /\ UNCHANGED <<status, done>>
      BY <1>3 DEF PumpCloseCh, Goto, callVars, lifeVars
    <2> QED
      BY <2>1
  <1>4. CASE ExecClosed
    <2>1. done /\ UNCHANGED <<chClosed, done>>
      BY <1>4 DEF ExecClosed, chVars, lifeVars
    <2> QED
      BY <2>1
  <1>5. CASE ~PumpOnce /\ ~PumpCloseCh /\ ~ExecClosed
    <2>1. UNCHANGED chClosed
      BY <1>5 DEF Next, Exec, Owner, Alive, Pump, Net, ExecStart, ExecDrain, ExecLock,
        Lock, ExecWrite, ExecReceive, ExecTimeout, OwnerClose, OwnerCloseOnce,
        OwnerCloseSocket, CloseOnce, CloseSocket, AliveTick, AliveLock, AliveWrite,
        AliveCloseOnce, AliveCloseSocket, AliveStop, PumpRead, PumpReadFails,
        PumpDeliver, ServerReply, BreakRead, BreakWrite, BlockWrite, UnblockWrite,
        chVars, vars
    <2>2. \A q \in Queries : status'[q] = "closed" => status[q] = "closed"
      BY <1>5 DEF Next, Exec, Owner, Alive, Pump, Net, ExecStart, ExecDrain, ExecLock,
        Lock, ExecWrite, ExecReceive, ExecTimeout, ExecEnds, OwnerClose, OwnerCloseOnce,
        OwnerCloseSocket, CloseOnce, CloseSocket, AliveTick, AliveLock, AliveWrite,
        AliveCloseOnce, AliveCloseSocket, AliveStop, PumpRead, PumpReadFails,
        PumpDeliver, ServerReply, BreakRead, BreakWrite, BlockWrite, UnblockWrite,
        callVars, vars, TypeOK, CallsOK
    <2>3. pc'["pump"] \in {"closeCh", "exit"} => pc["pump"] \in {"closeCh", "exit"}
      BY <1>5 DEF Next, Exec, Owner, Alive, Pump, Net, ExecStart, ExecDrain, ExecLock,
        Lock, ExecWrite, ExecReceive, ExecTimeout, ExecEnds, OwnerClose, OwnerCloseOnce,
        OwnerCloseSocket, CloseOnce, CloseSocket, AliveTick, AliveLock, AliveWrite,
        AliveCloseOnce, AliveCloseSocket, AliveStop, PumpRead, PumpReadFails,
        PumpDeliver, ServerReply, BreakRead, BreakWrite, BlockWrite, UnblockWrite,
        Goto, vars, TypeOK, ControlOK, Threads
    <2> QED
      BY <1>1, <2>1, <2>2, <2>3
  <1> QED
    BY <1>2, <1>3, <1>4, <1>5

\* errClosed, from done or from the closed msgCh, comes from dead sessions
\* only: a caller that gets it finds IsDead() true and rebuilds the session.
THEOREM ClosedSessionsAreDead == Spec => []ClosedMeansDead
  <1>1. Init => DeadInv
    BY DEF Init, DeadInv, ClosedMeansDead, Queries, Threads
  <1>2. TypeOK /\ DeadInv /\ [Next]_vars => DeadInv'
    BY DeadStep
  <1>3. DeadInv => ClosedMeansDead
    BY DEF DeadInv
  <1> QED
    BY <1>1, <1>2, <1>3, TypeCorrect, PTL DEF Spec

-----------------------------------------------------------------------------
(* The results in flight, from the channel back to the server's queue, are   *)
(* in the order of their queries, and above every result handed out.         *)

Results(s) == {s[i] : i \in 1..Len(s)} \ {Beat}
InHand     == {held} \ {Beat, None}

Sorted(s) ==
  \A i, j \in 1..Len(s) : i < j /\ s[i] # Beat /\ s[j] # Beat => s[i] < s[j]

Below(X, Y) == \A x \in X, y \in Y : x < y

InFlight ==
  UNION {Results(msgCh), InHand, Results(toClient), Results(toServer)}

OrderInv ==
  /\ Sorted(msgCh) /\ Sorted(toClient) /\ Sorted(toServer)
  /\ Below(Results(msgCh), InHand)
  /\ Below(Results(msgCh), Results(toClient))
  /\ Below(Results(msgCh), Results(toServer))
  /\ Below(InHand, Results(toClient))
  /\ Below(InHand, Results(toServer))
  /\ Below(Results(toClient), Results(toServer))

\* Only the latest call can be running, and later ones have not begun.
CallInv ==
  /\ pc["exec"] \in {"drain", "lock", "write", "read"} =>
       cur \in Queries /\ status[cur] = "running"
  /\ \A q \in Queries : q > cur => status[q] = "none"

\* A result in flight is the one Exec waits for, or a call that was not later
\* has been abandoned; and a query is not in flight before it is written.
FlightInv ==
  \A m \in InFlight :
    /\ m \in 1..cur
    /\ \A q \in Queries : answer[q] < m
    /\ pc["exec"] \in {"drain", "lock", "write"} => m < cur
    /\ (m = cur /\ pc["exec"] = "read") \/ \E p \in 1..m : Abandoned(p)

\* Only a call that got a result has one, and never that of a later query.
ResultInv ==
  \A q \in Queries :
    /\ answer[q] <= q
    /\ status[q] # "result" => answer[q] = 0

AnswerInv == CallInv /\ OrderInv /\ FlightInv /\ ResultInv /\ AnswersOwnUntilAbandoned

LEMMA ResultsOfTail ==
  ASSUME NEW s \in Seq(Message), s # <<>>
  PROVE  /\ Results(Tail(s)) \subseteq Results(s)
         /\ Head(s) # Beat => Head(s) \in Results(s)
         /\ Sorted(s) => Sorted(Tail(s))
         /\ Sorted(s) /\ Head(s) # Beat => \A m \in Results(Tail(s)) : Head(s) < m
  <1>1. /\ Len(s) \in Nat \ {0}
        /\ Len(Tail(s)) = Len(s) - 1
        /\ Head(s) = s[1]
        /\ \A i \in 1..Len(Tail(s)) : Tail(s)[i] = s[i + 1]
    OBVIOUS
  <1>2. Results(Tail(s)) \subseteq Results(s)
    BY <1>1 DEF Results
  <1>3. Head(s) # Beat => Head(s) \in Results(s)
    BY <1>1 DEF Results
  <1>4. Sorted(s) => Sorted(Tail(s))
    BY <1>1 DEF Sorted
  <1>5. Sorted(s) /\ Head(s) # Beat => \A m \in Results(Tail(s)) : Head(s) < m
    BY <1>1 DEF Sorted, Results
  <1> QED
    BY <1>2, <1>3, <1>4, <1>5

LEMMA ResultsOfAppend ==
  ASSUME NEW s \in Seq(Message), NEW e \in Message
  PROVE  /\ Results(Append(s, e)) = Results(s) \cup ({e} \ {Beat})
         /\ Sorted(s) /\ (\A m \in Results(s) : e # Beat => m < e)
              => Sorted(Append(s, e))
  <1>1. /\ Len(s) \in Nat
        /\ Len(Append(s, e)) = Len(s) + 1
        /\ \A i \in 1..Len(s) : Append(s, e)[i] = s[i]
        /\ Append(s, e)[Len(s) + 1] = e
    OBVIOUS
  <1>2. Results(Append(s, e)) = Results(s) \cup ({e} \ {Beat})
    BY <1>1 DEF Results
  <1>3. ASSUME Sorted(s), \A m \in Results(s) : e # Beat => m < e
        PROVE  Sorted(Append(s, e))
    BY <1>1, <1>3 DEF Sorted, Results
  <1> QED
    BY <1>2, <1>3

\* What every step but the seven that move messages leaves alone.
LEMMA QuietSteps ==
  ASSUME [Next]_vars, ~ExecDrain, ~ExecWrite, ~ExecReceive, ~AliveWrite,
         ~PumpRead, ~PumpDeliver, ~ServerReply
  PROVE  UNCHANGED <<msgCh, held, toClient, toServer>>
  BY DEF Next, Exec, Owner, Alive, Pump, Net, ExecStart, ExecLock, Lock, ExecClosed,
     ExecTimeout, ExecEnds, OwnerClose, OwnerCloseOnce, OwnerCloseSocket, CloseOnce,
     CloseSocket, AliveTick, AliveLock, AliveCloseOnce, AliveCloseSocket, AliveStop,
     PumpReadFails, PumpOnce, PumpCloseCh, BreakRead, BreakWrite, BlockWrite,
     UnblockWrite, vars, chVars, wireVars

LEMMA InFlightIs ==
  /\ \A m : m \in InFlight <=> \/ m \in Results(msgCh) \/ m \in InHand
                              \/ m \in Results(toClient) \/ m \in Results(toServer)
  /\ \A m : m \in InFlight' <=> \/ m \in Results(msgCh)' \/ m \in InHand'
                               \/ m \in Results(toClient)' \/ m \in Results(toServer)'
  BY DEF InFlight

LEMMA ResultsAreMessages ==
  ASSUME NEW s \in Seq(Message) PROVE Results(s) \subseteq Message \ {Beat}
  BY DEF Results

\* Messages move along the pipes without overtaking, and the only result a
\* step adds to those in flight is that of the query Exec writes.
LEMMA OrderStep ==
  ASSUME TypeOK, OrderInv, FlightInv, [Next]_vars
  PROVE  /\ OrderInv'
         /\ \A m \in InFlight' :
              m \in InFlight \/ (m = cur /\ ExecWrite /\ pc'["exec"] = "read")
  <1> USE DEF TypeOK, ChannelOK, WireOK
  <1>t. /\ msgCh \in Seq(Message) /\ toClient \in Seq(Message) /\ toServer \in Seq(Message)
        /\ Beat \in Message
    BY BoundsAssumption DEF Beat, Message
  <1>1. CASE ExecDrain \/ ExecReceive
    <2>1. UNCHANGED <<held, toClient, toServer>>
      BY <1>1 DEF ExecDrain, ExecReceive, wireVars
    <2>2. msgCh' = msgCh \/ (msgCh # <<>> /\ msgCh' = Tail(msgCh))
      BY <1>1 DEF ExecDrain, ExecReceive
    <2>3. Results(msgCh)' \subseteq Results(msgCh) /\ Sorted(msgCh)'
      BY <2>2, <1>t, ResultsOfTail DEF OrderInv
    <2>4. /\ InHand' = InHand
          /\ Results(toClient)' = Results(toClient) /\ Results(toServer)' = Results(toServer)
          /\ Sorted(toClient)' = Sorted(toClient) /\ Sorted(toServer)' = Sorted(toServer)
      BY <2>1 DEF InHand
    <2>5. OrderInv'
      BY <2>3, <2>4 DEF OrderInv, Below
    <2> QED
      BY <2>3, <2>4, <2>5, InFlightIs
  <1>2. CASE PumpRead
    <2>1. /\ UNCHANGED <<msgCh, toServer>> /\ toClient # <<>>
          /\ held' = Head(toClient) /\ toClient' = Tail(toClient)
      BY <1>2 DEF PumpRead, chVars
    <2>2. /\ Results(toClient)' \subseteq Results(toClient) /\ Sorted(toClient)'
          /\ InHand' \subseteq Results(toClient)
          /\ Below(InHand', Results(toClient)')
      BY <2>1, <1>t, ResultsOfTail DEF OrderInv, InHand, Below
    <2>3. /\ Results(msgCh)' = Results(msgCh) /\ Results(toServer)' = Results(toServer)
          /\ Sorted(msgCh)' = Sorted(msgCh) /\ Sorted(toServer)' = Sorted(toServer)
      BY <2>1
    <2>4. OrderInv'
      BY <2>2, <2>3 DEF OrderInv, Below
    <2> QED
      BY <2>2, <2>3, <2>4, InFlightIs
  <1>3. CASE PumpDeliver
    <2>1. /\ UNCHANGED <<toClient, toServer>> /\ held' = None /\ held \in Message
          /\ msgCh' = msgCh \/ msgCh' = Append(msgCh, held)
      BY <1>3 DEF PumpDeliver, Goto, wireVars
    <2>2. InHand' = {} /\ InHand = {held} \ {Beat}
      BY <2>1, NoneIsNoMessage DEF InHand
    <2>3. /\ Results(msgCh)' \subseteq Results(msgCh) \cup InHand
          /\ Sorted(msgCh)'
      BY <2>1, <2>2, <1>t, ResultsOfAppend DEF OrderInv, Below
    <2>4. /\ Results(toClient)' = Results(toClient) /\ Results(toServer)' = Results(toServer)
          /\ Sorted(toClient)' = Sorted(toClient) /\ Sorted(toServer)' = Sorted(toServer)
      BY <2>1
    <2>5. OrderInv'
      BY <2>2, <2>3, <2>4 DEF OrderInv, Below
    <2> QED
      BY <2>2, <2>3, <2>4, <2>5, InFlightIs
  <1>4. CASE ServerReply
    <2>1. /\ UNCHANGED <<msgCh, held>> /\ toServer # <<>>
          /\ toServer' = Tail(toServer) /\ toClient' = Append(toClient, Head(toServer))
      BY <1>4 DEF ServerReply, chVars
    <2>2. Head(toServer) \in Message
      BY <2>1, <1>t, TailFacts
    <2>3. /\ Results(toServer)' \subseteq Results(toServer) /\ Sorted(toServer)'
          /\ Results(toClient)' = Results(toClient) \cup ({Head(toServer)} \ {Beat})
          /\ {Head(toServer)} \ {Beat} \subseteq Results(toServer)
          /\ Below({Head(toServer)} \ {Beat}, Results(toServer)')
      BY <2>1, <2>2, <1>t, ResultsOfTail, ResultsOfAppend DEF OrderInv, Below
    <2>4. Sorted(toClient)'
      BY <2>1, <2>2, <2>3, <1>t, ResultsOfAppend DEF OrderInv, Below
    <2>5. /\ Results(msgCh)' = Results(msgCh) /\ InHand' = InHand
          /\ Sorted(msgCh)' = Sorted(msgCh)
      BY <2>1 DEF InHand
    <2>6. OrderInv'
      BY <2>3, <2>4, <2>5 DEF OrderInv, Below
    <2> QED
      BY <2>3, <2>5, <2>6, InFlightIs
  <1>5. CASE ExecWrite \/ AliveWrite
    <2>1. UNCHANGED <<msgCh, held, toClient>>
      BY <1>5 DEF ExecWrite, AliveWrite, chVars
    <2>2. PICK e \in Message :
            /\ toServer' = toServer \/ toServer' = Append(toServer, e)
            /\ e = Beat \/ (/\ e = cur /\ ExecWrite /\ pc["exec"] = "write"
                            /\ toServer' # toServer => pc'["exec"] = "read")
      BY <1>5, <1>t DEF ExecWrite, ExecEnds, AliveWrite, Goto, ControlOK, Threads,
                        CallsOK, Message
    <2>3. e # Beat => \A m \in InFlight : m < e
      BY <2>2 DEF FlightInv
    <2>4. \A m \in Results(toServer) : e # Beat => m < e
      BY <2>3, InFlightIs
    <2>5. /\ Results(toServer)' = Results(toServer)
             \/ Results(toServer)' = Results(toServer) \cup ({e} \ {Beat})
          /\ Sorted(toServer)'
      BY <2>2, <2>4, <1>t, ResultsOfAppend DEF OrderInv
    <2>6. /\ Results(msgCh)' = Results(msgCh) /\ InHand' = InHand
          /\ Sorted(msgCh)' = Sorted(msgCh)
          /\ Results(toClient)' = Results(toClient) /\ Sorted(toClient)' = Sorted(toClient)
      BY <2>1 DEF InHand
    <2>7. OrderInv'
      BY <2>3, <2>5, <2>6, InFlightIs DEF OrderInv, Below
    <2>8. \A m \in InFlight' : m \in InFlight \/ (toServer' # toServer /\ m = e /\ e # Beat)
      BY <2>1, <2>5, <2>6, InFlightIs
    <2> QED
      BY <2>2, <2>7, <2>8
  <1>6. CASE UNCHANGED <<msgCh, held, toClient, toServer>>
    <2>1. /\ Results(msgCh)' = Results(msgCh) /\ InHand' = InHand
          /\ Results(toClient)' = Results(toClient) /\ Results(toServer)' = Results(toServer)
          /\ Sorted(msgCh)' = Sorted(msgCh)
          /\ Sorted(toClient)' = Sorted(toClient) /\ Sorted(toServer)' = Sorted(toServer)
      BY <1>6 DEF InHand
    <2> QED
      BY <2>1, InFlightIs DEF OrderInv
  <1> QED
    BY <1>1, <1>2, <1>3, <1>4, <1>5, <1>6, QuietSteps

\* Steps that are not Exec's leave the calls, and Exec's place in one, alone.
LEMMA OthersLeaveCalls ==
  ASSUME ControlOK, Alive \/ Pump \/ Net \/ UNCHANGED vars
  PROVE  UNCHANGED callVars /\ pc'["exec"] = pc["exec"]
  <1>1. CASE Alive
    BY <1>1 DEF Alive, AliveTick, AliveLock, Lock, AliveWrite, AliveCloseOnce,
                AliveCloseSocket, CloseOnce, CloseSocket, AliveStop, Goto, ControlOK, Threads
  <1>2. CASE Pump
    BY <1>2 DEF Pump, PumpRead, PumpReadFails, PumpDeliver, PumpOnce, PumpCloseCh,
                Goto, ControlOK, Threads
  <1>3. CASE Net
    BY <1>3 DEF Net, ServerReply, BreakRead, BreakWrite, BlockWrite, UnblockWrite
  <1>4. CASE UNCHANGED vars
    BY <1>4 DEF vars
  <1> QED
    BY <1>1, <1>2, <1>3, <1>4

LEMMA OwnerLeavesCalls ==
  ASSUME ControlOK, Owner
  PROVE  UNCHANGED callVars /\ pc'["exec"] \in {"idle", "close", "sock"}
  BY DEF Owner, OwnerClose, OwnerCloseOnce, OwnerCloseSocket, CloseOnce, CloseSocket,
         Goto, ControlOK, Threads

\* How a call ends: it stops running, and no other call changes.
LEMMA EndsFacts ==
  ASSUME TypeOK, CallInv, NEW from \in {"write", "read"}, NEW how \in Status \ {"running", "none"},
         ExecEnds(from, how)
  PROVE  /\ pc["exec"] = from /\ pc'["exec"] = "idle" /\ cur \in Queries
         /\ status[cur] = "running" /\ status'[cur] = how
         /\ \A q \in Queries \ {cur} : status'[q] = status[q]
  BY DEF ExecEnds, Goto, TypeOK, ControlOK, CallsOK, CallInv, Threads

LEMMA CallStep ==
  ASSUME TypeOK, CallInv, [Next]_vars
  PROVE  CallInv'
  <1> USE DEF TypeOK, CallsOK
  <1>1. CASE Alive \/ Pump \/ Net \/ UNCHANGED vars
    BY <1>1, OthersLeaveCalls DEF CallInv, callVars
  <1>2. CASE Owner
    BY <1>2, OwnerLeavesCalls DEF CallInv, callVars
  <1>3. CASE ExecStart
    <2>1. cur' = cur + 1 /\ cur' \in Queries /\ status' = [status EXCEPT ![cur'] = "running"]
      BY <1>3, BoundsAssumption DEF ExecStart, Queries
    <2>2. \A q \in Queries : q > cur' => q > cur /\ q # cur'
      BY <2>1 DEF Queries
    <2> QED
      BY <2>1, <2>2 DEF CallInv
  <1>4. CASE ExecDrain \/ ExecLock
    <2>1. UNCHANGED callVars /\ pc["exec"] \in {"drain", "lock"}
      BY <1>4 DEF ExecDrain, ExecLock, Lock, Goto
    <2> QED
      BY <2>1 DEF CallInv, callVars
  <1>5. CASE ExecWrite
    <2>1. CASE UNCHANGED status
      BY <1>5, <2>1 DEF ExecWrite, ExecEnds, Goto, ControlOK, Threads, CallInv
    <2>2. CASE ExecEnds("write", "werr")
      <3>1. cur' = cur
        BY <1>5 DEF ExecWrite
      <3> QED
        BY <2>2, <3>1, EndsFacts DEF CallInv, Status, Queries
    <2> QED
      BY <1>5, <2>1, <2>2 DEF ExecWrite
  <1>6. CASE ExecReceive
    <2>0. cur' = cur
      BY <1>6 DEF ExecReceive
    <2>1. CASE UNCHANGED <<pc, status>>
      BY <2>0, <2>1 DEF CallInv
    <2>2. CASE ExecEnds("read", "result")
      BY <2>0, <2>2, EndsFacts DEF CallInv, Status, Queries
    <2> QED
      BY <1>6, <2>1, <2>2 DEF ExecReceive
  <1>7. CASE ExecClosed \/ ExecTimeout
    <2>0. cur' = cur
      BY <1>7 DEF ExecClosed, ExecTimeout
    <2>1. CASE ExecEnds("read", "closed")
      BY <2>0, <2>1, EndsFacts DEF CallInv, Status, Queries
    <2>2. CASE ExecEnds("read", "timeout")
      BY <2>0, <2>2, EndsFacts DEF CallInv, Status, Queries
    <2> QED
      BY <1>7, <2>1, <2>2 DEF ExecClosed, ExecTimeout
  <1> QED
    BY <1>1, <1>2, <1>3, <1>4, <1>5, <1>6, <1>7 DEF Next, Exec

\* A call that ends with a result takes the first one in the channel; what is
\* still in flight comes after it.
LEMMA ReceiveFacts ==
  ASSUME TypeOK, CallInv, OrderInv, FlightInv, [Next]_vars, ExecReceive, Head(msgCh) # Beat
  PROVE  /\ Head(msgCh) \in InFlight /\ cur' = cur
         /\ ExecEnds("read", "result") /\ answer' = [answer EXCEPT ![cur] = Head(msgCh)]
         /\ \A m \in InFlight' : m \in InFlight /\ Head(msgCh) < m
  <1>1. /\ cur' = cur /\ ExecEnds("read", "result") /\ msgCh # <<>>
        /\ answer' = [answer EXCEPT ![cur] = Head(msgCh)] /\ msgCh' = Tail(msgCh)
        /\ UNCHANGED <<held, toClient, toServer>>
    BY DEF ExecReceive, wireVars
  <1>2. /\ Head(msgCh) \in Results(msgCh)
        /\ \A m \in Results(msgCh)' : Head(msgCh) < m /\ m \in Results(msgCh)
    BY <1>1, ResultsOfTail DEF OrderInv, TypeOK, ChannelOK
  <1>3. /\ InHand' = InHand
        /\ Results(toClient)' = Results(toClient) /\ Results(toServer)' = Results(toServer)
    BY <1>1 DEF InHand
  <1> QED
    BY <1>1, <1>2, <1>3, InFlightIs DEF OrderInv, Below

LEMMA FlightStep ==
  ASSUME TypeOK, CallInv, OrderInv, FlightInv, ResultInv, [Next]_vars
  PROVE  FlightInv'
  <1> SUFFICES ASSUME NEW m \in InFlight'
               PROVE  /\ m \in 1..cur'
                      /\ \A q \in Queries : answer'[q] < m
                      /\ pc'["exec"] \in {"drain", "lock", "write"} => m < cur'
                      /\ (m = cur' /\ pc'["exec"] = "read") \/ \E p \in 1..m : Abandoned(p)'
    BY DEF FlightInv
  <1>0. m \in InFlight \/ (m = cur /\ ExecWrite /\ pc'["exec"] = "read")
    BY OrderStep
  <1>q. cur \in 0..MaxQuery /\ MaxQuery \in Nat
    BY BoundsAssumption DEF TypeOK, CallsOK
  <1>i. m \in InFlight =>
          /\ m \in 1..cur
          /\ \A q \in Queries : answer[q] < m
          /\ pc["exec"] \in {"drain", "lock", "write"} => m < cur
          /\ (m = cur /\ pc["exec"] = "read") \/ \E p \in 1..m : Abandoned(p)
    BY DEF FlightInv
  <1>1. CASE Alive \/ Pump \/ Net \/ UNCHANGED vars
    <2>1. UNCHANGED callVars /\ pc'["exec"] = pc["exec"]
      BY <1>1, OthersLeaveCalls DEF TypeOK
    <2>2. ~ExecWrite
      BY <2>1 DEF ExecWrite, ExecEnds, Goto, TypeOK, ControlOK, Threads
    <2> QED
      BY <1>0, <1>i, <2>1, <2>2 DEF callVars, Abandoned
  <1>2. CASE Owner
    <2>1. UNCHANGED callVars /\ pc'["exec"] \in {"idle", "close", "sock"}
      BY <1>2, OwnerLeavesCalls DEF TypeOK
    <2>2. pc["exec"] \in {"idle", "close", "sock"}
      BY <1>2 DEF Owner, OwnerClose, OwnerCloseOnce, OwnerCloseSocket, CloseOnce, CloseSocket, Goto
    <2> QED
      BY <1>0, <1>i, <2>1, <2>2 DEF callVars, Abandoned
  <1>3. CASE ExecStart
    <2>1. /\ cur' = cur + 1 /\ pc["exec"] = "idle" /\ pc'["exec"] = "drain"
          /\ answer' = answer /\ status' = [status EXCEPT ![cur + 1] = "running"]
      BY <1>3 DEF ExecStart, Goto, TypeOK, ControlOK, Threads
    <2>2. m \in InFlight
      BY <1>0, <2>1
    <2>3. \A p \in 1..m : Abandoned(p) => Abandoned(p)'
      BY <1>q, <1>i, <2>1, <2>2 DEF Abandoned, TypeOK, CallsOK, Queries
    <2> QED
      BY <1>q, <1>i, <2>1, <2>2, <2>3
  <1>4. CASE ExecDrain \/ ExecLock
    <2>1. /\ UNCHANGED callVars /\ pc["exec"] \in {"drain", "lock"}
          /\ pc'["exec"] \in {"drain", "lock", "write"}
      BY <1>4 DEF ExecDrain, ExecLock, Lock, Goto, TypeOK, ControlOK, Threads
    <2> QED
      BY <1>0, <1>i, <2>1 DEF callVars, Abandoned
  <1>5. CASE ExecWrite
    <2>1. /\ cur' = cur /\ answer' = answer /\ pc["exec"] = "write"
          /\ pc'["exec"] \in {"read", "idle"}
      BY <1>5 DEF ExecWrite, ExecEnds, Goto, TypeOK, ControlOK, Threads
    <2>2. CASE m \in InFlight
      <3>1. m < cur /\ \E p \in 1..m : Abandoned(p)
        BY <1>i, <2>1, <2>2
      <3>2. \A p \in 1..m : Abandoned(p) => Abandoned(p)'
        BY <1>5, <1>q, <3>1, <1>i, <2>2
        DEF ExecWrite, ExecEnds, Abandoned, TypeOK, CallsOK, Queries
      <3> QED
        BY <1>i, <2>1, <2>2, <3>1, <3>2
    <2>3. CASE m = cur /\ pc'["exec"] = "read"
      <3>1. cur \in Queries /\ status[cur] = "running"
        BY <2>1 DEF CallInv
      <3>2. \A q \in Queries : answer[q] < cur
        BY <2>1, <3>1, <1>q DEF CallInv, ResultInv, Queries, TypeOK, CallsOK, Message
      <3> QED
        BY <2>1, <2>3, <3>1, <3>2, <1>q DEF Queries
    <2> QED
      BY <1>0, <2>2, <2>3
  <1>6. CASE ExecReceive /\ Head(msgCh) = Beat
    <2>1. UNCHANGED callVars /\ UNCHANGED pc
      BY <1>6 DEF ExecReceive, callVars
    <2>2. m \in InFlight
      BY <1>0, <1>6, <2>1 DEF ExecReceive, ExecWrite, ExecEnds, Goto, TypeOK, ControlOK, Threads
    <2> QED
      BY <1>i, <2>1, <2>2 DEF callVars, Abandoned
  <1>7. CASE ExecReceive /\ Head(msgCh) # Beat
    <2> DEFINE h == Head(msgCh)
    <2>1. /\ h \in InFlight /\ cur' = cur /\ ExecEnds("read", "result")
          /\ answer' = [answer EXCEPT ![cur] = h] /\ m \in InFlight /\ h < m
      BY <1>7, ReceiveFacts
    <2>2. /\ pc'["exec"] = "idle" /\ cur \in Queries /\ status[cur] = "running"
          /\ \A q \in Queries \ {cur} : status'[q] = status[q]
      BY <2>1, EndsFacts DEF Status
    <2>3. \A q \in Queries : answer'[q] < m
      BY <1>i, <2>1, <2>2 DEF TypeOK, CallsOK
    <2>4. h \in 1..cur /\ m \in 1..cur /\ h # cur
      BY <1>i, <2>1, <1>q DEF FlightInv
    <2>5. PICK p \in 1..h : Abandoned(p)
      BY <2>1, <2>4 DEF FlightInv
    <2>6. p \in 1..m /\ Abandoned(p)'
      BY <2>1, <2>2, <2>4, <2>5, <1>q DEF Abandoned, Queries
    <2> QED
      BY <1>i, <2>1, <2>2, <2>3, <2>6
  <1>8. CASE ExecClosed \/ ExecTimeout
    <2>1. /\ cur' = cur /\ answer' = answer
          /\ ExecEnds("read", "closed") \/ ExecEnds("read", "timeout")
      BY <1>8 DEF ExecClosed, ExecTimeout
    <2>2. /\ pc["exec"] = "read" /\ pc'["exec"] = "idle" /\ cur \in Queries
          /\ status'[cur] \in {"timeout", "closed"}
          /\ \A q \in Queries \ {cur} : status'[q] = status[q]
      BY <2>1, EndsFacts DEF Status
    <2>3. m \in InFlight
      BY <1>0, <2>2
    <2>4. \E p \in 1..m : Abandoned(p)'
      <3>1. CASE m = cur
        BY <3>1, <2>2, <2>3, <1>i, <1>q DEF Abandoned
      <3>2. CASE m # cur
        <4>1. PICK p \in 1..m : Abandoned(p)
          BY <3>2, <2>3, <1>i
        <4>2. p \in Queries \ {cur}
          BY <4>1, <3>2, <2>3, <1>i, <1>q DEF Queries
        <4> QED
          BY <4>1, <4>2, <2>2 DEF Abandoned
      <3> QED
        BY <3>1, <3>2
    <2> QED
      BY <1>i, <2>1, <2>2, <2>3, <2>4
  <1> QED
    BY <1>1, <1>2, <1>3, <1>4, <1>5, <1>6, <1>7, <1>8 DEF Next, Exec

LEMMA ResultStep ==
  ASSUME TypeOK, CallInv, OrderInv, FlightInv, ResultInv, [Next]_vars
  PROVE  ResultInv'
  <1> USE DEF ResultInv, TypeOK, CallsOK
  <1>1. CASE Alive \/ Pump \/ Net \/ UNCHANGED vars
    BY <1>1, OthersLeaveCalls DEF callVars
  <1>2. CASE Owner
    BY <1>2, OwnerLeavesCalls DEF callVars
  <1>3. CASE ExecStart
    BY <1>3, BoundsAssumption DEF ExecStart, CallInv, Queries
  <1>4. CASE ExecDrain \/ ExecLock
    BY <1>4 DEF ExecDrain, ExecLock, Lock, callVars
  <1>5. CASE ExecWrite \/ ExecClosed \/ ExecTimeout
    <2>1. answer' = answer
      BY <1>5 DEF ExecWrite, ExecClosed, ExecTimeout
    <2>2. \A q \in Queries : status'[q] # "result" => status[q] # "result"
      BY <1>5, EndsFacts DEF ExecWrite, ExecClosed, ExecTimeout, Status
    <2> QED
      BY <2>1, <2>2
  <1>6. CASE ExecReceive /\ Head(msgCh) = Beat
    BY <1>6 DEF ExecReceive
  <1>7. CASE ExecReceive /\ Head(msgCh) # Beat
    <2>1. /\ Head(msgCh) \in InFlight /\ cur' = cur /\ ExecEnds("read", "result")
          /\ answer' = [answer EXCEPT ![cur] = Head(msgCh)]
      BY <1>7, ReceiveFacts
    <2>2. /\ cur \in Queries /\ status'[cur] = "result"
          /\ \A q \in Queries \ {cur} : status'[q] = status[q]
      BY <2>1, EndsFacts DEF Status
    <2>3. Head(msgCh) <= cur
      BY <2>1 DEF FlightInv
    <2> QED
      BY <2>1, <2>2, <2>3
  <1> QED
    BY <1>1, <1>2, <1>3, <1>4, <1>5, <1>6, <1>7 DEF Next, Exec

\* A call that has its result is behind the one Exec works on, if any.
LEMMA ResultsAreBehind ==
  ASSUME TypeOK, CallInv, NEW q \in Queries, status[q] = "result"
  PROVE  q <= cur /\ (pc["exec"] \in {"drain", "lock", "write", "read"} => q < cur)
  BY BoundsAssumption DEF TypeOK, CallsOK, CallInv, Queries

\* Steps that hand out no result keep the results, and which of the calls
\* before them were abandoned.
LEMMA EndedKeep ==
  ASSUME TypeOK, CallInv, [Next]_vars, ~(ExecReceive /\ Head(msgCh) # Beat),
         NEW q \in Queries, status'[q] = "result"
  PROVE  /\ status[q] = "result" /\ answer' = answer
         /\ \A p \in 1..(q - 1) : status'[p] = status[p]
  <1> USE DEF TypeOK, CallsOK
  <1>q. MaxQuery \in Nat
    BY BoundsAssumption
  <1>1. CASE Alive \/ Pump \/ Net \/ UNCHANGED vars
    BY <1>1, OthersLeaveCalls DEF callVars
  <1>2. CASE Owner
    BY <1>2, OwnerLeavesCalls DEF callVars
  <1>3. CASE ExecStart
    <2>1. status' = [status EXCEPT ![cur + 1] = "running"] /\ answer' = answer
      BY <1>3 DEF ExecStart
    <2>2. status[q] = "result" /\ q <= cur
      BY <2>1, ResultsAreBehind
    <2> QED
      BY <2>1, <2>2, <1>q DEF Queries
  <1>4. CASE ExecDrain \/ ExecLock \/ (ExecReceive /\ Head(msgCh) = Beat)
    BY <1>4 DEF ExecDrain, ExecLock, Lock, ExecReceive, callVars
  <1>5. CASE ExecWrite /\ UNCHANGED status
    BY <1>5 DEF ExecWrite
  <1>6. ASSUME NEW from \in {"write", "read"}, NEW how \in {"werr", "closed", "timeout"},
               ExecEnds(from, how)
        PROVE  status[q] = "result" /\ \A p \in 1..(q - 1) : status'[p] = status[p]
    <2>1. /\ pc["exec"] = from /\ status'[cur] = how
          /\ \A p \in Queries \ {cur} : status'[p] = status[p]
      BY <1>6, EndsFacts DEF Status
    <2>2. status[q] = "result"
      BY <2>1
    <2>3. q < cur
      BY <2>1, <2>2, ResultsAreBehind
    <2> QED
      BY <2>1, <2>2, <2>3, <1>q DEF Queries
  <1>7. CASE ExecWrite /\ ~UNCHANGED status
    BY <1>6, <1>7 DEF ExecWrite
  <1>8. CASE ExecClosed \/ ExecTimeout
    BY <1>6, <1>8 DEF ExecClosed, ExecTimeout
  <1> QED
    BY <1>1, <1>2, <1>3, <1>4, <1>5, <1>7, <1>8 DEF Next, Exec

LEMMA AnswersStep ==
  ASSUME TypeOK, AnswerInv, [Next]_vars
  PROVE  AnswersOwnUntilAbandoned'
  <1> USE DEF AnswerInv
  <1> SUFFICES ASSUME NEW q \in Queries, status'[q] = "result"
               PROVE  /\ answer'[q] \in 1..q
                      /\ (\A p \in 1..(q - 1) : ~Abandoned(p)') => answer'[q] = q
                      /\ \A p \in 1..(q - 1) :
                           status'[p] = "result" => answer'[p] < answer'[q]
    BY DEF AnswersOwnUntilAbandoned
  <1>q. MaxQuery \in Nat /\ cur \in 0..MaxQuery
    BY BoundsAssumption DEF TypeOK, CallsOK
  <1>1. CASE ~(ExecReceive /\ Head(msgCh) # Beat)
    BY <1>1, EndedKeep DEF AnswersOwnUntilAbandoned, Abandoned
  <1>2. CASE ExecReceive /\ Head(msgCh) # Beat
    <2> DEFINE h == Head(msgCh)
    <2>1. /\ h \in InFlight /\ ExecEnds("read", "result")
          /\ answer' = [answer EXCEPT ![cur] = h]
      BY <1>2, ReceiveFacts
    <2>2. /\ pc["exec"] = "read" /\ cur \in Queries /\ status[cur] = "running"
          /\ \A p \in Queries \ {cur} : status'[p] = status[p]
      BY <2>1, EndsFacts DEF Status
    <2>3. \A p \in Queries \ {cur} : answer'[p] = answer[p]
      BY <2>1, <2>2 DEF TypeOK, CallsOK
    <2>4. CASE q = cur
      <3>1. /\ answer'[q] = h /\ h \in 1..q
            /\ \A p \in 1..(q - 1) : answer[p] < h /\ p \in Queries \ {cur}
        BY <2>1, <2>2, <2>4, <1>q DEF FlightInv, TypeOK, CallsOK, Queries
      <3>2. h = cur \/ \E p \in 1..(q - 1) : Abandoned(p)
        <4>1. h = cur \/ \E p \in 1..h : Abandoned(p)
          BY <2>1 DEF FlightInv
        <4>2. ~Abandoned(cur)
          BY <2>2 DEF Abandoned
        <4> QED
          BY <4>1, <4>2, <3>1, <2>4, <1>q DEF Queries
      <3> QED
        BY <2>2, <2>3, <2>4, <3>1, <3>2 DEF Abandoned
    <2>5. CASE q # cur
      <3>1. status[q] = "result" /\ q < cur
        BY <2>2, <2>5, ResultsAreBehind
      <3>2. \A p \in 1..q : p \in Queries \ {cur}
        BY <3>1, <1>q DEF Queries
      <3>3. \A p \in 1..q : status'[p] = status[p] /\ answer'[p] = answer[p]
        BY <3>2, <2>2, <2>3
      <3>4. q \in 1..q /\ \A p \in 1..(q - 1) : p \in 1..q
        BY <1>q DEF Queries
      <3> QED
        BY <3>1, <3>3, <3>4 DEF AnswersOwnUntilAbandoned, Abandoned
    <2> QED
      BY <2>4, <2>5
  <1> QED
    BY <1>1, <1>2

LEMMA InitAnswerInv == Init => AnswerInv
  <1> SUFFICES ASSUME Init PROVE AnswerInv
    OBVIOUS
  <1>1. Results(msgCh) = {} /\ Results(toClient) = {} /\ Results(toServer) = {} /\ InHand = {}
    BY DEF Init, Results, InHand
  <1>2. OrderInv
    BY <1>1 DEF Init, OrderInv, Sorted, Below
  <1>3. FlightInv
    BY <1>1, InFlightIs DEF FlightInv
  <1>4. CallInv /\ ResultInv /\ AnswersOwnUntilAbandoned
    BY BoundsAssumption
    DEF Init, CallInv, ResultInv, AnswersOwnUntilAbandoned, Queries, Threads
  <1> QED
    BY <1>2, <1>3, <1>4 DEF AnswerInv

\* Until a call on the session is abandoned, every Exec that returns a result
\* returns that of its own query; after it, results still come in the order of
\* the queries, each at most once and none before its query.
THEOREM AnswersCorrect == Spec => []AnswersOwnUntilAbandoned
  <1>1. TypeOK /\ AnswerInv /\ [Next]_vars => AnswerInv'
    BY CallStep, OrderStep, FlightStep, ResultStep, AnswersStep DEF AnswerInv
  <1>2. AnswerInv => AnswersOwnUntilAbandoned
    BY DEF AnswerInv
  <1> QED
    BY InitAnswerInv, <1>1, <1>2, TypeCorrect, PTL DEF Spec

-----------------------------------------------------------------------------
(* WsSession implements SessionContract.                                    *)

\* Only the call Exec works on is running.
RunningInv ==
  \A q \in Queries : status[q] = "running" =>
    q = cur /\ pc["exec"] \in {"drain", "lock", "write", "read"}

LEMMA RunningStep ==
  ASSUME TypeOK, CallInv, RunningInv, [Next]_vars
  PROVE  RunningInv'
  <1> USE DEF RunningInv
  <1>1. CASE Alive \/ Pump \/ Net \/ UNCHANGED vars
    BY <1>1, OthersLeaveCalls DEF callVars, TypeOK
  <1>2. CASE Owner
    <2>1. UNCHANGED callVars
      BY <1>2, OwnerLeavesCalls DEF TypeOK
    <2>2. pc["exec"] \in {"idle", "close", "sock"}
      BY <1>2 DEF Owner, OwnerClose, OwnerCloseOnce, OwnerCloseSocket, CloseOnce, CloseSocket, Goto
    <2> QED
      BY <2>1, <2>2 DEF callVars
  <1>3. CASE ExecStart
    <2>1. /\ pc["exec"] = "idle" /\ pc'["exec"] = "drain" /\ cur' = cur + 1
          /\ status' = [status EXCEPT ![cur + 1] = "running"]
      BY <1>3 DEF ExecStart, Goto, TypeOK, ControlOK, Threads
    <2>2. \A q \in Queries : status[q] # "running"
      BY <2>1
    <2> QED
      BY <2>1, <2>2 DEF TypeOK, CallsOK
  <1>4. CASE ExecDrain \/ ExecLock \/ (ExecWrite /\ UNCHANGED status)
             \/ (ExecReceive /\ Head(msgCh) = Beat)
    <2>1. UNCHANGED <<cur, status>>
      BY <1>4 DEF ExecDrain, ExecLock, Lock, ExecWrite, ExecReceive, callVars
    <2>2. pc'["exec"] \in {"drain", "lock", "write", "read"} \/ (ExecWrite /\ pc'["exec"] = "idle")
      BY <1>4 DEF ExecDrain, ExecLock, Lock, ExecWrite, ExecEnds, ExecReceive, Goto,
                  TypeOK, ControlOK, Threads
    <2>3. ~(ExecWrite /\ pc'["exec"] = "idle" /\ UNCHANGED status)
      <3> SUFFICES ASSUME ExecEnds("write", "werr"), UNCHANGED status PROVE FALSE
        BY DEF ExecWrite, Goto, TypeOK, ControlOK, Threads
      <3> QED
        BY EndsFacts DEF Status
    <2> QED
      BY <1>4, <2>1, <2>2, <2>3
  <1>5. ASSUME NEW from \in {"write", "read"},
               NEW how \in {"werr", "closed", "timeout", "result"},
               ExecEnds(from, how), cur' = cur
        PROVE  RunningInv'
    <2>1. /\ status'[cur] = how
          /\ \A q \in Queries \ {cur} : status'[q] = status[q]
      BY <1>5, EndsFacts DEF Status
    <2> QED
      BY <1>5, <2>1
  <1>6. CASE \/ ExecWrite /\ ~UNCHANGED status
             \/ ExecReceive /\ Head(msgCh) # Beat
             \/ ExecClosed \/ ExecTimeout
    <2>1. cur' = cur /\ \E from \in {"write", "read"}, how \in {"werr", "closed", "timeout", "result"} :
            ExecEnds(from, how)
      BY <1>6 DEF ExecWrite, ExecReceive, ExecClosed, ExecTimeout
    <2> QED
      BY <1>5, <2>1
  <1> QED
    BY <1>1, <1>2, <1>3, <1>4, <1>6 DEF Next, Exec

LEMMA StepImplements ==
  ASSUME TypeOK, AnswerInv, DeadInv, RunningInv, [Next]_vars
  PROVE  [Contract!Next]_(Contract!vars)
  <1> USE DEF AnswerInv, Contract!vars
  <1>q. cur \in 0..MaxQuery /\ MaxQuery \in Nat
    BY BoundsAssumption DEF TypeOK, CallsOK
  <1>1. CASE UNCHANGED <<callVars, done>>
    BY <1>1 DEF callVars
  <1>2. CASE UNCHANGED callVars /\ ~UNCHANGED done
    <2>1. done' = TRUE \/ done' = done
      BY DEF Next, Exec, Owner, Alive, Pump, Net, ExecStart, ExecDrain, ExecLock, Lock,
             ExecWrite, ExecReceive, ExecClosed, ExecTimeout, OwnerClose, OwnerCloseOnce,
             OwnerCloseSocket, CloseOnce, CloseSocket, AliveTick, AliveLock, AliveWrite,
             AliveCloseOnce, AliveCloseSocket, AliveStop, PumpRead, PumpReadFails,
             PumpDeliver, PumpOnce, PumpCloseCh, ServerReply, BreakRead, BreakWrite,
             BlockWrite, UnblockWrite, lifeVars, vars
    <2>2. done' = TRUE /\ ~done
      BY <1>2, <2>1 DEF TypeOK, LifeOK
    <2> QED
      BY <1>2, <2>2 DEF callVars, Contract!Next, Contract!Die
  <1>3. CASE ExecStart
    <2>1. ~Contract!Running
      <3> SUFFICES ASSUME Contract!Running PROVE FALSE
        OBVIOUS
      <3>1. cur \in Queries /\ status[cur] = "running"
        BY <1>q DEF Contract!Running, Queries
      <3> QED
        BY <3>1, <1>3 DEF RunningInv, ExecStart, Goto
    <2> QED
      BY <1>3, <2>1 DEF ExecStart, lifeVars, Contract!Next, Contract!Ask
  <1>4. ASSUME NEW from \in {"write", "read"}, NEW how \in Status \ {"running", "none"},
               ExecEnds(from, how)
        PROVE  /\ Contract!Running /\ cur \in Queries /\ ~Abandoned(cur)
               /\ status' = [status EXCEPT ![cur] = how]
    <2>1. cur \in Queries /\ status[cur] = "running"
      BY <1>4, EndsFacts
    <2>2. Contract!Running /\ ~Abandoned(cur)
      BY <2>1, <1>q DEF Contract!Running, Queries, Abandoned
    <2> QED
      BY <1>4, <2>1, <2>2 DEF ExecEnds
  <1>5. CASE ExecWrite /\ ~UNCHANGED status
    <2>1. ExecEnds("write", "werr") /\ UNCHANGED <<cur, answer, done>>
      BY <1>5 DEF ExecWrite, lifeVars
    <2> QED
      BY <1>4, <2>1 DEF Status, Contract!Next, Contract!Fail
  <1>6. CASE ExecTimeout
    <2>1. ExecEnds("read", "timeout") /\ UNCHANGED <<cur, answer, done>>
      BY <1>6 DEF ExecTimeout, lifeVars
    <2> QED
      BY <1>4, <2>1 DEF Status, Contract!Next, Contract!Fail
  <1>7. CASE ExecClosed
    <2>1. ExecEnds("read", "closed") /\ UNCHANGED <<cur, answer, done>> /\ done
      BY <1>7 DEF ExecClosed, lifeVars, DeadInv, ClosedMeansDead
    <2> QED
      BY <1>4, <2>1 DEF Status, Contract!Next, Contract!FailClosed
  <1>8. CASE ExecReceive /\ Head(msgCh) # Beat
    <2> DEFINE h == Head(msgCh)
    <2>1. /\ h \in InFlight /\ cur' = cur /\ ExecEnds("read", "result")
          /\ answer' = [answer EXCEPT ![cur] = h] /\ done' = done
      BY <1>8, ReceiveFacts DEF ExecReceive, lifeVars
    <2>2. /\ Contract!Running /\ cur \in Queries /\ ~Abandoned(cur)
          /\ status' = [status EXCEPT ![cur] = "result"]
      BY <1>4, <2>1 DEF Status
    <2>3. h \in 1..cur /\ \A q \in Queries : answer[q] < h
      BY <2>1 DEF FlightInv
    <2>4. h = cur \/ \E q \in 1..(cur - 1) : Abandoned(q)
      <3>1. h = cur \/ \E q \in 1..h : Abandoned(q)
        BY <2>1 DEF FlightInv
      <3> QED
        BY <3>1, <2>2, <2>3, <1>q
    <2>5. Contract!Answer(h)
      BY <2>1, <2>2, <2>3, <2>4, <1>q DEF Contract!Answer, Contract!Queries, Queries, Abandoned
    <2>6. h \in Contract!Queries
      BY <2>3, <1>q DEF Contract!Queries
    <2> QED
      BY <2>5, <2>6 DEF Contract!Next
  <1>9. \/ UNCHANGED callVars \/ ExecStart \/ (ExecWrite /\ ~UNCHANGED status) \/ ExecTimeout
        \/ ExecClosed \/ (ExecReceive /\ Head(msgCh) # Beat)
    <2>1. CASE Alive \/ Pump \/ Net \/ UNCHANGED vars
      BY <2>1, OthersLeaveCalls DEF TypeOK
    <2>2. CASE Owner
      BY <2>2, OwnerLeavesCalls DEF TypeOK
    <2>3. CASE ExecDrain \/ ExecLock \/ ExecWrite \/ ExecReceive
      BY <2>3 DEF ExecDrain, ExecLock, Lock, ExecWrite, ExecReceive, callVars
    <2> QED
      BY <2>1, <2>2, <2>3 DEF Next, Exec
  <1> QED
    BY <1>1, <1>2, <1>3, <1>5, <1>6, <1>7, <1>8, <1>9

\* Every behaviour of the connection, its three goroutines and the network is
\* one SessionContract allows: the outcomes of Exec and IsDead() that the handler
\* sees are those of the contract.
THEOREM Implementation == Spec => ImplementsContract
  <1>1. Init => RunningInv /\ DeadInv /\ Contract!Init
    BY DEF Init, RunningInv, DeadInv, ClosedMeansDead, Threads, Contract!Init,
           Queries, Contract!Queries
  <1>2. TypeOK /\ AnswerInv /\ [Next]_vars => AnswerInv'
    BY CallStep, OrderStep, FlightStep, ResultStep, AnswersStep DEF AnswerInv
  <1>3. TypeOK /\ DeadInv /\ [Next]_vars => DeadInv'
    BY DeadStep
  <1>4. TypeOK /\ AnswerInv /\ RunningInv /\ [Next]_vars => RunningInv'
    BY RunningStep DEF AnswerInv
  <1>5. TypeOK /\ AnswerInv /\ DeadInv /\ RunningInv /\ [Next]_vars
          => [Contract!Next]_(Contract!vars)
    BY StepImplements
  <1> QED
    BY <1>1, <1>2, <1>3, <1>4, <1>5, InitAnswerInv, TypeCorrect, PTL
    DEF Spec, ImplementsContract, Contract!Spec

-----------------------------------------------------------------------------
(* Counting messages.                                                       *)

Places(s, S) == {i \in 1..Len(s) : s[i] \in S}

LEMMA PlacesFinite ==
  ASSUME NEW M, NEW s \in Seq(M), NEW S
  PROVE  IsFiniteSet(Places(s, S)) /\ Count(s, S) \in Nat /\ Count(s, S) = Cardinality(Places(s, S))
  <1>1. IsFiniteSet(1..Len(s)) /\ Places(s, S) \in SUBSET (1..Len(s))
    BY FS_Interval DEF Places
  <1>2. IsFiniteSet(Places(s, S))
    BY <1>1, FS_Subset
  <1>3. Count(s, S) = Cardinality(Places(s, S))
    BY DEF Count, Places
  <1> QED
    BY <1>2, <1>3, FS_CardinalityType

LEMMA CountOfNothing ==
  ASSUME NEW S
  PROVE  Count(<<>>, S) = 0
  <1>1. {i \in 1..Len(<<>>) : <<>>[i] \in S} = {}
    OBVIOUS
  <1> QED
    BY <1>1, FS_EmptySet DEF Count

LEMMA CountOfAppend ==
  ASSUME NEW M, NEW s \in Seq(M), NEW e \in M, NEW S
  PROVE  Count(Append(s, e), S) = Count(s, S) + (IF e \in S THEN 1 ELSE 0)
  <1> DEFINE n == Len(s) + 1
  <1>1. /\ Append(s, e) \in Seq(M) /\ Len(s) \in Nat /\ Len(Append(s, e)) = n
        /\ Append(s, e)[n] = e /\ \A i \in 1..Len(s) : Append(s, e)[i] = s[i]
    OBVIOUS
  <1>2. Places(Append(s, e), S) = Places(s, S) \cup (IF e \in S THEN {n} ELSE {})
    BY <1>1 DEF Places
  <1>3. n \notin Places(s, S)
    BY <1>1 DEF Places
  <1>4. /\ IsFiniteSet(Places(s, S)) /\ Count(s, S) = Cardinality(Places(s, S))
        /\ Count(Append(s, e), S) = Cardinality(Places(Append(s, e), S))
    BY <1>1, PlacesFinite
  <1>5. CASE e \in S
    <2>1. Cardinality(Places(s, S) \cup {n}) = Cardinality(Places(s, S)) + 1
      BY <1>3, <1>4, FS_AddElement
    <2> QED
      BY <1>2, <1>4, <1>5, <2>1
  <1>6. CASE e \notin S
    <2>1. Places(Append(s, e), S) = Places(s, S)
      BY <1>2, <1>6
    <2>2. Count(s, S) \in Nat
      BY PlacesFinite
    <2> QED
      BY <1>4, <1>6, <2>1, <2>2
  <1> QED
    BY <1>5, <1>6

LEMMA CountOfTail ==
  ASSUME NEW M, NEW s \in Seq(M), s # <<>>, NEW S
  PROVE  Count(s, S) = Count(Tail(s), S) + (IF Head(s) \in S THEN 1 ELSE 0)
  <1> DEFINE later == Places(s, S) \ {1}
             f == [i \in Places(Tail(s), S) |-> i + 1]
  <1>1. /\ Tail(s) \in Seq(M) /\ Len(s) \in Nat \ {0} /\ Len(Tail(s)) = Len(s) - 1
        /\ Head(s) = s[1] /\ \A i \in 1..Len(Tail(s)) : Tail(s)[i] = s[i + 1]
    OBVIOUS
  <1>2. \A i \in Places(Tail(s), S) : i \in Nat /\ i + 1 \in later
    BY <1>1 DEF Places
  <1>3. ASSUME NEW j \in later PROVE j - 1 \in Places(Tail(s), S) /\ j = (j - 1) + 1
    BY <1>1 DEF Places
  <1>4. f \in Bijection(Places(Tail(s), S), later)
    <2>1. f \in [Places(Tail(s), S) -> later]
      BY <1>2
    <2>2. \A i, j \in Places(Tail(s), S) : f[i] = f[j] => i = j
      BY <1>2
    <2>3. \A j \in later : \E i \in Places(Tail(s), S) : f[i] = j
      BY <1>3
    <2> HIDE DEF f, later
    <2> QED
      BY <2>1, <2>2, <2>3, Fun_IsBij
  <1>5. Cardinality(later) = Cardinality(Places(Tail(s), S))
    <2>1. ExistsBijection(Places(Tail(s), S), later)
      BY <1>4 DEF ExistsBijection
    <2> QED
      BY <1>1, <2>1, PlacesFinite, FS_Bijection
  <1> HIDE DEF later, f
  <1>6. /\ IsFiniteSet(Places(s, S)) /\ Count(s, S) = Cardinality(Places(s, S)) /\ Count(s, S) \in Nat
        /\ Count(Tail(s), S) = Cardinality(Places(Tail(s), S))
    BY <1>1, PlacesFinite
  <1>7. CASE Head(s) \in S
    <2>1. 1 \in Places(s, S)
      BY <1>1, <1>7 DEF Places
    <2>2. Cardinality(later) = Cardinality(Places(s, S)) - 1
      BY <1>6, <2>1, FS_RemoveElement DEF later
    <2> QED
      BY <1>5, <1>6, <1>7, <2>2
  <1>8. CASE Head(s) \notin S
    <2>1. later = Places(s, S)
      BY <1>1, <1>8 DEF Places, later
    <2> QED
      BY <1>5, <1>6, <1>8, <2>1
  <1> QED
    BY <1>7, <1>8

\* Every message is a beat or a result.
LEMMA BeatsAndResults ==
  ASSUME NEW s \in Seq(Message)
  PROVE  Len(s) = Count(s, {Beat}) + Count(s, Queries)
  <1>1. Message = {Beat} \cup Queries /\ Beat \notin Queries
    BY BoundsAssumption DEF Message, Beat, Queries
  <1>2. /\ Places(s, {Beat}) \cup Places(s, Queries) = 1..Len(s)
        /\ Places(s, {Beat}) \cap Places(s, Queries) = {}
    BY <1>1 DEF Places
  <1>3. Cardinality(1..Len(s)) = Len(s)
    <2>1. Len(s) \in Nat
      OBVIOUS
    <2>2. Cardinality(1..Len(s)) = IF 1 > Len(s) THEN 0 ELSE Len(s) - 1 + 1
      BY <2>1, FS_Interval
    <2> QED
      BY <2>1, <2>2
  <1>4. Cardinality({}) = 0
    BY FS_EmptySet
  <1>5. /\ IsFiniteSet(Places(s, {Beat})) /\ IsFiniteSet(Places(s, Queries))
        /\ Count(s, {Beat}) = Cardinality(Places(s, {Beat})) /\ Count(s, {Beat}) \in Nat
        /\ Count(s, Queries) = Cardinality(Places(s, Queries)) /\ Count(s, Queries) \in Nat
    BY PlacesFinite
  <1>6. Cardinality(Places(s, {Beat}) \cup Places(s, Queries))
          = Cardinality(Places(s, {Beat})) + Cardinality(Places(s, Queries))
              - Cardinality(Places(s, {Beat}) \cap Places(s, Queries))
    BY <1>5, FS_Union
  <1>7. Cardinality(Places(s, {Beat}) \cup Places(s, Queries)) = Len(s)
    BY <1>2, <1>3
  <1>8. Cardinality(Places(s, {Beat}) \cap Places(s, Queries)) = 0
    BY <1>2, <1>4
  <1> QED
    BY <1>5, <1>6, <1>7, <1>8

-----------------------------------------------------------------------------
(* Messages on the wire, and those in the channel with them.                *)

Traffic(S) == Count(msgCh, S) + OnWire(S)

LEMMA Counts ==
  ASSUME TypeOK, NEW S
  PROVE  /\ Count(msgCh, S) \in Nat /\ Count(toServer, S) \in Nat /\ Count(toClient, S) \in Nat
         /\ OnWire(S) \in Nat /\ Traffic(S) \in Nat
  <1>1. Count(msgCh, S) \in Nat /\ Count(toServer, S) \in Nat /\ Count(toClient, S) \in Nat
    BY PlacesFinite DEF TypeOK, ChannelOK, WireOK
  <1> QED
    BY <1>1 DEF OnWire, Traffic

LEMMA TailDiffers ==
  ASSUME NEW M, NEW s \in Seq(M), s # <<>>
  PROVE  Tail(s) # s
  <1> SUFFICES ASSUME Tail(s) = s PROVE FALSE
    OBVIOUS
  <1>1. Len(Tail(s)) = Len(s) - 1 /\ Len(s) \in Nat
    BY TailFacts
  <1>2. Len(Tail(s)) = Len(s)
    BY Zenon
  <1> QED
    BY <1>1, <1>2

\* The steps that put no message on the wire: none makes the traffic grow, and
\* a message that Exec receives is out of it.
LEMMA TrafficFalls ==
  ASSUME TypeOK, [Next]_vars, ~ExecWrite, ~AliveWrite, NEW S \in SUBSET Message
  PROVE  /\ OnWire(S)' <= OnWire(S)
         /\ Traffic(S)' <= Traffic(S)
         /\ ExecReceive => Traffic(S)' = Traffic(S) - (IF Head(msgCh) \in S THEN 1 ELSE 0)
  <1> DEFINE inHand == IF held \in S THEN 1 ELSE 0
             inHandNext == IF held' \in S THEN 1 ELSE 0
  <1>0. /\ OnWire(S) = Count(toServer, S) + Count(toClient, S) + inHand
        /\ OnWire(S)' = Count(toServer', S) + Count(toClient', S) + inHandNext
        /\ Traffic(S) = Count(msgCh, S) + OnWire(S)
        /\ Traffic(S)' = Count(msgCh', S) + OnWire(S)'
        /\ inHand \in Nat /\ inHandNext \in Nat
    BY DEF OnWire, Traffic
  <1>1. /\ Count(msgCh, S) \in Nat /\ Count(toServer, S) \in Nat /\ Count(toClient, S) \in Nat
        /\ msgCh \in Seq(Message) /\ toServer \in Seq(Message) /\ toClient \in Seq(Message)
        /\ OnWire(S) \in Nat
    BY Counts DEF TypeOK, ChannelOK, WireOK
  <1>n. /\ Count(msgCh', S) \in Nat /\ Count(toServer', S) \in Nat /\ Count(toClient', S) \in Nat
    <2>1. /\ msgCh' \in Seq(Message) /\ toServer' \in Seq(Message) /\ toClient' \in Seq(Message)
      BY NextTypeOK DEF TypeOK, ChannelOK, WireOK
    <2> QED
      BY <2>1, PlacesFinite
  <1>2. ExecReceive => msgCh' = Tail(msgCh) /\ msgCh # <<>> /\ UNCHANGED <<toServer, toClient, held>>
    BY DEF ExecReceive, wireVars
  <1>3. CASE msgCh' = Tail(msgCh) /\ msgCh # <<>> /\ UNCHANGED <<toServer, toClient, held>>
    <2> DEFINE received == IF Head(msgCh) \in S THEN 1 ELSE 0
    <2>1. Count(msgCh, S) = Count(msgCh', S) + received /\ received \in {0, 1}
      BY <1>1, <1>3, CountOfTail
    <2>2. OnWire(S)' = OnWire(S)
      BY <1>0, <1>3
    <2> HIDE DEF inHand, inHandNext, received
    <2>3. Traffic(S) = Count(msgCh, S) + OnWire(S) /\ Traffic(S)' = Count(msgCh', S) + OnWire(S)
      BY <1>0, <2>2
    <2>4. Traffic(S)' <= Traffic(S) /\ Traffic(S)' = Traffic(S) - received
      BY <1>1, <1>n, <2>1, <2>3
    <2> QED
      BY <1>1, <2>2, <2>4 DEF received
  <1>4. CASE PumpRead
    <2>1. /\ toClient # <<>> /\ toClient' = Tail(toClient) /\ held' = Head(toClient)
          /\ UNCHANGED <<msgCh, toServer>> /\ held \notin S
      BY <1>4 DEF PumpRead, Goto, chVars, TypeOK, ChannelOK
    <2>2. Count(toClient, S) = Count(toClient', S) + inHandNext /\ inHand = 0
      BY <1>1, <2>1, CountOfTail
    <2>3. Count(msgCh', S) = Count(msgCh, S) /\ Count(toServer', S) = Count(toServer, S)
      BY <2>1
    <2>4. ~ExecReceive
      BY <1>1, <1>2, <2>1, TailDiffers
    <2> HIDE DEF inHand, inHandNext
    <2> QED
      BY <1>0, <1>1, <1>n, <2>2, <2>3, <2>4
  <1>5. CASE PumpDeliver
    <2>1. /\ held \in Message /\ held' \notin Message /\ UNCHANGED <<toServer, toClient>>
          /\ msgCh' = Append(msgCh, held) \/ msgCh' = msgCh
      BY <1>5, NoneIsNoMessage DEF PumpDeliver, Goto, wireVars, TypeOK, ChannelOK
    <2>2. Count(Append(msgCh, held), S) = Count(msgCh, S) + inHand /\ inHandNext = 0
      BY <1>1, <2>1, CountOfAppend
    <2>3. Count(msgCh', S) = Count(msgCh, S) + inHand \/ Count(msgCh', S) = Count(msgCh, S)
      BY <2>1, <2>2
    <2>4. ~ExecReceive
      BY <1>2, <2>1
    <2>5. Count(toServer', S) = Count(toServer, S) /\ Count(toClient', S) = Count(toClient, S)
      BY <2>1
    <2> HIDE DEF inHand, inHandNext
    <2> QED
      BY <1>0, <1>1, <2>2, <2>3, <2>4, <2>5
  <1>6. CASE ServerReply
    <2>1. /\ toServer # <<>> /\ toServer' = Tail(toServer) /\ Head(toServer) \in Message
          /\ toClient' = Append(toClient, Head(toServer)) /\ UNCHANGED <<msgCh, held>>
      BY <1>1, <1>6 DEF ServerReply, chVars
    <2> DEFINE moved == IF Head(toServer) \in S THEN 1 ELSE 0
    <2>2. Count(toServer, S) = Count(toServer', S) + moved
      BY <1>1, <2>1, CountOfTail
    <2>3. Count(toClient', S) = Count(toClient, S) + moved
      BY <1>1, <2>1, CountOfAppend
    <2>4. Count(msgCh', S) = Count(msgCh, S) /\ moved \in Nat
      BY <2>1
    <2>5. ~ExecReceive /\ inHandNext = inHand
      BY <1>1, <1>2, <2>1, TailDiffers
    <2> HIDE DEF inHand, inHandNext, moved
    <2>6. OnWire(S)' = OnWire(S)
      BY <1>0, <1>1, <1>n, <2>2, <2>3, <2>4, <2>5
    <2> QED
      BY <1>0, <1>1, <1>n, <2>4, <2>5, <2>6
  <1>7. CASE UNCHANGED <<msgCh, held, toClient, toServer>>
    <2>1. ~ExecReceive
      BY <1>1, <1>2, <1>7, TailDiffers
    <2>2. Traffic(S)' = Traffic(S) /\ OnWire(S)' = OnWire(S)
      BY <1>0, <1>7
    <2> QED
      BY <1>0, <1>1, <2>1, <2>2
  <1>8. ExecDrain => /\ UNCHANGED <<held, toClient, toServer>>
                     /\ UNCHANGED msgCh \/ (msgCh' = Tail(msgCh) /\ msgCh # <<>>)
    BY DEF ExecDrain, wireVars
  <1> QED
    BY <1>2, <1>3, <1>4, <1>5, <1>6, <1>7, <1>8, QuietSteps

LEMMA CountsNext ==
  ASSUME TypeOK, [Next]_vars, NEW S
  PROVE  OnWire(S)' \in Nat /\ Traffic(S)' \in Nat
  <1>1. msgCh' \in Seq(Message) /\ toServer' \in Seq(Message) /\ toClient' \in Seq(Message)
    BY NextTypeOK DEF TypeOK, ChannelOK, WireOK
  <1>2. Count(msgCh', S) \in Nat /\ Count(toServer', S) \in Nat /\ Count(toClient', S) \in Nat
    BY <1>1, PlacesFinite
  <1>3. OnWire(S)' = Count(toServer', S) + Count(toClient', S) + (IF held' \in S THEN 1 ELSE 0)
    BY DEF OnWire
  <1>4. Traffic(S)' = Count(msgCh', S) + OnWire(S)'
    BY DEF Traffic
  <1> QED
    BY <1>2, <1>3, <1>4

\* A write puts one message on the wire.
LEMMA TrafficGrows ==
  ASSUME TypeOK, NEW m \in Message, NEW S, toServer' = Append(toServer, m),
         UNCHANGED <<msgCh, toClient, held>>
  PROVE  /\ OnWire(S)' = OnWire(S) + (IF m \in S THEN 1 ELSE 0)
         /\ Traffic(S)' = Traffic(S) + (IF m \in S THEN 1 ELSE 0)
  <1> DEFINE inHand == IF held \in S THEN 1 ELSE 0
             written == IF m \in S THEN 1 ELSE 0
  <1>1. /\ Count(msgCh, S) \in Nat /\ Count(toServer, S) \in Nat /\ Count(toClient, S) \in Nat
        /\ OnWire(S) \in Nat
    BY Counts
  <1>2. Count(toServer', S) = Count(toServer, S) + written
    BY CountOfAppend DEF TypeOK, WireOK
  <1>3. /\ OnWire(S) = Count(toServer, S) + Count(toClient, S) + inHand
        /\ OnWire(S)' = Count(toServer', S) + Count(toClient, S) + inHand
    BY DEF OnWire
  <1>4. Traffic(S) = Count(msgCh, S) + OnWire(S) /\ Traffic(S)' = Count(msgCh, S) + OnWire(S)'
    BY DEF Traffic
  <1>5. inHand \in Nat /\ written \in Nat
    OBVIOUS
  <1> HIDE DEF inHand, written
  <1>6. OnWire(S)' = OnWire(S) + written
    BY <1>1, <1>2, <1>3, <1>5
  <1> QED
    BY <1>1, <1>4, <1>5, <1>6 DEF written

\* No write, no change.
LEMMA TrafficStays ==
  ASSUME NEW S, UNCHANGED <<msgCh, toServer, toClient, held>>
  PROVE  OnWire(S)' = OnWire(S) /\ Traffic(S)' = Traffic(S)
  BY DEF OnWire, Traffic, Count

-----------------------------------------------------------------------------
(* The invariant.                                                           *)

AbandonedCalls == {q \in Queries : Abandoned(q)}

Own == IF pc["exec"] = "read" THEN 1 ELSE 0

\* There are MaxBeats beats on the wire at most; from the end of drainPending
\* on, which leaves the channel empty, only those sent since come to them; and
\* a result that is under way is the one Exec reads for or that of an
\* abandoned call, for each such call one at most.
RoomInv ==
  /\ OnWire({Beat}) <= MaxBeats
  /\ pc["exec"] \in {"lock", "write", "read"} => Traffic({Beat}) <= MaxBeats + ticks
  /\ Traffic(Queries) <= Cardinality(AbandonedCalls) + Own

LEMMA MessageSets == {Beat} \in SUBSET Message /\ Queries \in SUBSET Message /\ Beat \notin Queries
  BY BoundsAssumption DEF Message, Beat, Queries

LEMMA AbandonedFinite == IsFiniteSet(AbandonedCalls) /\ Cardinality(AbandonedCalls) \in Nat
  <1>1. IsFiniteSet(Queries) /\ AbandonedCalls \in SUBSET Queries
    BY BoundsAssumption, FS_Interval DEF AbandonedCalls, Queries
  <1>2. IsFiniteSet(AbandonedCalls)
    BY <1>1, FS_Subset
  <1> QED
    BY <1>2, FS_CardinalityType

GaveUp == {"timeout", "closed"}

LEMMA SameAbandoned ==
  ASSUME \A q \in Queries : status'[q] \in GaveUp <=> status[q] \in GaveUp
  PROVE  Cardinality(AbandonedCalls)' = Cardinality(AbandonedCalls)
  <1>1. AbandonedCalls' = AbandonedCalls
    BY DEF AbandonedCalls, Abandoned, GaveUp
  <1> QED
    BY <1>1

\* A call that is given up is one more.
LEMMA OneMoreAbandoned ==
  ASSUME cur \in Queries, status[cur] \notin GaveUp, status'[cur] \in GaveUp,
         \A q \in Queries \ {cur} : status'[q] = status[q]
  PROVE  Cardinality(AbandonedCalls)' = Cardinality(AbandonedCalls) + 1
  <1>1. AbandonedCalls' = AbandonedCalls \cup {cur} /\ cur \notin AbandonedCalls
    BY DEF AbandonedCalls, Abandoned, GaveUp
  <1>2. Cardinality(AbandonedCalls \cup {cur}) = Cardinality(AbandonedCalls) + 1
    BY <1>1, AbandonedFinite, FS_AddElement
  <1> QED
    BY <1>1, <1>2

LEMMA RoomStep ==
  ASSUME TypeOK, CallInv, RoomInv, [Next]_vars
  PROVE  RoomInv'
  <1> DEFINE wire == OnWire({Beat})
             beats == Traffic({Beat})
             results == Traffic(Queries)
             given == Cardinality(AbandonedCalls)
  <1>1. /\ wire \in Nat /\ beats \in Nat /\ results \in Nat /\ given \in Nat
        /\ wire' \in Nat /\ beats' \in Nat /\ results' \in Nat
        /\ MaxBeats \in Nat /\ ticks \in Nat
    BY Counts, CountsNext, AbandonedFinite, BoundsAssumption DEF TypeOK, WireOK
  <1>2. /\ wire <= MaxBeats
        /\ pc["exec"] \in {"lock", "write", "read"} => beats <= MaxBeats + ticks
        /\ results <= given + Own
    BY DEF RoomInv
  <1>3. ~ExecWrite /\ ~AliveWrite => wire' <= wire /\ beats' <= beats /\ results' <= results
    BY TrafficFalls, MessageSets
  \* A step that gives up no call and leaves the traffic alone or lets it fall.
  <1>4. ASSUME wire' <= wire, beats' <= beats, results' <= results, given' = given,
               pc'["exec"] = pc["exec"] \/ (pc["exec"] = "lock" /\ pc'["exec"] = "write"),
               ticks' = ticks
        PROVE  RoomInv'
    BY <1>1, <1>2, <1>4 DEF RoomInv, Own
  <1>5. UNCHANGED status => given' = given
    BY SameAbandoned
  <1>6. CASE AliveWrite
    <2>1. UNCHANGED callVars /\ pc'["exec"] = pc["exec"]
      BY <1>6, OthersLeaveCalls DEF TypeOK, Alive
    <2>2. UNCHANGED <<msgCh, toClient, held>>
      BY <1>6 DEF AliveWrite, chVars
    <2>3. CASE UNCHANGED <<toServer, ticks>>
      <3>1. wire' = wire /\ beats' = beats /\ results' = results
        BY <2>2, <2>3, TrafficStays
      <3> QED
        BY <1>1, <1>4, <1>5, <2>1, <2>3, <3>1 DEF callVars
    <2>4. CASE /\ BeatsOnWire < MaxBeats /\ toServer' = Append(toServer, Beat)
               /\ ticks' = IF pc["exec"] = "idle" THEN ticks ELSE ticks + 1
      <3>1. Beat \in Message
        BY BoundsAssumption DEF Beat, Message
      <3>2. wire' = wire + 1 /\ beats' = beats + 1 /\ results' = results + 0
        BY <2>2, <2>4, <3>1, TrafficGrows, MessageSets
      <3>3. wire < MaxBeats
        BY <2>4 DEF BeatsOnWire
      <3>4. given' = given
        BY <1>5, <2>1 DEF callVars
      <3> HIDE DEF wire, beats, results, given
      <3>5. /\ wire' <= MaxBeats
            /\ pc'["exec"] \in {"lock", "write", "read"} => beats' <= MaxBeats + ticks'
            /\ results' <= given' + Own
        BY <1>1, <1>2, <2>1, <2>4, <3>2, <3>3, <3>4
      <3> QED
        BY <2>1, <3>5 DEF RoomInv, Own, wire, beats, results, given
    <2> QED
      BY <1>6, <2>3, <2>4 DEF AliveWrite
  <1>7. CASE (Alive /\ ~AliveWrite) \/ Pump \/ Net \/ UNCHANGED vars
    <2>1. UNCHANGED callVars /\ pc'["exec"] = pc["exec"]
      BY <1>7, OthersLeaveCalls DEF TypeOK
    <2>2. ticks' = ticks
      BY <1>7 DEF Alive, AliveTick, AliveLock, Lock, AliveCloseOnce, AliveCloseSocket, CloseOnce,
                  CloseSocket, AliveStop, Pump, PumpRead, PumpReadFails, PumpDeliver, PumpOnce,
                  PumpCloseCh, Net, ServerReply, BreakRead, BreakWrite, BlockWrite, UnblockWrite, vars
    <2>3. CASE ExecWrite
      BY <2>1, <2>3 DEF ExecWrite, ExecEnds, Goto, TypeOK, ControlOK, Threads
    <2> QED
      BY <1>3, <1>4, <1>5, <1>6, <2>1, <2>2, <2>3 DEF callVars
  <1>8. ASSUME wire' <= wire, beats' <= beats, results' <= results, given' = given,
               pc["exec"] # "read", pc'["exec"] \notin {"lock", "write", "read"}
        PROVE  RoomInv'
    BY <1>1, <1>2, <1>8 DEF RoomInv, Own
  <1>9. CASE Owner
    <2>1. UNCHANGED status /\ pc'["exec"] \in {"idle", "close", "sock"}
      BY <1>9, OwnerLeavesCalls DEF TypeOK, callVars
    <2>2. pc["exec"] \in {"idle", "close", "sock"}
      BY <1>9 DEF Owner, OwnerClose, OwnerCloseOnce, OwnerCloseSocket, CloseOnce, CloseSocket, Goto
    <2>3. ~ExecWrite
      BY <2>2 DEF ExecWrite, ExecEnds, Goto
    <2> QED
      BY <1>3, <1>5, <1>6, <1>8, <2>1, <2>2, <2>3
  <1>10. CASE ExecStart
    <2>1. /\ pc["exec"] = "idle" /\ pc'["exec"] = "drain"
          /\ cur + 1 \in Queries /\ status' = [status EXCEPT ![cur + 1] = "running"]
      BY <1>10, BoundsAssumption DEF ExecStart, Goto, TypeOK, ControlOK, CallsOK, Threads, Queries
    <2>2. status[cur + 1] = "none"
      BY <2>1 DEF CallInv, TypeOK, CallsOK
    <2>3. given' = given
      BY <2>1, <2>2, SameAbandoned DEF GaveUp, TypeOK, CallsOK
    <2>4. ~ExecWrite
      BY <2>1 DEF ExecWrite, ExecEnds, Goto
    <2> QED
      BY <1>3, <1>6, <1>8, <2>1, <2>3, <2>4
  <1>11. CASE ExecDrain \/ ExecLock
    <2>1. /\ UNCHANGED <<status, ticks>> /\ pc["exec"] \in {"drain", "lock"}
          /\ \/ pc'["exec"] = pc["exec"]
             \/ pc["exec"] = "lock" /\ pc'["exec"] = "write"
             \/ /\ pc["exec"] = "drain" /\ pc'["exec"] = "lock" /\ msgCh = <<>>
                /\ UNCHANGED <<msgCh, held, toServer, toClient>>
      BY <1>11 DEF ExecDrain, ExecLock, Lock, Goto, callVars, wireVars, TypeOK, ControlOK, Threads
    <2>2. ~ExecWrite
      BY <2>1 DEF ExecWrite, ExecEnds, Goto
    <2>3. CASE pc["exec"] = "drain" /\ pc'["exec"] = "lock"
      <3>1. wire' = wire /\ beats' = beats /\ results' = results /\ given' = given
        BY <1>5, <2>1, <2>3, TrafficStays
      <3>2. beats = wire
        <4>1. Count(msgCh, {Beat}) = 0
          BY <2>1, <2>3, CountOfNothing
        <4> QED
          BY <1>1, <4>1 DEF Traffic
      <3> HIDE DEF wire, beats, results, given
      <3>3. /\ wire' <= MaxBeats
            /\ pc'["exec"] \in {"lock", "write", "read"} => beats' <= MaxBeats + ticks'
            /\ results' <= given' + 0
        BY <1>1, <1>2, <2>1, <2>3, <3>1, <3>2 DEF Own
      <3> QED
        BY <1>1, <2>3, <3>3 DEF RoomInv, Own, wire, beats, results, given
    <2> QED
      BY <1>3, <1>4, <1>5, <1>6, <2>1, <2>2, <2>3
  <1>12. CASE ExecWrite
    <2>1. /\ UNCHANGED <<msgCh, toClient, held, ticks>> /\ pc["exec"] = "write" /\ cur \in Queries
      BY <1>12 DEF ExecWrite, ExecEnds, Goto, chVars, CallInv
    <2>2. CASE pc'["exec"] = "read" /\ toServer' = Append(toServer, cur) /\ UNCHANGED status
      <3>1. cur \in Message /\ cur \notin {Beat}
        BY <2>1, MessageSets
      <3>2. wire' = wire + 0 /\ beats' = beats + 0 /\ results' = results + 1
        BY <2>1, <2>2, <3>1, TrafficGrows
      <3>3. given' = given
        BY <1>5, <2>2
      <3>4. Own = 0 /\ Own' = 1
        BY <2>1, <2>2 DEF Own
      <3> HIDE DEF wire, beats, results, given
      <3>5. /\ wire' <= MaxBeats
            /\ beats' <= MaxBeats + ticks'
            /\ results' <= given' + Own'
        BY <1>1, <1>2, <2>1, <3>2, <3>3, <3>4
      <3> QED
        BY <3>5 DEF RoomInv, wire, beats, results, given
    <2>3. CASE ExecEnds("write", "werr") /\ UNCHANGED toServer
      <3>1. /\ pc'["exec"] = "idle" /\ status[cur] = "running" /\ status'[cur] = "werr"
            /\ \A q \in Queries \ {cur} : status'[q] = status[q]
        BY <2>3, EndsFacts DEF Status
      <3>2. given' = given
        BY <3>1, SameAbandoned DEF GaveUp
      <3>3. wire' = wire /\ beats' = beats /\ results' = results
        BY <2>1, <2>3, TrafficStays
      <3> QED
        BY <1>1, <1>8, <2>1, <3>1, <3>2, <3>3
    <2> QED
      BY <1>12, <2>2, <2>3 DEF ExecWrite, Goto, TypeOK, ControlOK, Threads
  <1>13. CASE ExecReceive
    <2>1. (~ExecWrite /\ ~AliveWrite) \/ RoomInv'
      BY <1>6, <1>12
    <2>2. ticks' = ticks /\ pc["exec"] = "read" /\ cur' = cur
      BY <1>13 DEF ExecReceive
    <2>3. CASE UNCHANGED <<pc, status>>
      BY <1>3, <1>4, <1>5, <2>1, <2>2, <2>3
    <2>4. CASE Head(msgCh) # Beat /\ ExecEnds("read", "result") /\ ~ExecWrite /\ ~AliveWrite
      <3>1. /\ pc'["exec"] = "idle" /\ status[cur] = "running" /\ status'[cur] = "result"
            /\ \A q \in Queries \ {cur} : status'[q] = status[q]
        BY <2>4, EndsFacts DEF Status
      <3>2. given' = given
        BY <3>1, SameAbandoned DEF GaveUp
      <3>3. Head(msgCh) \in Queries
        <4>1. Head(msgCh) \in Message
          BY <1>13, TailFacts DEF ExecReceive, TypeOK, ChannelOK
        <4> QED
          BY <2>4, <4>1, BoundsAssumption DEF Message, Queries, Beat
      <3>4. results' = results - 1 /\ wire' <= wire
        BY <1>13, <2>4, <3>3, TrafficFalls, MessageSets
      <3>5. Own = 1 /\ Own' = 0
        BY <2>2, <3>1 DEF Own
      <3> HIDE DEF wire, beats, results, given
      <3>6. wire' <= MaxBeats /\ results' <= given' + Own'
        BY <1>1, <1>2, <3>2, <3>4, <3>5
      <3> QED
        BY <3>1, <3>6 DEF RoomInv, wire, beats, results, given
    <2> QED
      BY <1>13, <2>1, <2>3, <2>4 DEF ExecReceive
  <1>14. CASE ExecClosed \/ ExecTimeout
    <2>1. /\ UNCHANGED <<msgCh, held, toServer, toClient>>
          /\ ExecEnds("read", "closed") \/ ExecEnds("read", "timeout")
      BY <1>14 DEF ExecClosed, ExecTimeout, chVars, wireVars
    <2>2. /\ pc["exec"] = "read" /\ pc'["exec"] = "idle" /\ cur \in Queries
          /\ status[cur] = "running" /\ status'[cur] \in GaveUp
          /\ \A q \in Queries \ {cur} : status'[q] = status[q]
      BY <2>1, EndsFacts DEF Status, GaveUp
    <2>3. given' = given + 1
      BY <2>2, OneMoreAbandoned DEF GaveUp
    <2>4. wire' = wire /\ results' = results
      BY <2>1, TrafficStays
    <2>5. Own = 1 /\ Own' = 0
      BY <2>2 DEF Own
    <2> HIDE DEF wire, beats, results, given
    <2>6. wire' <= MaxBeats /\ results' <= given' + Own'
      BY <1>1, <1>2, <2>3, <2>4, <2>5
    <2> QED
      BY <2>2, <2>6 DEF RoomInv, wire, beats, results, given
  <1> QED
    BY <1>6, <1>7, <1>9, <1>10, <1>11, <1>12, <1>13, <1>14 DEF Next, Exec

-----------------------------------------------------------------------------
\* RoomInv is inductive, given the types and that the latest call only runs.
LEMMA RoomInvariant == Spec => [](TypeOK /\ CallInv /\ RoomInv)
  <1>1. ASSUME Init PROVE CallInv /\ RoomInv
    <2>1. CallInv
      BY <1>1, InitAnswerInv DEF AnswerInv
    <2>2. \A S : Count(msgCh, S) = 0 /\ Count(toServer, S) = 0 /\ Count(toClient, S) = 0
      BY <1>1, CountOfNothing DEF Init
    <2>3. held \notin {Beat} /\ held \notin Queries /\ pc["exec"] = "idle"
      BY <1>1, BoundsAssumption DEF Init, None, Beat, Queries, Threads
    <2>4. Traffic({Beat}) = 0 /\ OnWire({Beat}) = 0 /\ Traffic(Queries) = 0
      BY <2>2, <2>3 DEF Traffic, OnWire
    <2> QED
      BY <2>1, <2>3, <2>4, AbandonedFinite, BoundsAssumption DEF RoomInv, Own
  <1>2. TypeOK /\ CallInv /\ RoomInv /\ [Next]_vars => CallInv' /\ RoomInv'
    BY CallStep, RoomStep
  <1> QED
    BY <1>1, <1>2, InitTypeOK, TypeCorrect, PTL DEF Spec

\* What is in the channel when the pump holds the result Exec reads for.
LEMMA ChannelBound ==
  ASSUME TypeOK, CallInv, RoomInv, pc["exec"] = "read", held = cur
  PROVE  Len(msgCh) <= MaxBeats + MaxTicks + Cardinality(AbandonedCalls)
  <1> DEFINE given == Cardinality(AbandonedCalls)
  <1>1. /\ Count(msgCh, {Beat}) \in Nat /\ Count(msgCh, Queries) \in Nat /\ given \in Nat
        /\ OnWire({Beat}) \in Nat /\ Count(toServer, Queries) \in Nat /\ Count(toClient, Queries) \in Nat
        /\ MaxBeats \in Nat /\ MaxTicks \in Nat /\ ticks \in 0..MaxTicks
    BY Counts, AbandonedFinite, BoundsAssumption DEF TypeOK, WireOK
  <1>2. Len(msgCh) = Count(msgCh, {Beat}) + Count(msgCh, Queries)
    BY BeatsAndResults DEF TypeOK, ChannelOK
  <1>3. held \in Queries
    BY DEF CallInv
  <1>4. Traffic(Queries) = Count(msgCh, Queries) + (Count(toServer, Queries) + Count(toClient, Queries) + 1)
    BY <1>3 DEF Traffic, OnWire
  <1>5. Traffic(Queries) <= given + 1
    BY DEF RoomInv, Own
  <1>6. Traffic({Beat}) = Count(msgCh, {Beat}) + OnWire({Beat}) /\ Traffic({Beat}) <= MaxBeats + ticks
    BY DEF RoomInv, Traffic
  <1> HIDE DEF given
  <1>7. Count(msgCh, Queries) <= given
    BY <1>1, <1>4, <1>5
  <1>8. Count(msgCh, {Beat}) <= MaxBeats + MaxTicks
    BY <1>1, <1>6
  <1> QED
    BY <1>1, <1>2, <1>7, <1>8 DEF given

\* A capacity that holds the beats on the wire when Exec starts reading, those
\* of the pings sent while it runs and one result of each call given up before
\* is enough: the awaited result is never dropped, however many calls there
\* have been on the session.
THEOREM RoomSuffices ==
  Spec => [](MaxBeats + MaxTicks + Cardinality(AbandonedCalls) < Cap => AwaitedResultHasRoom)
  <1>1. TypeOK /\ CallInv /\ RoomInv =>
          (MaxBeats + MaxTicks + Cardinality(AbandonedCalls) < Cap => AwaitedResultHasRoom)
    <2> SUFFICES ASSUME TypeOK, CallInv, RoomInv, pc["exec"] = "read", held = cur,
                        MaxBeats + MaxTicks + Cardinality(AbandonedCalls) < Cap
                 PROVE  Len(msgCh) < Cap
      BY DEF AwaitedResultHasRoom
    <2>1. Len(msgCh) \in Nat
      BY DEF TypeOK, ChannelOK
    <2> QED
      BY <2>1, ChannelBound, AbandonedFinite, BoundsAssumption
  <1> QED
    BY <1>1, RoomInvariant, PTL
===============================================================================
