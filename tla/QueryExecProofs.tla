---------------------------- MODULE QueryExecProofs ----------------------------
(***************************************************************************)
(* Proofs about QueryExec, for every list of targets, any concurrency and  *)
(* any number of sessions. In order: what a step can be; types; the phase  *)
(* of the connection and the semaphore; the session table; the reconnect.  *)
(***************************************************************************)
EXTENDS QueryExec, SetFacts, TLAPS

-----------------------------------------------------------------------------
(* Facts about the constants.                                               *)

LEMMA WorkerFacts ==
  /\ Workers \in SUBSET (Nat \ {0})
  /\ IsFiniteSet(Workers) /\ Workers # {}
  /\ \A w \in Workers : Target[w] \in Sources
  <1>1. Workers = 1..Len(Target) /\ Len(Target) \in Nat \ {0}
    BY TargetAssumption DEF Workers
  <1>2. IsFiniteSet(Workers)
    BY <1>1, FS_Interval
  <1>3. \A w \in Workers : Target[w] \in Sources
    BY DEF Workers, Sources, Range
  <1> QED
    BY <1>1, <1>2, <1>3

LEMMA SessionFacts ==
  /\ None \notin Sessions
  /\ \A src \in Sources : SessionOf(src) \subseteq Sessions \cup {None}
  /\ \A src \in Sources : \A s \in SessionOf(src) : s # None => s \in Sessions /\ s[1] = src
  <1>1. 0 \notin 1..MaxPerSource
    BY TargetAssumption
  <1> QED
    BY <1>1 DEF None, Sessions, SessionOf

-----------------------------------------------------------------------------
(* What a step can be.                                                      *)

\* A worker goes on and changes nothing but its label.
Moves(w) ==
  \E l \in {"dial", "exec", "reexec", "retry"}, m \in {"redial", "drop", "retry", "hung"} :
    /\ Goto(w, l, m)
    /\ UNCHANGED <<phase, asked, tableVars, attempt, workerVars, slots, out, reply>>

\* A worker returns.
Stops(w) ==
  \E l \in {"redial", "exec", "reexec", "retry"}, how \in {"rows", "err"} :
    /\ Ends(w, l, how)
    /\ UNCHANGED <<phase, asked, tableVars, dialed, reply>>

Opens(w) == Acquire(w) \/ LookHit(w) \/ LookMiss(w) \/ DialOK(w) \/ Add(w) \/ Drop(w)

LEMMA StepCases ==
  ASSUME NEW w, Step(w)
  PROVE  Opens(w) \/ Moves(w) \/ Stops(w)
  <1>1. CASE DialFails(w)
    BY <1>1 DEF DialFails, Moves, Stops, workerVars
  <1>2. CASE ExecFirst(w)
    BY <1>2 DEF ExecFirst, Hangs, Answered, NeedsOrder, Fails, Moves, Stops
  <1>3. CASE ExecAgain(w)
    BY <1>3 DEF ExecAgain, Hangs, Answered, NeedsOrder, Fails, Moves, Stops
  <1>4. CASE ExecRetry(w)
    BY <1>4 DEF ExecRetry, Hangs, Answered, Fails, Moves, Stops
  <1> QED
    BY <1>1, <1>2, <1>3, <1>4 DEF Step, Opens

LEMMA NextCases ==
  ASSUME [Next]_vars
  PROVE  \/ Start \/ Finish \/ Close
         \/ \E w \in Workers : Opens(w) \/ Moves(w) \/ Stops(w)
         \/ \E s \in live : Die(s)
         \/ UNCHANGED vars
  BY StepCases DEF Next

-----------------------------------------------------------------------------
(* Types.                                                                   *)

QueryOK ==
  /\ phase \in {"idle", "running", "closed"}
  /\ asked \in SUBSET Workers
  /\ pc \in [Workers -> Labels]
  /\ attempt \in [Workers -> {1, 2}]
  /\ out \in [Workers -> {"none", "rows", "err"}]

\* A session is registered and used under its own source.
SessionOK(f) ==
  /\ f \in [Workers -> Sessions \cup {None}]
  /\ \A w \in Workers : f[w] \in SessionOf(Target[w])

TableOK ==
  /\ sessions \in [Sources -> Sessions \cup {None}]
  /\ \A src \in Sources : sessions[src] \in SessionOf(src)
  /\ live \in SUBSET Sessions

LocalOK == SessionOK(be) /\ SessionOK(nb) /\ SessionOK(dialed)

LEMMA QueryStep ==
  ASSUME QueryOK, [Next]_vars
  PROVE  QueryOK'
  <1> USE DEF QueryOK, Goto, Labels
  <1>1. CASE Start
    BY <1>1 DEF Start
  <1>2. CASE Finish
    BY <1>2 DEF Finish
  <1>3. CASE Close
    BY <1>3 DEF Close
  <1>4. ASSUME NEW w \in Workers, Opens(w) PROVE QueryOK'
    BY <1>4 DEF Opens, Acquire, LookHit, LookMiss, DialOK, Add, Drop, Obtains
  <1>5. ASSUME NEW w \in Workers, Moves(w) PROVE QueryOK'
    BY <1>5 DEF Moves
  <1>6. ASSUME NEW w \in Workers, Stops(w) PROVE QueryOK'
    BY <1>6 DEF Stops, Ends
  <1>7. ASSUME NEW s, Die(s) PROVE QueryOK'
    BY <1>7 DEF Die
  <1>8. CASE UNCHANGED vars
    BY <1>8 DEF vars
  <1> QED
    BY <1>1, <1>2, <1>3, <1>4, <1>5, <1>6, <1>7, <1>8, NextCases

LEMMA Update ==
  ASSUME NEW f, SessionOK(f), NEW w \in Workers, NEW s \in SessionOf(Target[w])
  PROVE  SessionOK([f EXCEPT ![w] = s])
  BY WorkerFacts, SessionFacts DEF SessionOK

LEMMA NoneIsSession == \A src : None \in SessionOf(src)
  BY DEF SessionOf

\* What DialOK dials.
LEMMA DialFacts ==
  ASSUME NEW w \in Workers, DialOK(w)
  PROVE  \E s \in Sessions \ InUse :
           /\ s \in SessionOf(Target[w]) /\ s[1] = Target[w]
           /\ dialed' = [dialed EXCEPT ![w] = s]
           /\ live' = live \cup {s}
  <1> DEFINE numbers == {s[2] : s \in Fresh(Target[w])}
             n == Min(numbers)
  <1>1. numbers # {} /\ numbers \in SUBSET Nat
    BY TargetAssumption DEF DialOK, Fresh, Sessions
  <1>2. n \in numbers
    BY <1>1, MinOfSet
  <1>3. PICK s \in Fresh(Target[w]) : s[2] = n
    BY <1>2
  <1>4. s \in Sessions \ InUse /\ s[1] = Target[w]
    BY DEF Fresh
  <1>5. s = <<Target[w], n>>
    BY <1>3, <1>4 DEF Sessions
  <1>6. s \in SessionOf(Target[w])
    BY <1>4, <1>5 DEF SessionOf, Sessions
  <1> QED
    BY <1>4, <1>5, <1>6 DEF DialOK

LEMMA LocalStep ==
  ASSUME QueryOK, TableOK, LocalOK, [Next]_vars
  PROVE  LocalOK'
  <1> USE DEF LocalOK
  <1>1. CASE Start \/ Finish \/ Close
    BY <1>1 DEF Start, Finish, Close, workerVars
  <1>2. ASSUME NEW w \in Workers, Acquire(w) \/ LookMiss(w) \/ Drop(w) \/ Moves(w) PROVE LocalOK'
    BY <1>2 DEF Acquire, LookMiss, Drop, Moves, workerVars
  <1>3. ASSUME NEW w \in Workers, NEW l, NEW s \in SessionOf(Target[w]), Obtains(w, l, s)
        PROVE  SessionOK(be') /\ SessionOK(nb')
    BY <1>3, Update DEF Obtains
  <1>4. ASSUME NEW w \in Workers, LookHit(w) PROVE LocalOK'
    BY <1>3, <1>4, WorkerFacts DEF LookHit, TableOK
  <1>5. ASSUME NEW w \in Workers, DialOK(w) PROVE LocalOK'
    <2>1. PICK s \in SessionOf(Target[w]) : dialed' = [dialed EXCEPT ![w] = s]
      BY <1>5, DialFacts, Zenon
    <2>2. SessionOK(dialed')
      BY <2>1, Update
    <2> QED
      BY <1>5, <2>2 DEF DialOK
  <1>6. ASSUME NEW w \in Workers, Add(w) PROVE LocalOK'
    <2>1. sessions[Target[w]] \in SessionOf(Target[w]) /\ dialed[w] \in SessionOf(Target[w])
      BY WorkerFacts DEF TableOK, SessionOK
    <2>2. SessionOK(dialed')
      BY <1>6, Update, NoneIsSession DEF Add
    <2> QED
      BY <1>3, <1>6, <2>1, <2>2 DEF Add
  <1>7. ASSUME NEW w \in Workers, Stops(w) PROVE LocalOK'
    <2>1. be' = [be EXCEPT ![w] = None] /\ nb' = [nb EXCEPT ![w] = None]
      BY <1>7 DEF Stops, Ends
    <2>3. SessionOK(be') /\ SessionOK(nb')
      BY <2>1, Update, NoneIsSession
    <2>2. SessionOK(dialed')
      BY <1>7 DEF Stops
    <2> QED
      BY <2>2, <2>3
  <1>8. ASSUME NEW s, Die(s) PROVE LocalOK'
    BY <1>8 DEF Die, workerVars
  <1>9. CASE UNCHANGED vars
    BY <1>9 DEF vars, workerVars
  <1> QED
    BY <1>1, <1>2, <1>4, <1>5, <1>6, <1>7, <1>8, <1>9, NextCases DEF Opens

LEMMA TableStep ==
  ASSUME TableOK, LocalOK, [Next]_vars
  PROVE  TableOK'
  <1> USE WorkerFacts, SessionFacts DEF TableOK
  <1>1. CASE Start \/ Finish
    BY <1>1 DEF Start, Finish, tableVars
  <1>2. CASE Close
    BY <1>2, NoneIsSession DEF Close
  <1>3. ASSUME NEW w \in Workers, Acquire(w) \/ LookHit(w) \/ Moves(w) \/ Stops(w) PROVE TableOK'
    BY <1>3 DEF Acquire, LookHit, Moves, Stops, tableVars
  <1>4. ASSUME NEW w \in Workers, LookMiss(w) PROVE TableOK'
    BY <1>4, NoneIsSession DEF LookMiss
  <1>5. ASSUME NEW w \in Workers, DialOK(w) PROVE TableOK'
    <2>1. PICK s \in Sessions : live' = live \cup {s}
      BY <1>5, DialFacts, Zenon
    <2> QED
      BY <1>5, <2>1 DEF DialOK
  <1>6. ASSUME NEW w \in Workers, Add(w) PROVE TableOK'
    <2>1. dialed[w] \in SessionOf(Target[w]) /\ Target[w] \in Sources
      BY DEF LocalOK, SessionOK
    <2>2. CASE live' = live \ {dialed[w]} /\ UNCHANGED sessions
      BY <2>2
    <2>3. CASE sessions' = [sessions EXCEPT ![Target[w]] = dialed[w]] /\ UNCHANGED live
      BY <2>1, <2>3
    <2> QED
      BY <1>6, <2>2, <2>3 DEF Add
  <1>7. ASSUME NEW w \in Workers, Drop(w) PROVE TableOK'
    BY <1>7, NoneIsSession DEF Drop
  <1>8. ASSUME NEW s, Die(s) PROVE TableOK'
    BY <1>8 DEF Die
  <1>9. CASE UNCHANGED vars
    BY <1>9 DEF vars, tableVars
  <1> QED
    BY <1>1, <1>2, <1>3, <1>4, <1>5, <1>6, <1>7, <1>8, <1>9, NextCases DEF Opens

-----------------------------------------------------------------------------
(* The phase of the connection, and the semaphore.                          *)

\* The workers of the query that runs are those that are not off; there are
\* none when no query runs, and only those of several go through the semaphore.
PhaseOK ==
  /\ phase = "running" <=> asked # {}
  /\ \A w \in Workers : w \in asked <=> pc[w] # "off"
  /\ ~Aggregate => \A w \in Workers : pc[w] # "queue"

\* The semaphore holds one token for each busy worker of an aggregated query.
SlotsOK == slots = IF Aggregate THEN Cardinality(Busy) ELSE 0

LEMMA PhaseStep ==
  ASSUME QueryOK, PhaseOK, [Next]_vars
  PROVE  PhaseOK'
  <1> USE DEF QueryOK, PhaseOK, Aggregate, Goto, Labels
  <1>1. CASE Start
    <2>1. asked' # {} /\ asked' \in SUBSET Workers /\ phase' = "running"
      BY <1>1, WorkerFacts DEF Start
    <2> QED
      BY <1>1, <2>1 DEF Start
  <1>2. CASE Finish
    <2>1. Cardinality({}) = 0
      BY FS_EmptySet
    <2> QED
      BY <1>2, <2>1 DEF Finish
  <1>3. CASE Close
    BY <1>3 DEF Close
  <1>4. ASSUME NEW w \in Workers, Opens(w) PROVE PhaseOK'
    BY <1>4 DEF Opens, Acquire, LookHit, LookMiss, DialOK, Add, Drop, Obtains
  <1>5. ASSUME NEW w \in Workers, Moves(w) PROVE PhaseOK'
    BY <1>5 DEF Moves
  <1>6. ASSUME NEW w \in Workers, Stops(w) PROVE PhaseOK'
    BY <1>6 DEF Stops, Ends
  <1>7. ASSUME NEW s, Die(s) PROVE PhaseOK'
    BY <1>7 DEF Die
  <1>8. CASE UNCHANGED vars
    BY <1>8 DEF vars
  <1> QED
    BY <1>1, <1>2, <1>3, <1>4, <1>5, <1>6, <1>7, <1>8, NextCases

\* Busy workers can be counted.
LEMMA BusyFinite == IsFiniteSet(Busy) /\ Cardinality(Busy) \in Nat
  <1>1. Busy \in SUBSET Workers
    BY DEF Busy
  <1> QED
    BY <1>1, WorkerFacts, FS_Subset, FS_CardinalityType

LEMMA SlotsStep ==
  ASSUME QueryOK, PhaseOK, SlotsOK, [Next]_vars
  PROVE  SlotsOK'
  <1> USE DEF QueryOK, Goto, Labels
  <1>1. CASE Start
    <2>1. slots = 0
      BY <1>1, FS_EmptySet DEF Start, PhaseOK, SlotsOK, Aggregate
    <2>2. Aggregate' => Busy' = {}
      BY <1>1 DEF Start, Aggregate, Busy
    <2> QED
      BY <1>1, <2>1, <2>2, FS_EmptySet DEF Start, SlotsOK
  <1>2. CASE Finish
    <2>1. Busy = {} /\ Busy' = {}
      BY <1>2 DEF Finish, PhaseOK, Busy
    <2>2. slots = 0 /\ slots' = 0
      BY <1>2, <2>1, FS_EmptySet DEF Finish, SlotsOK
    <2> QED
      BY <2>1, <2>2, FS_EmptySet DEF SlotsOK
  <1>3. CASE Close
    BY <1>3 DEF Close, SlotsOK, Aggregate, Busy
  \* A worker takes its token with the step that makes it busy.
  <1>4. ASSUME NEW w \in Workers, Acquire(w) PROVE SlotsOK'
    <2>1. Busy' = Busy \cup {w} /\ w \notin Busy
      BY <1>4 DEF Acquire, Busy
    <2>2. Cardinality(Busy') = Cardinality(Busy) + 1
      BY <2>1, BusyFinite, FS_AddElement
    <2>3. Aggregate
      BY <1>4 DEF Acquire, PhaseOK
    <2> QED
      BY <1>4, <2>2, <2>3 DEF Acquire, SlotsOK, Aggregate
  \* Busy it stays,
  <1>5. ASSUME NEW w \in Workers, LookHit(w) \/ LookMiss(w) \/ DialOK(w) \/ Add(w) \/ Drop(w) \/ Moves(w)
        PROVE  SlotsOK'
    <2>1. Busy' = Busy
      BY <1>5 DEF LookHit, LookMiss, DialOK, Add, Drop, Moves, Obtains, Busy
    <2>2. UNCHANGED <<slots, asked>>
      BY <1>5 DEF LookHit, LookMiss, DialOK, Add, Drop, Moves
    <2> QED
      BY <2>1, <2>2 DEF SlotsOK, Aggregate
  \* until it gives the token back.
  <1>6. ASSUME NEW w \in Workers, Stops(w) PROVE SlotsOK'
    <2>1. Busy' = Busy \ {w} /\ w \in Busy
      BY <1>6 DEF Stops, Ends, Busy
    <2>2. Cardinality(Busy') = Cardinality(Busy) - 1
      BY <2>1, BusyFinite, FS_RemoveElement
    <2>3. UNCHANGED asked /\ slots' = IF Aggregate THEN slots - 1 ELSE slots
      BY <1>6 DEF Stops, Ends
    <2> QED
      BY <2>2, <2>3 DEF SlotsOK, Aggregate
  <1>7. ASSUME NEW s, Die(s) PROVE SlotsOK'
    BY <1>7 DEF Die, SlotsOK, Aggregate, Busy
  <1>8. CASE UNCHANGED vars
    BY <1>8 DEF vars, SlotsOK, Aggregate, Busy
  <1> QED
    BY <1>1, <1>2, <1>3, <1>4, <1>5, <1>6, <1>7, <1>8, NextCases DEF Opens

\* Only Acquire adds a token, when there is room.
BoundOK == slots <= MaxConc

LEMMA BoundStep ==
  ASSUME QueryOK, PhaseOK, SlotsOK, BoundOK, [Next]_vars
  PROVE  BoundOK'
  <1> USE TargetAssumption, BusyFinite DEF BoundOK, SlotsOK
  <1>1. CASE Start \/ Finish \/ Close
    BY <1>1 DEF Start, Finish, Close
  <1>2. ASSUME NEW w \in Workers, Opens(w) \/ Moves(w) PROVE BoundOK'
    BY <1>2 DEF Opens, Acquire, LookHit, LookMiss, DialOK, Add, Drop, Moves
  <1>3. ASSUME NEW w \in Workers, Stops(w) PROVE BoundOK'
    BY <1>3 DEF Stops, Ends
  <1>4. ASSUME NEW s, Die(s) PROVE BoundOK'
    BY <1>4 DEF Die
  <1>5. CASE UNCHANGED vars
    BY <1>5 DEF vars
  <1> QED
    BY <1>1, <1>2, <1>3, <1>4, <1>5, NextCases

ReplyOK == reply \in [rows : SUBSET Workers, err : Workers \cup {0}]

LEMMA ReplyStep ==
  ASSUME QueryOK, PhaseOK, ReplyOK, [Next]_vars
  PROVE  ReplyOK'
  <1> USE DEF ReplyOK
  <1>1. CASE Start
    BY <1>1 DEF Start, Nothing
  <1>2. CASE Finish
    <2>1. asked # {} /\ asked \in SUBSET Nat /\ asked \in SUBSET Workers
      BY <1>2, WorkerFacts DEF Finish, PhaseOK, QueryOK
    <2>2. Min(asked) \in Workers
      BY <2>1, MinOfSet
    <2> QED
      BY <1>2, <2>1, <2>2 DEF Finish
  <1>3. CASE Close
    BY <1>3 DEF Close
  <1>4. ASSUME NEW w \in Workers, Opens(w) \/ Moves(w) \/ Stops(w) PROVE ReplyOK'
    BY <1>4 DEF Opens, Acquire, LookHit, LookMiss, DialOK, Add, Drop, Moves, Stops
  <1>5. ASSUME NEW s, Die(s) PROVE ReplyOK'
    BY <1>5 DEF Die
  <1>6. CASE UNCHANGED vars
    BY <1>6 DEF vars
  <1> QED
    BY <1>1, <1>2, <1>3, <1>4, <1>5, <1>6, NextCases

QueryInv == QueryOK /\ TableOK /\ LocalOK /\ PhaseOK /\ SlotsOK /\ BoundOK /\ ReplyOK

LEMMA QueryInvInit == Init => QueryInv
  <1> SUFFICES ASSUME Init PROVE QueryInv
    OBVIOUS
  <1>1. QueryOK /\ ReplyOK
    BY DEF Init, QueryOK, ReplyOK, Labels, Nothing
  <1>2. TableOK /\ LocalOK
    BY NoneIsSession DEF Init, TableOK, LocalOK, SessionOK
  <1>3. PhaseOK
    BY DEF Init, PhaseOK
  <1>4. SlotsOK /\ BoundOK
    BY FS_EmptySet, TargetAssumption DEF Init, SlotsOK, BoundOK, Aggregate
  <1> QED
    BY <1>1, <1>2, <1>3, <1>4 DEF QueryInv

LEMMA QueryInvStep == QueryInv /\ [Next]_vars => QueryInv'
  BY QueryStep, TableStep, LocalStep, PhaseStep, SlotsStep, BoundStep, ReplyStep DEF QueryInv

\* The variables keep their types, no session is registered or used under
\* another source than its own, and the semaphore never overflows or goes
\* below empty: what TLC checks as TypeOK, for every list of targets.
THEOREM TypeCorrect == Spec => []TypeOK
  <1>1. QueryInv => TypeOK
    <2> SUFFICES ASSUME QueryInv PROVE TypeOK
      OBVIOUS
    <2>1. slots \in 0..MaxConc
      BY BusyFinite, TargetAssumption DEF QueryInv, SlotsOK, BoundOK
    <2> QED
      BY <2>1 DEF QueryInv, TypeOK, QueryOK, TableOK, LocalOK, SessionOK, ReplyOK
  <1> QED
    BY QueryInvInit, QueryInvStep, <1>1, PTL DEF Spec

\* At most maxAggregateConcurrency workers are past the semaphore, however they
\* end: what a worker that fails gives back is its own token, once.
THEOREM FanOut == Spec => []FanOutBounded
  <1>1. QueryInv => FanOutBounded
    <2> SUFFICES ASSUME QueryInv PROVE Cardinality(Busy) <= MaxConc
      BY DEF FanOutBounded
    <2>1. CASE Aggregate
      BY <2>1 DEF QueryInv, SlotsOK, BoundOK
    <2>2. CASE ~Aggregate
      <3>1. Busy \in SUBSET asked /\ asked \in SUBSET Workers
        BY DEF QueryInv, PhaseOK, QueryOK, Busy
      <3>2. IsFiniteSet(asked) /\ Cardinality(asked) \in Nat
        BY <3>1, WorkerFacts, FS_Subset, FS_CardinalityType
      <3>3. Cardinality(Busy) <= Cardinality(asked)
        BY <3>1, <3>2, FS_Subset
      <3> QED
        BY <2>2, <3>2, <3>3, BusyFinite, TargetAssumption DEF Aggregate
    <2> QED
      BY <2>1, <2>2
  <1> QED
    BY QueryInvInit, QueryInvStep, <1>1, PTL DEF Spec

-----------------------------------------------------------------------------
(* The session table.                                                       *)

\* A worker on its way to the second critical section has a session of its own,
\* which no other worker and no entry of the table refers to yet.
OwnOK ==
  \A w \in Workers :
    /\ pc[w] = "add" <=> dialed[w] # None
    /\ pc[w] = "add" =>
         /\ \A src \in Sources : sessions[src] # dialed[w]
         /\ \A v \in Workers : be[v] # dialed[w] /\ nb[v] # dialed[w]
         /\ \A v \in Workers \ {w} : dialed[v] # dialed[w]

\* Nobody refers to the session that is dialled.
LEMMA DialsNew ==
  ASSUME QueryOK, TableOK, LocalOK, NEW w \in Workers, DialOK(w)
  PROVE  \E s \in SessionOf(Target[w]) :
           /\ s # None /\ s \notin live
           /\ \A src \in Sources : sessions[src] # s
           /\ \A v \in Workers : be[v] # s /\ nb[v] # s /\ dialed[v] # s
           /\ dialed' = [dialed EXCEPT ![w] = s]
           /\ live' = live \cup {s}
  <1>1. PICK s \in Sessions \ InUse :
               /\ s \in SessionOf(Target[w])
               /\ dialed' = [dialed EXCEPT ![w] = s]
               /\ live' = live \cup {s}
    BY DialFacts, Zenon
  <1>2. /\ s \notin live
        /\ \A src \in Sources : sessions[src] # s
        /\ \A v \in Workers : be[v] # s /\ nb[v] # s /\ dialed[v] # s
    BY DEF InUse, Range, TableOK, LocalOK, SessionOK
  <1> QED
    BY <1>1, <1>2, SessionFacts, Zenon

LEMMA OwnStep ==
  ASSUME QueryInv, OwnOK, [Next]_vars
  PROVE  OwnOK'
  <1> USE DEF QueryInv, QueryOK, TableOK, LocalOK, SessionOK, OwnOK, Goto, Labels
  <1>1. CASE Start \/ Finish
    <2>1. \A w \in Workers : pc[w] # "add" /\ pc'[w] # "add"
      BY <1>1 DEF Start, Finish, PhaseOK
    <2> QED
      BY <1>1, <2>1 DEF Start, Finish, workerVars
  <1>2. CASE Close
    <2>1. \A w \in Workers : pc[w] # "add"
      BY <1>2 DEF Close, PhaseOK
    <2> QED
      BY <1>2, <2>1 DEF Close, workerVars
  <1>3. ASSUME NEW w \in Workers, Acquire(w) \/ Moves(w) PROVE OwnOK'
    BY <1>3 DEF Acquire, Moves, tableVars, workerVars
  <1>4. ASSUME NEW w \in Workers, LookMiss(w) \/ Drop(w) PROVE OwnOK'
    BY <1>4, WorkerFacts DEF LookMiss, Drop, workerVars
  <1>5. ASSUME NEW w \in Workers, LookHit(w) PROVE OwnOK'
    BY <1>5, WorkerFacts DEF LookHit, Obtains, tableVars
  <1>6. ASSUME NEW w \in Workers, DialOK(w) PROVE OwnOK'
    <2>1. PICK s \in SessionOf(Target[w]) :
                 /\ s # None
                 /\ \A src \in Sources : sessions[src] # s
                 /\ \A v \in Workers : be[v] # s /\ nb[v] # s /\ dialed[v] # s
                 /\ dialed' = [dialed EXCEPT ![w] = s]
      BY <1>6, DialsNew, Zenon
    <2>2. pc' = [pc EXCEPT ![w] = "add"] /\ UNCHANGED <<sessions, be, nb>>
      BY <1>6 DEF DialOK
    <2> QED
      BY <2>1, <2>2
  <1>7. ASSUME NEW w \in Workers, Add(w) PROVE OwnOK'
    <2>1. dialed' = [dialed EXCEPT ![w] = None] /\ pc[w] = "add"
      BY <1>7 DEF Add, Obtains
    <2>2. \A v \in Workers : pc'[v] = "add" <=> (v # w /\ pc[v] = "add")
      BY <1>7 DEF Add, Obtains
    <2>3. PICK s : /\ s = sessions[Target[w]] \/ s = dialed[w]
                   /\ \A v \in Workers : be'[v] \in {be[v], s} /\ nb'[v] \in {nb[v], s}
                   /\ \A src \in Sources : sessions'[src] \in {sessions[src], s}
      BY <1>7, WorkerFacts DEF Add, Obtains
    <2>4. \A v \in Workers : v # w /\ pc[v] = "add" => s # dialed[v]
      BY <2>1, <2>3, WorkerFacts
    <2> QED
      BY <2>1, <2>2, <2>3, <2>4
  <1>8. ASSUME NEW w \in Workers, Stops(w) PROVE OwnOK'
    <2>1. /\ pc[w] # "add" /\ pc' = [pc EXCEPT ![w] = "fin"]
          /\ be' = [be EXCEPT ![w] = None] /\ nb' = [nb EXCEPT ![w] = None]
          /\ UNCHANGED <<sessions, dialed>>
      BY <1>8 DEF Stops, Ends, tableVars
    <2> QED
      BY <2>1
  <1>9. ASSUME NEW s, Die(s) PROVE OwnOK'
    BY <1>9 DEF Die, workerVars
  <1>10. CASE UNCHANGED vars
    BY <1>10 DEF vars, tableVars, workerVars
  <1> QED
    BY <1>1, <1>2, <1>3, <1>4, <1>5, <1>6, <1>7, <1>8, <1>9, <1>10, NextCases DEF Opens

LEMMA LeakStep ==
  ASSUME QueryInv, NoSessionLeaks, [Next]_vars
  PROVE  NoSessionLeaks'
  <1> USE DEF QueryInv, QueryOK, TableOK, NoSessionLeaks, Goto, Labels
  <1>1. CASE Start \/ Finish
    <2>1. \A w \in Workers : pc[w] # "add"
      BY <1>1 DEF Start, Finish, PhaseOK
    <2> QED
      BY <1>1, <2>1 DEF Start, Finish, tableVars
  <1>2. CASE Close
    <2>1. \A w \in Workers : pc[w] # "add"
      BY <1>2 DEF Close, PhaseOK
    <2>2. \A s \in live : s \in Range(sessions)
      BY <2>1 DEF Range, Sessions
    <2> QED
      BY <1>2, <2>2 DEF Close
  <1>3. ASSUME NEW w \in Workers, Acquire(w) \/ Moves(w) \/ LookHit(w) PROVE NoSessionLeaks'
    BY <1>3 DEF Acquire, Moves, LookHit, Obtains, tableVars, workerVars
  <1>4. ASSUME NEW w \in Workers, LookMiss(w) \/ Drop(w) PROVE NoSessionLeaks'
    <2>1. /\ \A src \in Sources : sessions'[src] = IF src = Target[w] THEN None ELSE sessions[src]
          /\ live' \subseteq live \ {sessions[Target[w]]}
          /\ UNCHANGED dialed /\ pc[w] # "add"
          /\ \A v \in Workers : v # w => pc'[v] = pc[v]
      BY <1>4, WorkerFacts DEF LookMiss, Drop, workerVars
    <2> QED
      BY <2>1 DEF Sessions
  <1>5. ASSUME NEW w \in Workers, DialOK(w) PROVE NoSessionLeaks'
    <2>1. PICK s \in SessionOf(Target[w]) :
                 dialed' = [dialed EXCEPT ![w] = s] /\ live' = live \cup {s}
      BY <1>5, DialFacts, Zenon
    <2>2. pc[w] # "add" /\ pc' = [pc EXCEPT ![w] = "add"] /\ UNCHANGED sessions
      BY <1>5 DEF DialOK
    <2> QED
      BY <2>1, <2>2 DEF LocalOK, SessionOK
  <1>6. ASSUME NEW w \in Workers, Add(w) PROVE NoSessionLeaks'
    <2> DEFINE src == Target[w]
    <2>1. /\ \A v \in Workers : v # w => dialed'[v] = dialed[v] /\ pc'[v] = pc[v]
          /\ src \in Sources /\ dialed[w] \in SessionOf(src)
      BY <1>6, WorkerFacts DEF Add, Obtains, LocalOK, SessionOK
    <2>2. CASE live' = live \ {dialed[w]} /\ UNCHANGED sessions
      BY <2>1, <2>2
    <2>3. CASE /\ sessions[src] \notin live /\ UNCHANGED live
               /\ sessions' = [sessions EXCEPT ![src] = dialed[w]]
      <3>1. SUFFICES ASSUME NEW s \in live
                     PROVE  \/ sessions'[s[1]] = s
                            \/ \E v \in Workers : pc'[v] = "add" /\ dialed'[v] = s
        BY <2>3
      <3>2. CASE s = dialed[w]
        BY <2>1, <2>3, <3>2, SessionFacts
      <3>3. CASE s # dialed[w]
        BY <2>1, <2>3, <3>3 DEF Sessions
      <3> QED
        BY <3>2, <3>3
    <2> QED
      BY <1>6, <2>2, <2>3 DEF Add
  <1>7. ASSUME NEW w \in Workers, Stops(w) PROVE NoSessionLeaks'
    BY <1>7 DEF Stops, Ends, tableVars
  <1>8. ASSUME NEW s, Die(s) PROVE NoSessionLeaks'
    BY <1>8 DEF Die, workerVars
  <1>9. CASE UNCHANGED vars
    BY <1>9 DEF vars, tableVars, workerVars
  <1> QED
    BY <1>1, <1>2, <1>3, <1>4, <1>5, <1>6, <1>7, <1>8, <1>9, NextCases DEF Opens

\* No WebSocket stays open that nobody can close: however many workers dial,
\* register and drop sessions of one source at once, each live session is in
\* the table or in the hands of the worker about to register it.
THEOREM NoLeaks == Spec => []NoSessionLeaks
  <1>1. Init => NoSessionLeaks
    BY DEF Init, NoSessionLeaks
  <1>2. QueryInv /\ NoSessionLeaks /\ [Next]_vars => NoSessionLeaks'
    BY LeakStep
  <1> QED
    BY QueryInvInit, QueryInvStep, <1>1, <1>2, PTL DEF Spec

\* Closing the table closes everything, and nothing is dialled after it.
THEOREM ClosedIsClean == Spec => []ClosedLeavesNothing
  <1>1. Init => NoSessionLeaks /\ ClosedLeavesNothing
    BY DEF Init, NoSessionLeaks, ClosedLeavesNothing
  <1>2. QueryInv /\ NoSessionLeaks /\ [Next]_vars => NoSessionLeaks'
    BY LeakStep
  <1>3. QueryInv /\ NoSessionLeaks /\ ClosedLeavesNothing /\ [Next]_vars => ClosedLeavesNothing'
    <2> SUFFICES ASSUME QueryInv, NoSessionLeaks, ClosedLeavesNothing, [Next]_vars
                 PROVE  ClosedLeavesNothing'
      OBVIOUS
    <2> USE DEF QueryInv, QueryOK, ClosedLeavesNothing
    <2>1. CASE Start \/ Finish
      BY <2>1 DEF Start, Finish
    <2>2. CASE Close
      <3>1. \A w \in Workers : pc[w] = "off"
        BY <2>2 DEF Close, PhaseOK
      <3>2. \A s \in live : s \in Range(sessions)
        BY <3>1 DEF NoSessionLeaks, Range, TableOK, Sessions
      <3> QED
        BY <2>2, <3>2 DEF Close
    <2>3. ASSUME NEW w \in Workers, Opens(w) \/ Moves(w) \/ Stops(w) PROVE ClosedLeavesNothing'
      <3>1. pc[w] # "off" /\ UNCHANGED phase
        BY <2>3 DEF Opens, Acquire, LookHit, LookMiss, DialOK, Add, Drop, Obtains, Moves, Stops,
                    Ends, Goto
      <3> QED
        BY <3>1 DEF PhaseOK
    <2>4. ASSUME NEW s, Die(s) PROVE ClosedLeavesNothing'
      BY <2>4 DEF Die
    <2>5. CASE UNCHANGED vars
      BY <2>5 DEF vars, tableVars
    <2> QED
      BY <2>1, <2>2, <2>3, <2>4, <2>5, NextCases
  <1> QED
    BY QueryInvInit, QueryInvStep, <1>1, <1>2, <1>3, PTL DEF Spec

-----------------------------------------------------------------------------
(* The reconnect.                                                           *)

\* After dropSession the session that failed is dead. It stays so: what is
\* dialled later is new to everybody.
ReconnectOK ==
  \A w \in Workers :
    /\ attempt[w] = 2 => be[w] \notin live
    /\ nb[w] # None => attempt[w] = 2 /\ nb[w] # be[w]

LEMMA ReconnectStep ==
  ASSUME QueryInv, OwnOK, NoSessionLeaks, ReconnectOK, [Next]_vars
  PROVE  ReconnectOK'
  <1> USE DEF QueryInv, QueryOK, TableOK, LocalOK, SessionOK, ReconnectOK, Goto, Labels
  <1>1. CASE Start \/ Finish \/ Close
    BY <1>1 DEF Start, Finish, Close, tableVars, workerVars
  <1>2. ASSUME NEW w \in Workers, Acquire(w) \/ Moves(w) \/ LookMiss(w) PROVE ReconnectOK'
    BY <1>2 DEF Acquire, Moves, LookMiss, tableVars, workerVars
  <1>3. ASSUME NEW w \in Workers, LookHit(w) PROVE ReconnectOK'
    BY <1>3 DEF LookHit, Obtains, tableVars
  <1>4. ASSUME NEW w \in Workers, DialOK(w) PROVE ReconnectOK'
    <2>1. PICK s \in SessionOf(Target[w]) :
                 /\ \A v \in Workers : be[v] # s
                 /\ live' = live \cup {s}
      BY <1>4, DialsNew, Zenon
    <2>2. UNCHANGED <<attempt, be, nb>>
      BY <1>4 DEF DialOK
    <2> QED
      BY <2>1, <2>2
  <1>5. ASSUME NEW w \in Workers, Add(w) PROVE ReconnectOK'
    <2>1. PICK s : /\ Obtains(w, "add", s)
                   /\ s \in live \/ s = dialed[w]
                   /\ UNCHANGED attempt /\ live' \subseteq live
      BY <1>5 DEF Add
    <2>2. pc[w] = "add" /\ be[w] # dialed[w]
      BY <2>1 DEF Obtains, OwnOK
    <2>3. CASE attempt[w] = 1
      BY <2>1, <2>3 DEF Obtains
    <2>4. CASE attempt[w] = 2
      BY <2>1, <2>2, <2>4 DEF Obtains
    <2> QED
      BY <2>3, <2>4
  \* What failed was either in the table, and is closed, or dead before: only
  \* a session about to be registered is alive and not in the table.
  <1>6. ASSUME NEW w \in Workers, Drop(w) PROVE ReconnectOK'
    <2>1. /\ live' = live \ {sessions[Target[w]]}
          /\ attempt' = [attempt EXCEPT ![w] = 2]
          /\ UNCHANGED <<be, nb>>
      BY <1>6 DEF Drop, workerVars
    <2>2. be[w] \notin live'
      <3>1. SUFFICES ASSUME be[w] \in live PROVE be[w] = sessions[Target[w]]
        BY <2>1
      <3>2. sessions[be[w][1]] = be[w]
        BY <3>1 DEF NoSessionLeaks, OwnOK
      <3>3. be[w][1] = Target[w]
        BY <3>1, WorkerFacts, SessionFacts
      <3> QED
        BY <3>2, <3>3
    <2> QED
      BY <2>1, <2>2
  <1>7. ASSUME NEW w \in Workers, Stops(w) PROVE ReconnectOK'
    <2>1. /\ be' = [be EXCEPT ![w] = None] /\ nb' = [nb EXCEPT ![w] = None]
          /\ attempt' = [attempt EXCEPT ![w] = 1] /\ UNCHANGED live
      BY <1>7 DEF Stops, Ends, tableVars
    <2> QED
      BY <2>1
  <1>8. ASSUME NEW s, Die(s) PROVE ReconnectOK'
    BY <1>8 DEF Die, workerVars
  <1>9. CASE UNCHANGED vars
    BY <1>9 DEF vars, tableVars, workerVars
  <1> QED
    BY <1>1, <1>2, <1>3, <1>4, <1>5, <1>6, <1>7, <1>8, <1>9, NextCases DEF Opens

\* A reconnect never gets back the session that failed, and that one is dead by
\* then, whatever other workers of its source look up, dial, register and drop.
THEOREM ReconnectsFresh == Spec => []ReconnectIsFresh
  <1>1. Init => NoSessionLeaks /\ OwnOK /\ ReconnectOK
    BY DEF Init, NoSessionLeaks, OwnOK, ReconnectOK
  <1>2. QueryInv /\ NoSessionLeaks /\ [Next]_vars => NoSessionLeaks'
    BY LeakStep
  <1>3. QueryInv /\ OwnOK /\ [Next]_vars => OwnOK'
    BY OwnStep
  <1>4. QueryInv /\ OwnOK /\ NoSessionLeaks /\ ReconnectOK /\ [Next]_vars => ReconnectOK'
    BY ReconnectStep
  <1>5. ReconnectOK => ReconnectIsFresh
    BY DEF ReconnectOK, ReconnectIsFresh
  <1> QED
    BY QueryInvInit, QueryInvStep, <1>1, <1>2, <1>3, <1>4, <1>5, PTL DEF Spec
===============================================================================
