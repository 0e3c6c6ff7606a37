----------------------------- MODULE ServerProofs -----------------------------
(***************************************************************************)
(* Proofs about Server, for every set of connections, any number of events *)
(* of each and any number of starts of the program: the types, what a      *)
(* handler that has ended leaves, and the audit log's file.                *)
(***************************************************************************)
EXTENDS Server, FiniteSetTheorems, TLAPS

-----------------------------------------------------------------------------
(* What a step does to the log.                                             *)

\* The steps that hand an event to Record.
Records(c) == HandshakeUse(c) \/ Finishes(c) \/ Panics(c)

\* Those of a connection that do not.
Quiet(c) ==
  \/ Connect(c) \/ Leave(c) \/ Accept(c) \/ HandshakeOK(c) \/ HandshakeFails(c)
  \/ Command(c) \/ NeverReturns(c) \/ Disconnect(c) \/ Unwind(c)

LEMMA NextCases ==
  ASSUME [ServerNext]_serverVars
  PROVE  \/ \E c \in Conns : Records(c) \/ Quiet(c)
         \/ Signal \/ AcceptFails \/ CloseLog \/ (Up /\ ProcessEnds) \/ Restart
         \/ UNCHANGED serverVars
  <1>1. Exit \/ Crash => Up /\ ProcessEnds
    BY DEF Exit, Crash, Up
  <1> QED
    BY <1>1 DEF ServerNext, HandlerStep, Records, Quiet

LEMMA RecordsFacts ==
  ASSUME NEW c, Records(c)
  PROVE  Up /\ UNCHANGED mainVars /\ Record(c)
  BY DEF Records, HandshakeUse, Finishes, Panics, ConnGoto

LEMMA QuietFacts ==
  ASSUME NEW c, Quiet(c)
  PROVE  UNCHANGED <<mainVars, logVars>>
  BY DEF Quiet, Connect, Leave, Accept, HandshakeOK, HandshakeFails, Command, NeverReturns,
         Disconnect, Unwind

-----------------------------------------------------------------------------
(* Connections.                                                             *)

Labels == {"none", "handshake", "ready", "running", "hung", "unwind", "ended"}

MainOK ==
  /\ main \in {"accepting", "closing", "exiting", "exited"}
  /\ listening \in BOOLEAN

\* A session is held only where h.Close() still follows, the socket is open
\* only where the closing of it does, and a command that runs has its event
\* to record.
ConnOK ==
  /\ client \in [Conns -> {"away", "there", "left"}]
  /\ conn \in [Conns -> Labels]
  /\ socket \in [Conns -> BOOLEAN] /\ held \in [Conns -> BOOLEAN]
  /\ made \in [Conns -> Nat]
  /\ \A c \in Conns :
       /\ conn[c] \in {"handshake", "ready", "running"} => socket[c]
       /\ held[c] => conn[c] \in {"ready", "running", "hung", "unwind"}
       /\ socket[c] => conn[c] \notin {"none", "ended"}
       /\ made[c] <= MaxEvents[c]
       /\ conn[c] = "running" => made[c] < MaxEvents[c]

LEMMA MainStepOK ==
  ASSUME MainOK, [ServerNext]_serverVars
  PROVE  MainOK'
  <1> USE DEF MainOK
  <1>1. CASE UNCHANGED mainVars
    BY <1>1 DEF mainVars
  <1>2. CASE Signal \/ AcceptFails \/ CloseLog \/ ProcessEnds \/ Restart
    BY <1>2 DEF Signal, AcceptFails, CloseLog, ProcessEnds, Restart
  <1> QED
    BY <1>1, <1>2, NextCases, RecordsFacts, QuietFacts DEF serverVars

LEMMA ConnStep ==
  ASSUME ConnOK, [ServerNext]_serverVars
  PROVE  ConnOK'
  <1> USE ServerAssumption DEF ConnOK, Labels
  <1>1. ASSUME NEW c \in Conns, Records(c) PROVE ConnOK'
    <2>1. made' = [made EXCEPT ![c] = @ + 1] /\ made[c] < MaxEvents[c]
      BY <1>1 DEF Records, HandshakeUse, Finishes, Panics, Record, ConnGoto
    <2>2. CASE HandshakeUse(c)
      BY <2>1, <2>2 DEF HandshakeUse, ConnGoto
    <2>3. CASE Finishes(c)
      <3>1. /\ conn[c] = "running" /\ held' = [held EXCEPT ![c] = TRUE] /\ UNCHANGED client
            /\ \/ /\ conn' = [conn EXCEPT ![c] = "ready"]
                  /\ socket' = [socket EXCEPT ![c] = TRUE]
               \/ /\ conn' = [conn EXCEPT ![c] = "unwind"]
                  /\ socket' = [socket EXCEPT ![c] = FALSE]
        <4>1. CASE client[c] = "there"
          <5>1. (client[c] = "there") = TRUE
            BY <4>1
          <5> QED
            BY <2>3, <4>1, <5>1, Zenon DEF Finishes, ConnGoto
        <4>2. CASE client[c] # "there"
          <5>1. (client[c] = "there") = FALSE
            BY <4>2
          <5> QED
            BY <2>3, <4>2, <5>1, Zenon DEF Finishes, ConnGoto
        <4> QED
          BY <4>1, <4>2
      <3>2. CASE conn' = [conn EXCEPT ![c] = "ready"] /\ socket' = [socket EXCEPT ![c] = TRUE]
        BY <2>1, <3>1, <3>2
      <3>3. CASE conn' = [conn EXCEPT ![c] = "unwind"] /\ socket' = [socket EXCEPT ![c] = FALSE]
        BY <2>1, <3>1, <3>3
      <3> QED
        BY <3>1, <3>2, <3>3
    <2>4. CASE Panics(c)
      BY <2>1, <2>4 DEF Panics, ConnGoto
    <2> QED
      BY <1>1, <2>2, <2>3, <2>4 DEF Records
  <1>2. ASSUME NEW c \in Conns, Quiet(c) PROVE ConnOK'
    <2>1. CASE Connect(c) \/ Leave(c)
      BY <2>1 DEF Connect, Leave, logVars
    <2>2. CASE Accept(c)
      BY <2>2 DEF Accept, ConnGoto, logVars
    <2>3. CASE HandshakeOK(c)
      BY <2>3 DEF HandshakeOK, ConnGoto, logVars
    <2>4. CASE HandshakeFails(c)
      BY <2>4 DEF HandshakeFails, ConnGoto, logVars
    <2>5. CASE Command(c)
      BY <2>5 DEF Command, ConnGoto, logVars
    <2>6. CASE NeverReturns(c)
      BY <2>6 DEF NeverReturns, ConnGoto, logVars
    <2>7. CASE Disconnect(c)
      BY <2>7 DEF Disconnect, ConnGoto, logVars
    <2>8. CASE Unwind(c)
      BY <2>8 DEF Unwind, ConnGoto, logVars
    <2> QED
      BY <1>2, <2>1, <2>2, <2>3, <2>4, <2>5, <2>6, <2>7, <2>8 DEF Quiet
  <1>3. CASE ProcessEnds
    BY <1>3 DEF ProcessEnds
  <1>4. CASE Signal \/ AcceptFails \/ CloseLog \/ Restart \/ UNCHANGED serverVars
    BY <1>4 DEF Signal, AcceptFails, CloseLog, Restart, serverVars, connVars, logVars
  <1> QED
    BY <1>1, <1>2, <1>3, <1>4, NextCases

-----------------------------------------------------------------------------
(* The log's file.                                                          *)

Recorded(c) == {n \in Nat : <<c, n>> \in readable \cup garbled}

\* All of a connection's events are in the file as long as the log is open,
\* and those before the failed write once it is broken.
NoHole(c) ==
  /\ \E n \in 0..made[c] : Recorded(c) = 1..n
  /\ log = "open" => Recorded(c) = 1..made[c]

\* A line that is not whole garbles the first event of the next start, after
\* which the file ends in a whole line until a write fails; that one is the
\* last. Between two starts nothing of the next one is there.
LogOK ==
  /\ log \in {"off", "open", "broken", "closed"} /\ torn \in BOOLEAN
  /\ readable \in SUBSET Events /\ garbled \in SUBSET Events
  /\ \A c \in Conns : NoHole(c)
  /\ garbled = {} \/ ((log = "open" => ~torn) /\ \E e : garbled = {e})
  /\ ~Up => readable = {} /\ garbled = {} /\ made = [c \in Conns |-> 0]

\* One more event, and all of them in the file.
LEMMA OneMoreRecorded ==
  ASSUME ConnOK, LogOK, NEW c \in Conns, log = "open",
         made' = [made EXCEPT ![c] = @ + 1], UNCHANGED log,
         readable' \cup garbled' = (readable \cup garbled) \cup {<<c, made[c] + 1>>}
  PROVE  \A d \in Conns : NoHole(d)'
  <1> USE ServerAssumption
  <1>1. Recorded(c)' = Recorded(c) \cup {made[c] + 1}
    BY DEF Recorded, ConnOK
  <1>2. Recorded(c) = 1..made[c] /\ made[c] \in Nat
    BY DEF LogOK, NoHole, ConnOK
  <1>3. Recorded(c)' = 1..(made[c] + 1)
    BY <1>1, <1>2
  <1>4. NoHole(c)'
    BY <1>2, <1>3 DEF NoHole, ConnOK
  <1>5. ASSUME NEW d \in Conns, d # c PROVE NoHole(d)'
    <2>1. Recorded(d)' = Recorded(d) /\ made'[d] = made[d]
      BY <1>5 DEF Recorded, ConnOK
    <2> QED
      BY <2>1 DEF LogOK, NoHole
  <1> QED
    BY <1>4, <1>5

\* A start of which nothing was recorded.
LEMMA NothingRecorded ==
  /\ readable = {} /\ garbled = {} /\ made = [c \in Conns |-> 0] => \A c \in Conns : NoHole(c)
  /\ readable' = {} /\ garbled' = {} /\ made' = [c \in Conns |-> 0] => \A c \in Conns : NoHole(c)'
  <1>1. 0 \in 0..0 /\ 1..0 = {}
    OBVIOUS
  <1>2. ASSUME readable = {}, garbled = {}, made = [c \in Conns |-> 0], NEW c \in Conns
        PROVE  NoHole(c)
    BY <1>1, <1>2 DEF NoHole, Recorded
  <1>3. ASSUME readable' = {}, garbled' = {}, made' = [c \in Conns |-> 0], NEW c \in Conns
        PROVE  NoHole(c)'
    BY <1>1, <1>3 DEF NoHole, Recorded
  <1> QED
    BY <1>2, <1>3

LEMMA LogStep ==
  ASSUME MainOK, ConnOK, LogOK, [ServerNext]_serverVars
  PROVE  LogOK'
  <1>1. ASSUME NEW c \in Conns, Records(c) PROVE LogOK'
    <2>1. Up /\ Up' /\ made' = [made EXCEPT ![c] = @ + 1] /\ Record(c)
      BY <1>1, RecordsFacts DEF mainVars, Up, Record
    <2>2. CASE log = "open" /\ UNCHANGED log /\ AppendLine(<<c, made[c] + 1>>)
      <3> DEFINE e == <<c, made[c] + 1>>
      <3>1. e \in Events
        BY DEF Events, ConnOK
      <3>2. /\ torn' = FALSE
            /\ \/ torn /\ garbled' = garbled \cup {e} /\ UNCHANGED readable
               \/ ~torn /\ readable' = readable \cup {e} /\ UNCHANGED garbled
        BY <2>2 DEF AppendLine, LogOK
      <3>3. readable' \cup garbled' = (readable \cup garbled) \cup {e}
        BY <3>2
      <3>4. \A d \in Conns : NoHole(d)'
        BY <2>1, <2>2, <3>3, OneMoreRecorded
      <3>5. garbled' = {} \/ \E f : garbled' = {f}
        BY <2>2, <3>2 DEF LogOK
      <3>6. readable' \in SUBSET Events /\ garbled' \in SUBSET Events
        BY <3>1, <3>2 DEF LogOK
      <3> QED
        BY <2>1, <2>2, <3>2, <3>4, <3>5, <3>6 DEF LogOK
    <2>3. CASE log' # "open" /\ UNCHANGED <<readable, garbled>>
      <3>1. log' \in {"off", "broken", "closed"} /\ torn' \in BOOLEAN
        BY <2>1, <2>3 DEF Record, LogOK, fileVars
      <3>2. ASSUME NEW d \in Conns PROVE NoHole(d)'
        <4>1. PICK n \in 0..made[d] : Recorded(d) = 1..n
          BY DEF LogOK, NoHole
        <4>2. n \in 0..made'[d] /\ Recorded(d)' = 1..n
          BY <2>1, <2>3, <4>1 DEF Recorded, ConnOK
        <4> QED
          BY <3>1, <4>2 DEF NoHole
      <3> QED
        BY <2>1, <2>3, <3>1, <3>2 DEF LogOK
    <2> QED
      BY <2>1, <2>2, <2>3 DEF Record, fileVars
  <1>2. ASSUME log' = log \/ log' # "open", log' \in {"off", "open", "broken", "closed"},
               UNCHANGED <<made, torn, readable, garbled>>, Up' \/ ~Up
        PROVE  LogOK'
    <2>1. ASSUME NEW d \in Conns PROVE NoHole(d)'
      BY <1>2 DEF LogOK, NoHole, Recorded
    <2> QED
      BY <1>2, <2>1 DEF LogOK
  <1>3. CASE ProcessEnds
    <2>1. /\ readable' = {} /\ garbled' = {} /\ made' = [c \in Conns |-> 0]
          /\ log' = "closed" /\ UNCHANGED torn
      BY <1>3 DEF ProcessEnds
    <2>2. \A c \in Conns : NoHole(c)'
      BY <2>1, NothingRecorded
    <2> QED
      BY <2>1, <2>2 DEF LogOK
  <1>4. CASE Restart
    <2>1. /\ readable = {} /\ garbled = {} /\ made = [c \in Conns |-> 0]
          /\ UNCHANGED <<made, torn, readable, garbled>> /\ log' \in {"off", "open"} /\ Up'
      BY <1>4 DEF Restart, fileVars, LogOK, Up
    <2>2. \A c \in Conns : NoHole(c)'
      BY <2>1, NothingRecorded
    <2> QED
      BY <2>1, <2>2 DEF LogOK
  <1>5. ASSUME UNCHANGED logVars, UNCHANGED main PROVE LogOK'
    BY <1>2, <1>5 DEF logVars, fileVars, LogOK, Up
  <1>6. ASSUME NEW c, Quiet(c) PROVE LogOK'
    BY <1>5, <1>6, QuietFacts DEF mainVars
  <1>7. CASE Signal \/ UNCHANGED serverVars
    BY <1>5, <1>7 DEF Signal, serverVars, mainVars
  <1>8. CASE AcceptFails \/ CloseLog
    <2>1. /\ (log' = log \/ log' # "open") /\ log' \in {"off", "open", "broken", "closed"}
          /\ UNCHANGED <<made, torn, readable, garbled>> /\ Up'
      BY <1>8 DEF AcceptFails, CloseLog, logVars, fileVars, LogOK, Up
    <2> QED
      BY <1>2, <2>1
  <1> QED
    BY <1>1, <1>3, <1>4, <1>6, <1>7, <1>8, NextCases

-----------------------------------------------------------------------------
(* The theorems.                                                            *)

ServerInv == MainOK /\ ConnOK /\ LogOK

\* ServerInv is inductive.
LEMMA ServerInvariant == ServerSpec => []ServerInv
  <1>1. ASSUME ServerInit PROVE ServerInv
    <2>1. MainOK /\ ConnOK
      BY <1>1, ServerAssumption DEF ServerInit, MainOK, ConnOK, Labels
    <2>2. \A c \in Conns : NoHole(c)
      BY <1>1, NothingRecorded DEF ServerInit
    <2>3. LogOK
      BY <1>1, <2>2 DEF ServerInit, LogOK, Up
    <2> QED
      BY <2>1, <2>3 DEF ServerInv
  <1>2. ServerInv /\ [ServerNext]_serverVars => ServerInv'
    BY MainStepOK, ConnStep, LogStep DEF ServerInv
  <1> QED
    BY <1>1, <1>2, PTL DEF ServerSpec

\* Types, and with them that the command loop runs on open connections only.
THEOREM TypeCorrect == ServerSpec => []ServerTypeOK
  <1>1. ServerInv => ServerTypeOK
    BY DEF ServerInv, MainOK, ConnOK, LogOK, ServerTypeOK, Labels
  <1> QED
    BY <1>1, ServerInvariant, PTL

\* The audit log has no hole and loses one event at most to a line that a
\* start before this one left torn: however many connections record at once,
\* whenever a write fails and however often the program is killed.
THEOREM LogReadable == ServerSpec => []EventsReadable
  <1>1. ASSUME ServerInv PROVE EventsReadable
    <2>1. ASSUME NEW c \in Conns
          PROVE  /\ \E n \in 0..MaxEvents[c] : Written(c) = 1..n
                 /\ log = "open" => Written(c) = 1..made[c]
      <3>1. PICK n \in 0..made[c] : Recorded(c) = 1..n
        BY <1>1 DEF ServerInv, LogOK, NoHole
      <3>2. made[c] \in Nat /\ MaxEvents[c] \in Nat /\ made[c] <= MaxEvents[c]
        BY <1>1, ServerAssumption DEF ServerInv, ConnOK
      <3>3. n \in 0..MaxEvents[c] /\ 1..n \subseteq 1..MaxEvents[c]
        BY <3>1, <3>2
      <3>4. Written(c) = Recorded(c)
        BY <3>1, <3>3 DEF Written, Recorded
      <3> QED
        BY <1>1, <3>1, <3>3, <3>4 DEF ServerInv, LogOK, NoHole
    <2>2. Cardinality(garbled) <= 1
      <3>1. garbled = {} \/ \E e : garbled = {e}
        BY <1>1 DEF ServerInv, LogOK
      <3>2. garbled = {} => Cardinality(garbled) = 0
        BY FS_EmptySet
      <3>3. (\E e : garbled = {e}) => Cardinality(garbled) = 1
        BY FS_Singleton
      <3>4. Cardinality(garbled) = 0 \/ Cardinality(garbled) = 1
        BY <3>1, <3>2, <3>3, Zenon
      <3> QED
        BY <3>4
    <2> QED
      BY <2>1, <2>2 DEF EventsReadable
  <1> QED
    BY <1>1, ServerInvariant, PTL

\* Whichever way handleConn ends, and whatever its command left behind, it
\* has closed the socket and the handler's sessions.
THEOREM HandlersRelease == ServerSpec => []EndedReleases
  <1>1. ServerInv => EndedReleases
    BY DEF ServerInv, ConnOK, EndedReleases
  <1> QED
    BY <1>1, ServerInvariant, PTL
===============================================================================
