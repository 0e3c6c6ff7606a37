-------------------------------- MODULE Server --------------------------------
(***************************************************************************)
(* The process: main's accept loop and signal goroutine and handleConn of   *)
(* main.go, one goroutine per client connection, and the audit log of       *)
(* internal/audit/audit.go that all of them write to, over several starts   *)
(* of the program with one log file.                                        *)
(*                                                                         *)
(* What a command does between its start and its answer is the subject of   *)
(* QueryExec and QueryPath; here it may leave Yearning sessions in its      *)
(* handler, record an event, panic, or never return (QueryExec's Hangs).    *)
(* A ping or the closing of a prepared statement records nothing and        *)
(* changes nothing.                                                         *)
(***************************************************************************)
EXTENDS Naturals, FiniteSets

CONSTANTS
  Conns,     \* client connections of one start of the program
  MaxEvents  \* bound: connection -> the number of events it records at most

ASSUME ServerAssumption == MaxEvents \in [Conns -> Nat]

VARIABLES
  main,       \* main: accepting; closing the log and exiting, deferred; exited
  listening,  \* l is open
  client,     \* the client's end of a connection
  conn,       \* label of handleConn
  socket,     \* the proxy's end is open
  held,       \* h.sessions may hold a session
  log,        \* aud: off (nil), open, broken, closed
  torn,       \* the file ends in an incomplete line
  made,       \* events handed to Record
  readable,   \* events of this start in the file that ReadEvents returns:
              \* <<connection, number>>
  garbled     \* those that it skips

fileVars == <<torn, readable, garbled>>
logVars  == <<log, made, fileVars>>
connVars == <<client, conn, socket, held>>
mainVars == <<main, listening>>
serverVars == <<mainVars, connVars, logVars>>

Up == main # "exited"

\* The log may be switched off, or fail to open.
ServerInit ==
  /\ main = "accepting" /\ listening = TRUE
  /\ log \in {"off", "open"} /\ torn = FALSE
  /\ readable = {} /\ garbled = {}
  /\ made = [c \in Conns |-> 0]
  /\ client = [c \in Conns |-> "away"]
  /\ conn = [c \in Conns |-> "none"]
  /\ socket = [c \in Conns |-> FALSE]
  /\ held = [c \in Conns |-> FALSE]

ConnGoto(c, from, to) == Up /\ conn[c] = from /\ conn' = [conn EXCEPT ![c] = to]

-----------------------------------------------------------------------------
(* Logger.Record, one critical section of l.mu.                             *)

\* A line is appended: to what a start before this one left of its last line,
\* if that was not written whole.
AppendLine(e) ==
  /\ torn' = FALSE
  /\ IF torn THEN garbled' = garbled \cup {e} /\ UNCHANGED readable
     ELSE readable' = readable \cup {e} /\ UNCHANGED garbled

\* Mutant: after a failed write the log goes on.
MutRecord(c) ==
  /\ made' = [made EXCEPT ![c] = @ + 1]
  /\ UNCHANGED log
  /\ \/ log # "open" /\ UNCHANGED fileVars
     \/ log = "open" /\ AppendLine(<<c, made[c] + 1>>)
     \/ log = "open" /\ torn' \in {torn, TRUE} /\ UNCHANGED <<readable, garbled>>

\* The write may fail, part of the line written or not: then no more follow.
Record(c) ==
  /\ made' = [made EXCEPT ![c] = @ + 1]
  /\ \/ log # "open" /\ UNCHANGED <<log, fileVars>>
     \/ log = "open" /\ UNCHANGED log /\ AppendLine(<<c, made[c] + 1>>)
     \/ /\ log = "open" /\ log' = "broken"
        /\ torn' \in {torn, TRUE} /\ UNCHANGED <<readable, garbled>>

-----------------------------------------------------------------------------
(* Clients, and handleConn.                                                 *)

Connect(c) ==
  /\ listening /\ client[c] = "away"
  /\ client' = [client EXCEPT ![c] = "there"]
  /\ UNCHANGED <<mainVars, conn, socket, held, logVars>>

Leave(c) ==
  /\ client[c] = "there"
  /\ client' = [client EXCEPT ![c] = "left"]
  /\ UNCHANGED <<mainVars, conn, socket, held, logVars>>

\* l.Accept, go handleConn.
Accept(c) ==
  /\ main = "accepting" /\ listening /\ client[c] # "away"
  /\ ConnGoto(c, "none", "handshake")
  /\ socket' = [socket EXCEPT ![c] = TRUE]
  /\ UNCHANGED <<mainVars, client, held, logVars>>

\* A client that names a database has UseDB called before it is let in.
HandshakeUse(c) ==
  /\ made[c] = 0 /\ MaxEvents[c] > 0
  /\ ConnGoto(c, "handshake", "handshake")
  /\ Record(c)
  /\ UNCHANGED <<mainVars, client, socket, held>>

HandshakeOK(c) ==
  /\ client[c] = "there"
  /\ ConnGoto(c, "handshake", "ready")
  /\ UNCHANGED <<mainVars, client, socket, held, logVars>>

\* The wrong password, or the client has gone: c.Close().
HandshakeFails(c) ==
  /\ ConnGoto(c, "handshake", "ended")
  /\ socket' = [socket EXCEPT ![c] = FALSE]
  /\ UNCHANGED <<mainVars, client, held, logVars>>

Command(c) ==
  /\ client[c] = "there" /\ made[c] < MaxEvents[c]
  /\ ConnGoto(c, "ready", "running")
  /\ UNCHANGED <<mainVars, client, socket, held, logVars>>

\* Mutant: the loop goes on after an error of HandleCommand.
MutFinishes(c) ==
  /\ ConnGoto(c, "running", "ready")
  /\ Record(c)
  /\ held' = [held EXCEPT ![c] = TRUE]
  /\ socket' = [socket EXCEPT ![c] = client[c] = "there"]
  /\ UNCHANGED <<mainVars, client>>

\* The command records its one event, whichever way it ends, and answers. If
\* that fails HandleCommand closes the connection and the loop ends.
Finishes(c) ==
  /\ ConnGoto(c, "running", IF client[c] = "there" THEN "ready" ELSE "unwind")
  /\ Record(c)
  /\ held' = [held EXCEPT ![c] = TRUE]
  /\ socket' = [socket EXCEPT ![c] = client[c] = "there"]
  /\ UNCHANGED <<mainVars, client>>

\* Mutant: the deferred calls of handleConn stop at the recover.
MutPanics(c) ==
  /\ ConnGoto(c, "running", "ended")
  /\ Record(c)
  /\ held' = [held EXCEPT ![c] = TRUE]
  /\ socket' = [socket EXCEPT ![c] = FALSE]
  /\ UNCHANGED <<mainVars, client>>

\* A panic of the command: HandleQuery's deferred function records, and the
\* panic reaches the deferred calls of handleConn, of which one recovers.
Panics(c) ==
  /\ ConnGoto(c, "running", "unwind")
  /\ Record(c)
  /\ held' = [held EXCEPT ![c] = TRUE]
  /\ UNCHANGED <<mainVars, client, socket>>

NeverReturns(c) ==
  /\ ConnGoto(c, "running", "hung")
  /\ UNCHANGED <<mainVars, client, socket, held, logVars>>

\* Mutant: a read error is taken for an empty command.
MutDisconnect(c) ==
  /\ client[c] = "left"
  /\ ConnGoto(c, "ready", "ready")
  /\ UNCHANGED <<mainVars, client, socket, held, logVars>>

\* HandleCommand reads the end of the stream, and closes the connection.
Disconnect(c) ==
  /\ client[c] = "left"
  /\ ConnGoto(c, "ready", "unwind")
  /\ socket' = [socket EXCEPT ![c] = FALSE]
  /\ UNCHANGED <<mainVars, client, held, logVars>>

\* The deferred calls: h.Close(), conn.Close() unless it is closed, c.Close().
Unwind(c) ==
  /\ ConnGoto(c, "unwind", "ended")
  /\ held' = [held EXCEPT ![c] = FALSE]
  /\ socket' = [socket EXCEPT ![c] = FALSE]
  /\ UNCHANGED <<mainVars, client, logVars>>

-----------------------------------------------------------------------------
(* main.                                                                    *)

\* The signal goroutine closes the listener.
Signal ==
  /\ Up /\ listening
  /\ listening' = FALSE
  /\ UNCHANGED <<main, connVars, logVars>>

\* Mutant: every error of Accept is tried again.
MutAcceptFails ==
  /\ main = "accepting" /\ listening
  /\ UNCHANGED serverVars

\* Accept fails, because the listener is closed or otherwise (no descriptors
\* left): main returns. Only a timeout would be tried again.
AcceptFails ==
  /\ main = "accepting" /\ main' = "closing"
  /\ UNCHANGED <<listening, connVars, logVars>>

\* The deferred aud.Close(), while the handlers still run.
CloseLog ==
  /\ main = "closing" /\ main' = "exiting"
  /\ log' = IF log = "off" THEN "off" ELSE "closed"
  /\ UNCHANGED <<listening, connVars, made, fileVars>>

\* The process ends, with all its goroutines and sockets; what it has written
\* stays in the file.
ProcessEnds ==
  /\ main' = "exited" /\ listening' = FALSE
  /\ client' = [c \in Conns |-> "away"]
  /\ conn' = [c \in Conns |-> "none"]
  /\ socket' = [c \in Conns |-> FALSE]
  /\ held' = [c \in Conns |-> FALSE]
  /\ made' = [c \in Conns |-> 0]
  /\ log' = "closed"
  /\ readable' = {} /\ garbled' = {} /\ UNCHANGED torn

Exit == main = "exiting" /\ ProcessEnds

\* It is killed, or a goroutine panics that nothing recovers: one of
\* execAcross, or handleConn in the handshake.
Crash == Up /\ ProcessEnds

\* The log file is opened for appending.
Restart ==
  /\ ~Up /\ main' = "accepting" /\ listening' = TRUE
  /\ log' \in {"off", "open"}
  /\ UNCHANGED <<connVars, made, fileVars>>

\* What handleConn does by itself once its client has sent a command or gone.
HandlerStep(c) ==
  \/ client[c] = "left" /\ HandshakeFails(c)
  \/ Finishes(c) \/ Panics(c) \/ Disconnect(c) \/ Unwind(c)

\* What main does by itself once the listener is closed or Accept has failed.
MainStep == (~listening /\ AcceptFails) \/ CloseLog \/ Exit

ServerNext ==
  \/ \E c \in Conns :
       \/ Connect(c) \/ Leave(c) \/ Accept(c)
       \/ HandshakeUse(c) \/ HandshakeOK(c) \/ HandshakeFails(c)
       \/ Command(c) \/ NeverReturns(c) \/ HandlerStep(c)
  \/ Signal \/ AcceptFails \/ CloseLog \/ Exit \/ Crash \/ Restart

ServerSpec == ServerInit /\ [][ServerNext]_serverVars

\* The goroutines keep running. A client that connects and stays silent in the
\* handshake is waited for: the code sets no deadline.
ServerFairness ==
  /\ \A c \in Conns : WF_serverVars(HandlerStep(c))
  /\ WF_serverVars(MainStep)

FairServerSpec == ServerSpec /\ ServerFairness

-----------------------------------------------------------------------------
(* Properties.                                                              *)

Events == Conns \X (Nat \ {0})

\* The variables keep their types, and the command loop runs only while its
\* connection is open.
ServerTypeOK ==
  /\ main \in {"accepting", "closing", "exiting", "exited"}
  /\ listening \in BOOLEAN
  /\ client \in [Conns -> {"away", "there", "left"}]
  /\ conn \in [Conns -> {"none", "handshake", "ready", "running", "hung",
                         "unwind", "ended"}]
  /\ socket \in [Conns -> BOOLEAN] /\ held \in [Conns -> BOOLEAN]
  /\ \A c \in Conns : conn[c] \in {"ready", "running"} => socket[c]
  /\ log \in {"off", "open", "broken", "closed"} /\ torn \in BOOLEAN
  /\ made \in [Conns -> Nat] /\ \A c \in Conns : made[c] <= MaxEvents[c]
  /\ readable \in SUBSET Events /\ garbled \in SUBSET Events

Written(c) == {n \in 1..MaxEvents[c] : <<c, n>> \in readable \cup garbled}

\* The report misses no event in the middle: of every connection the file has
\* the events up to some point, which is the last one while the log is open;
\* and of these a write that failed half-way costs one at most, the first that
\* the next start of the program writes.
EventsReadable ==
  /\ \A c \in Conns : \E n \in 0..MaxEvents[c] : Written(c) = 1..n
  /\ log = "open" => \A c \in Conns : Written(c) = 1..made[c]
  /\ Cardinality(garbled) <= 1

\* When handleConn has returned, whether the handshake failed, the client left
\* or a command panicked, nothing of the connection is left: neither its
\* socket nor a session to Yearning.
EndedReleases ==
  \A c \in Conns : conn[c] \in {"none", "ended"} => ~socket[c] /\ ~held[c]

\* What is being wound up: the process once its listener is closed or Accept
\* has failed, or a connection that its client has left.
Winding ==
  \/ Up /\ (main # "accepting" \/ ~listening)
  \/ \E c \in Conns : client[c] = "left" /\ conn[c] \notin {"none", "ended", "hung"}

\* That comes to an end: the proxy never stays up without serving, whatever its
\* handlers do, and gives up a connection in whatever state of handshake,
\* command or answer the client leaves it, unless its command never returns.
WindsUp == Winding ~> ~Winding
=============================================================================
