------------------------------ MODULE QueryExec ------------------------------
(***************************************************************************)
(* How one client connection runs its queries on Yearning: Handler's       *)
(* session table and the functions sessionFor, dropSession, execAcross,    *)
(* execQueryRaw and Close of internal/proxy/handler.go.                    *)
(*                                                                         *)
(* Commands of one client run one at a time. A query goes to one data      *)
(* source, on the handler goroutine, or to several, on one goroutine each  *)
(* behind a semaphore. A worker is the run of sessionFor and execQueryRaw  *)
(* for one target; the workers of one query share the table h.sessions     *)
(* under h.mu, which they do not hold while they dial or wait for Yearning.*)
(*                                                                         *)
(* A session is what SessionContract promises: it may die at any time, and *)
(* an Exec on it ends with an answer or an error, except that an Exec that *)
(* starts on a dead session may never return (WsSession, ExecReturns).     *)
(***************************************************************************)
EXTENDS Naturals, Sequences, FiniteSets, SequencesExt, FiniteSetsExt

CONSTANTS
  Target,       \* the list targetSources returned: a sequence of source ids
  MaxConc,      \* maxAggregateConcurrency
  MaxPerSource  \* bound: sessions to one source the model tells apart

Workers  == DOMAIN Target
Sources  == Range(Target)
Sessions == Sources \X (1..MaxPerSource)

ASSUME TargetAssumption ==
  /\ Target \in Seq(Sources) /\ Target # <<>>
  /\ MaxConc \in Nat \ {0}
  /\ MaxPerSource \in Nat \ {0}

None == <<"none", 0>>

VARIABLES
  phase,     \* the connection: idle, running a query, closed
  asked,     \* the workers of the query that runs
  sessions,  \* h.sessions: source -> session or None
  live,      \* the sessions whose done is still open
  pc,        \* label of each worker
  attempt,   \* which sessionFor a worker is in: the first, or the reconnect
  be,        \* the session execQueryRaw was given
  nb,        \* the session it reconnected to
  dialed,    \* the session sessionFor has dialled and not registered yet
  slots,     \* tokens in the semaphore
  out,       \* outcomes[i]: rows, an error, or nothing yet
  reply      \* what the last query returned

tableVars  == <<sessions, live>>
workerVars == <<be, nb, dialed>>
vars == <<phase, asked, tableVars, pc, attempt, workerVars, slots, out, reply>>

Labels == {"off", "queue", "look", "dial", "redial", "add", "exec", "drop",
           "reexec", "retry", "fin", "hung"}

Nothing == [rows |-> {}, err |-> 0]

Init ==
  /\ phase = "idle"
  /\ asked = {}
  /\ sessions = [s \in Sources |-> None]
  /\ live = {}
  /\ pc = [w \in Workers |-> "off"]
  /\ attempt = [w \in Workers |-> 1]
  /\ be = [w \in Workers |-> None]
  /\ nb = [w \in Workers |-> None]
  /\ dialed = [w \in Workers |-> None]
  /\ slots = 0
  /\ out = [w \in Workers |-> "none"]
  /\ reply = Nothing

Goto(w, from, to) == pc[w] = from /\ pc' = [pc EXCEPT ![w] = to]
Aggregate == Cardinality(asked) > 1

-----------------------------------------------------------------------------
(* execAcross: start a query, wait for its workers, merge.                  *)

Start ==
  /\ phase = "idle" /\ phase' = "running"
  /\ \/ asked' = Workers
     \/ \E w \in Workers : asked' = {w}
  /\ pc' = [w \in Workers |-> IF w \notin asked' THEN "off"
                            ELSE IF Cardinality(asked') > 1 THEN "queue" ELSE "look"]
  /\ reply' = Nothing
  /\ UNCHANGED <<tableVars, attempt, workerVars, slots, out>>

\* Mutant: the semaphore is made larger than maxAggregateConcurrency allows.
MutAcquireOneMore(w) ==
  /\ slots <= MaxConc
  /\ Goto(w, "queue", "look")
  /\ slots' = slots + 1
  /\ UNCHANGED <<phase, asked, tableVars, attempt, workerVars, out, reply>>

\* sem <- struct{}{}
Acquire(w) ==
  /\ slots < MaxConc
  /\ Goto(w, "queue", "look")
  /\ slots' = slots + 1
  /\ UNCHANGED <<phase, asked, tableVars, attempt, workerVars, out, reply>>

\* Mutant: a worker that fails returns before it gives its token back.
MutKeepsTokenOnError(w, from, how) ==
  /\ Goto(w, from, "fin")
  /\ out' = [out EXCEPT ![w] = how]
  /\ slots' = IF Aggregate /\ how = "rows" THEN slots - 1 ELSE slots
  /\ be' = [be EXCEPT ![w] = None]
  /\ nb' = [nb EXCEPT ![w] = None]
  /\ attempt' = [attempt EXCEPT ![w] = 1]

\* Mutant: the token is given back on the single-source path too.
MutReleasesAlways(w, from, how) ==
  /\ Goto(w, from, "fin")
  /\ out' = [out EXCEPT ![w] = how]
  /\ slots' = slots - 1
  /\ be' = [be EXCEPT ![w] = None]
  /\ nb' = [nb EXCEPT ![w] = None]
  /\ attempt' = [attempt EXCEPT ![w] = 1]

\* A worker returns: its outcome is written, its locals go, and its
\* semaphore token is given back.
Ends(w, from, how) ==
  /\ Goto(w, from, "fin")
  /\ out' = [out EXCEPT ![w] = how]
  /\ slots' = IF Aggregate THEN slots - 1 ELSE slots
  /\ be' = [be EXCEPT ![w] = None]
  /\ nb' = [nb EXCEPT ![w] = None]
  /\ attempt' = [attempt EXCEPT ![w] = 1]

\* After wg.Wait() the outcomes are merged in the order of targets, which is
\* that of the numbers of their workers: failed sources are skipped, and only
\* if all failed the query fails, with the error of the first target.
Finish ==
  /\ phase = "running" /\ phase' = "idle"
  /\ \A w \in asked : pc[w] = "fin"
  /\ LET ok == {w \in asked : out[w] = "rows"}
     IN  reply' = [rows |-> ok, err |-> IF ok = {} THEN Min(asked) ELSE 0]
  /\ asked' = {}
  /\ pc' = [w \in Workers |-> "off"]
  /\ out' = [w \in Workers |-> "none"]
  /\ UNCHANGED <<tableVars, attempt, workerVars, slots>>

-----------------------------------------------------------------------------
(* sessionFor: called for the first Exec (attempt 1) and, after a           *)
(* connection error, for the reconnect (attempt 2).                         *)

\* sessionFor returns session s to its caller.
Obtains(w, from, s) ==
  IF attempt[w] = 1
  THEN /\ Goto(w, from, "exec")
       /\ be' = [be EXCEPT ![w] = s] /\ UNCHANGED nb
  ELSE /\ Goto(w, from, "reexec")
       /\ nb' = [nb EXCEPT ![w] = s] /\ UNCHANGED be

\* The first critical section, when the table holds a live session.
LookHit(w) ==
  LET s == sessions[Target[w]] IN
  /\ s \in live
  /\ Obtains(w, "look", s)
  /\ UNCHANGED <<phase, asked, tableVars, attempt, dialed, slots, out, reply>>

\* The first critical section, when it does not: what is there is dropped.
LookMiss(w) ==
  /\ Goto(w, "look", "dial")
  /\ sessions[Target[w]] \notin live
  /\ sessions' = [sessions EXCEPT ![Target[w]] = None]
  /\ UNCHANGED <<phase, asked, live, attempt, workerVars, slots, out, reply>>

\* Sessions that nothing refers to any more may be dialled again.
InUse == live \cup Range(sessions) \cup Range(be) \cup Range(nb) \cup Range(dialed)
Fresh(src) == {s \in Sessions \ InUse : s[1] = src}

\* NewQuerySession, first try or the one after ClearToken.
DialOK(w) ==
  /\ \/ Goto(w, "dial", "add")
     \/ Goto(w, "redial", "add")
  /\ Fresh(Target[w]) # {}
  /\ LET n == Min({s[2] : s \in Fresh(Target[w])}) IN
       /\ dialed' = [dialed EXCEPT ![w] = <<Target[w], n>>]
       /\ live' = live \cup {<<Target[w], n>>}
  /\ UNCHANGED <<phase, asked, sessions, attempt, be, nb, slots, out, reply>>

DialFails(w) ==
  /\ \/ Goto(w, "dial", "redial") /\ UNCHANGED <<out, slots, attempt, be, nb>>
     \/ Ends(w, "redial", "err")
  /\ UNCHANGED <<phase, asked, tableVars, dialed, reply>>

\* Mutant: sessionFor does not look again before it registers its session.
MutAddOverwrites(w) ==
  /\ Obtains(w, "add", dialed[w])
  /\ sessions' = [sessions EXCEPT ![Target[w]] = dialed[w]]
  /\ dialed' = [dialed EXCEPT ![w] = None]
  /\ UNCHANGED <<phase, asked, live, attempt, slots, out, reply>>

\* The second critical section: whoever registered first wins.
Add(w) ==
  LET src == Target[w]
      existing == sessions[src]
  IN
  /\ \/ /\ existing \in live
        /\ Obtains(w, "add", existing)
        /\ live' = live \ {dialed[w]}
        /\ UNCHANGED sessions
     \/ /\ existing \notin live
        /\ Obtains(w, "add", dialed[w])
        /\ sessions' = [sessions EXCEPT ![src] = dialed[w]]
        /\ UNCHANGED live
  /\ dialed' = [dialed EXCEPT ![w] = None]
  /\ UNCHANGED <<phase, asked, attempt, slots, out, reply>>

-----------------------------------------------------------------------------
(* execQueryRaw.                                                            *)

\* An Exec on session s that starts when s is dead may spin for ever. (The
\* model does not record when an Exec starts: s may also have died since.)
Hangs(w, from, s) ==
  /\ s \notin live
  /\ Goto(w, from, "hung")
  /\ UNCHANGED <<phase, asked, tableVars, attempt, workerVars, slots, out, reply>>

\* The answer is final: rows, or an error of Yearning, or no result set.
Answered(w, from) ==
  /\ \E how \in {"rows", "err"} : Ends(w, from, how)
  /\ UNCHANGED <<phase, asked, tableVars, dialed, reply>>

\* The answer asks for a query order (Status). EnsureQueryOrder submits one;
\* the code goes on to the retry whether that works or not.
NeedsOrder(w, from) ==
  /\ Goto(w, from, "retry")
  /\ UNCHANGED <<phase, asked, tableVars, attempt, workerVars, slots, out, reply>>

\* Exec returned an error.
Fails(w, from) ==
  /\ Ends(w, from, "err")
  /\ UNCHANGED <<phase, asked, tableVars, dialed, reply>>

\* The first Exec. A connection error, or any error once the session is
\* dead, leads to the reconnect; other errors (a timeout) end the query.
ExecFirst(w) ==
  \/ Hangs(w, "exec", be[w])
  \/ Answered(w, "exec")
  \/ NeedsOrder(w, "exec")
  \/ be[w] \in live /\ Fails(w, "exec")
  \/ /\ Goto(w, "exec", "drop")
     /\ UNCHANGED <<phase, asked, tableVars, attempt, workerVars, slots, out, reply>>

\* Mutant: the session is not dropped before the reconnect.
MutNoDrop(w) ==
  /\ Goto(w, "drop", "look")
  /\ attempt' = [attempt EXCEPT ![w] = 2]
  /\ UNCHANGED <<phase, asked, tableVars, workerVars, slots, out, reply>>

\* dropSession(srcID): whatever the table holds for the source is closed.
Drop(w) ==
  /\ Goto(w, "drop", "look")
  /\ live' = live \ {sessions[Target[w]]}
  /\ sessions' = [sessions EXCEPT ![Target[w]] = None]
  /\ attempt' = [attempt EXCEPT ![w] = 2]
  /\ UNCHANGED <<phase, asked, workerVars, slots, out, reply>>

\* The Exec on the new session; it is not retried again.
ExecAgain(w) ==
  \/ Hangs(w, "reexec", nb[w])
  \/ Answered(w, "reexec")
  \/ NeedsOrder(w, "reexec")
  \/ Fails(w, "reexec")

\* The session of the Exec after the order: be, also after a reconnect.
RetrySession(w) == be[w]

\* That Exec. Another Status is an error here (1227).
ExecRetry(w) ==
  \/ Hangs(w, "retry", RetrySession(w))
  \/ Answered(w, "retry")
  \/ Fails(w, "retry")

-----------------------------------------------------------------------------
\* The server or the network ends a session.
Die(s) ==
  /\ s \in live
  /\ live' = live \ {s}
  /\ UNCHANGED <<phase, asked, sessions, pc, attempt, workerVars, slots, out, reply>>

\* Mutant: Close empties the table and closes nothing.
MutCloseForgets ==
  /\ phase = "idle" /\ phase' = "closed"
  /\ sessions' = [s \in Sources |-> None]
  /\ UNCHANGED <<asked, live, pc, attempt, workerVars, slots, out, reply>>

\* Handler.Close, when the client has gone: no command runs any more.
Close ==
  /\ phase = "idle" /\ phase' = "closed"
  /\ live' = live \ Range(sessions)
  /\ sessions' = [s \in Sources |-> None]
  /\ UNCHANGED <<asked, pc, attempt, workerVars, slots, out, reply>>

Step(w) ==
  \/ Acquire(w)
  \/ LookHit(w) \/ LookMiss(w) \/ DialOK(w) \/ DialFails(w) \/ Add(w)
  \/ ExecFirst(w) \/ Drop(w) \/ ExecAgain(w) \/ ExecRetry(w)

Next ==
  \/ Start \/ Finish \/ Close
  \/ \E w \in Workers : Step(w)
  \/ \E s \in live : Die(s)

Spec == Init /\ [][Next]_vars

\* Every worker and the handler goroutine keep running: a dial and an Exec end
\* by their timeouts (SentExecReturns of WsSession), except in Hangs.
Fairness ==
  /\ WF_vars(Finish)
  /\ \A w \in Workers : WF_vars(Step(w))

FairSpec == Spec /\ Fairness

-----------------------------------------------------------------------------
\* The variables keep their types, and a session is only ever registered or
\* used under the source it was dialled for.
SessionOf(src) == {None} \cup ({src} \X (1..MaxPerSource))

TypeOK ==
  /\ phase \in {"idle", "running", "closed"}
  /\ asked \in SUBSET Workers
  /\ sessions \in [Sources -> Sessions \cup {None}]
  /\ \A src \in Sources : sessions[src] \in SessionOf(src)
  /\ live \in SUBSET Sessions
  /\ pc \in [Workers -> Labels]
  /\ attempt \in [Workers -> {1, 2}]
  /\ \A f \in {be, nb, dialed} : /\ f \in [Workers -> Sessions \cup {None}]
                                 /\ \A w \in Workers : f[w] \in SessionOf(Target[w])
  /\ slots \in 0..MaxConc
  /\ out \in [Workers -> {"none", "rows", "err"}]
  /\ reply \in [rows : SUBSET Workers, err : Workers \cup {0}]

\* No live session is lost: each is the one h.sessions holds for its source,
\* or is between its dial and its registration. So a source has one live
\* session at most outside sessionFor, as the comment on the double check
\* says, and no WebSocket stays open that nobody can close.
NoSessionLeaks ==
  \A s \in live :
    \/ sessions[s[1]] = s
    \/ \E w \in Workers : pc[w] = "add" /\ dialed[w] = s

\* When the client connection is over, no session of its handler is alive.
ClosedLeavesNothing == phase = "closed" => live = {}

\* An aggregated query keeps at most maxAggregateConcurrency sources busy.
Busy == {w \in Workers : pc[w] \notin {"off", "queue", "fin"}}

FanOutBounded == Cardinality(Busy) <= MaxConc

\* The reconnect gives a session other than the one that failed, and by then
\* that one is dead: dropSession has closed it, even when the failed write had
\* left it marked alive and other workers of the source were reconnecting too.
ReconnectIsFresh ==
  \A w \in Workers : nb[w] # None => nb[w] # be[w] /\ be[w] \notin live

\* Every query is answered, unless one of its workers started an Exec on a
\* session that had just died.
AnsweredUnlessHung ==
  phase = "running" ~> (phase = "idle" \/ \E w \in Workers : pc[w] = "hung")

-----------------------------------------------------------------------------
\* "With review disabled ... the retry succeeds transparently": then the retry
\* must not go to a dead session while the source has a live one.
RetryUsesLiveSession ==
  \A w \in Workers :
    pc[w] = "retry" /\ sessions[Target[w]] \in live => RetrySession(w) \in live
=============================================================================
