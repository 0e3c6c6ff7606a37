------------------------------ MODULE QueryPath ------------------------------
(***************************************************************************)
(* The path of a statement through the proxy: USE, the choice of the data  *)
(* sources and the metadata cache, for several client connections at once. *)
(* Handler.execQuery, UseDB, targetSources, resolveSource and the meta-    *)
(* cache functions of internal/proxy/handler.go, internal/metacache and    *)
(* the look-ups of internal/yearning/client.go.                            *)
(*                                                                         *)
(* The connections share the cache and the schema map; each runs its       *)
(* commands one at a time. What execAcross does to get an answer is the    *)
(* subject of QueryExec: here it is one step that reads the sources.       *)
(* Statements that are rejected or answered locally change nothing and are *)
(* left out; SHOW CREATE PROCEDURE is an uncached query with a database.   *)
(*                                                                         *)
(* Time is relative: Tick ages what has an age, and the moments at which   *)
(* the code reads the clock are the steps Get and Set.                     *)
(***************************************************************************)
EXTENDS Naturals, FiniteSets, FiniteSetsExt

CONSTANTS
  Conns,       \* client connections
  NumSources,  \* data sources of the account, numbered by name
  NumSchemas,  \* database names, numbered by name
  SchemasOf,   \* source -> its databases
  User,        \* connection -> what the client gave as user name
  Statements,  \* statements that are forwarded, see below
  Asks,        \* connection -> those its client sends
  NormalOf,    \* text -> what normalizeSQL makes of it (NormalizeSQL, SqlMeaning)
  TTL,         \* timeout.metadata_cache, in ticks
  MaxDelay,    \* bound: ticks from a source's reading to Set (timeout.query)
  MaxCommands  \* bound: commands of each connection

Sources == 1..NumSources
Schemas == 1..NumSchemas
NoDB    == 0                     \* no database: none named, none in use
Nowhere == 0                     \* a database without a source

\* db: the database extractTargetSchema finds; info: the text mentions
\* information_schema; meta: isCacheableMetaQuery; enum: SHOW DATABASES and
\* the like, answered from the schema map when there is one. The database a
\* text names is the one that is found in it: that extractTargetSchema misses
\* some ways to name one is not modelled.
Texts == DOMAIN NormalOf
Statement == [text : Texts, db : Schemas \cup {NoDB}, info : BOOLEAN, meta : BOOLEAN,
              enum : BOOLEAN]

ASSUME PathAssumption ==
  /\ NumSources \in Nat \ {0} /\ NumSchemas \in Nat \ {0}
  /\ SchemasOf \in [Sources -> SUBSET Schemas]
  /\ User \in [Conns -> ({"source"} \X Sources) \cup ({"schema"} \X Schemas) \cup {<<"other", 0>>}]
  /\ Statements \subseteq Statement
  /\ \A p, q \in Statements : p.text = q.text => p = q
  /\ Asks \in [Conns -> SUBSET Statements]
  /\ TTL \in Nat /\ MaxDelay \in Nat /\ MaxCommands \in [Conns -> Nat]

All  == 0                        \* aggregateCachePrefix
Keys == (Sources \cup {All}) \X {NormalOf[q.text] : q \in {p \in Statements : p.meta}}

NoText == ""                     \* before there is a statement

\* An answer: the sources it has rows of, the text they were asked, the
\* database it ran in (when that matters) and the time since they were read.
NoAnswer == [from |-> {}, of |-> NoText, db |-> NoDB, age |-> 0]
\* A cache entry: an answer, and the time since Set up to one past the TTL.
NoEntry  == [val |-> NoAnswer, since |-> TTL + 1]

VARIABLES
  schemaMap,  \* c.schemaToSource
  listed,     \* c.source has been fetched
  cache,      \* entries: NoEntry where there is none
  schema,     \* h.schema of each connection
  pc, stmt, want, stage, target, ans,   \* the statement each one works on
  failed,     \* history: a load of the schema map failed for this statement
  missed,     \* history: a map without some source's databases was stored
  count       \* commands of each so far, for the bound

sharedVars == <<schemaMap, listed, cache, missed>>
localVars  == <<stmt, want, stage, target, ans, failed>>
vars == <<sharedVars, schema, pc, localVars, count>>

NoStatement == [text |-> NoText, db |-> NoDB, info |-> FALSE, meta |-> FALSE, enum |-> FALSE]
Absent == [s \in Schemas |-> Nowhere]

\* The map SchemaMap builds when the sources W answer: the first wins.
MapOf(W) ==
  [s \in Schemas |->
     LET owners == {i \in W : s \in SchemasOf[i]}
     IN  IF owners = {} THEN Nowhere ELSE Min(owners)]

Owner(s) == MapOf(Sources)[s]

Init ==
  /\ schemaMap = Absent
  /\ listed \in BOOLEAN          \* main fetches the list, and may fail to
  /\ cache = [k \in Keys |-> NoEntry]
  /\ missed = FALSE
  /\ schema = [c \in Conns |-> NoDB]
  /\ pc = [c \in Conns |-> "idle"]
  /\ stmt = [c \in Conns |-> NoStatement]
  /\ want = [c \in Conns |-> NoDB]
  /\ stage = [c \in Conns |-> "none"]
  /\ target = [c \in Conns |-> {}]
  /\ ans = [c \in Conns |-> NoAnswer]
  /\ failed = [c \in Conns |-> FALSE]
  /\ count = [c \in Conns |-> 0]

Goto(c, from, to) == pc[c] = from /\ pc' = [pc EXCEPT ![c] = to]

\* Nothing is kept of the command.
Leaves(c, from, to) ==
  /\ Goto(c, from, to)
  /\ stmt' = [stmt EXCEPT ![c] = NoStatement]
  /\ want' = [want EXCEPT ![c] = NoDB]
  /\ stage' = [stage EXCEPT ![c] = "none"]
  /\ target' = [target EXCEPT ![c] = {}]
  /\ ans' = [ans EXCEPT ![c] = NoAnswer]
  /\ failed' = [failed EXCEPT ![c] = FALSE]

\* The command ends: with an error, or a local answer, or after "done".
Ends(c, from) == Leaves(c, from, "idle")

-----------------------------------------------------------------------------
(* Commands.                                                                *)

\* USE and COM_INIT_DB, whether the database exists or not.
Use(c) ==
  /\ pc[c] = "idle"
  /\ count[c] < MaxCommands[c] /\ count' = [count EXCEPT ![c] = @ + 1]
  /\ \E d \in Schemas : schema' = [schema EXCEPT ![c] = d]
  /\ UNCHANGED <<sharedVars, pc, localVars>>

\* What targetSources looks at first.
RouteFrom(d) == IF d = NoDB THEN "user" ELSE "look"

\* The database a statement names takes the place of the one in use.
DatabaseOf(c, q) == IF q.db # NoDB THEN q.db ELSE schema[c]

\* A statement arrives.
Query(c) ==
  \E q \in Asks[c] : LET d == DatabaseOf(c, q) IN
    /\ count[c] < MaxCommands[c] /\ count' = [count EXCEPT ![c] = @ + 1]
    /\ Goto(c, "idle", IF q.enum THEN "map" ELSE RouteFrom(d))
    /\ stage' = [stage EXCEPT ![c] = IF q.enum THEN "names" ELSE "target"]
    /\ stmt' = [stmt EXCEPT ![c] = q]
    /\ want' = [want EXCEPT ![c] = d]
    /\ UNCHANGED <<sharedVars, schema, target, ans, failed>>

-----------------------------------------------------------------------------
(* targetSources (stage "target"), the resolveSource it calls ("resolve")   *)
(* and the latter's last resort ("any"). The first two look the database up *)
(* in the map, have the map loaded, look again and go on.                   *)

Routed(c, from, ids) ==
  /\ Goto(c, from, "get")
  /\ target' = [target EXCEPT ![c] = ids]
  /\ stage' = [stage EXCEPT ![c] = "none"]
  /\ UNCHANGED <<stmt, want, ans, failed>>

\* Mutant: the last resort looks the database up once more, and again.
MutNextStageLoops(c, from) ==
  \/ /\ stage[c] = "names" /\ Goto(c, from, RouteFrom(want[c]))
     /\ stage' = [stage EXCEPT ![c] = "target"]
  \/ /\ stage[c] = "target" /\ Goto(c, from, "look")
     /\ stage' = [stage EXCEPT ![c] = "resolve"]
  \/ stage[c] = "resolve" /\ Goto(c, from, "look") /\ UNCHANGED stage

\* After a look that found nothing following a load, or a load that failed.
NextStage(c, from) ==
  \/ /\ stage[c] = "names" /\ Goto(c, from, RouteFrom(want[c]))
     /\ stage' = [stage EXCEPT ![c] = "target"]
  \/ /\ stage[c] = "target" /\ Goto(c, from, "look")
     /\ stage' = [stage EXCEPT ![c] = "resolve"]
  \/ stage[c] = "resolve" /\ Goto(c, from, "user") /\ UNCHANGED stage

\* Mutant: the map is not loaded for a database it does not hold.
MutLookWithoutLoad(c) ==
  /\ pc[c] = "look"
  /\ \/ /\ schemaMap[want[c]] # Nowhere
        /\ Routed(c, "look", {schemaMap[want[c]]})
     \/ /\ schemaMap[want[c]] = Nowhere
        /\ Goto(c, "look", "user") /\ UNCHANGED localVars
  /\ UNCHANGED <<sharedVars, schema>>

\* SourceBySchema, before the map is loaded.
Look(c) ==
  /\ pc[c] = "look"
  /\ \/ /\ schemaMap[want[c]] # Nowhere
        /\ Routed(c, "look", {schemaMap[want[c]]})
     \/ /\ schemaMap[want[c]] = Nowhere
        /\ Goto(c, "look", "map") /\ UNCHANGED localVars
  /\ UNCHANGED <<sharedVars, schema>>

\* SourceBySchema, after it. The map may be another one by now.
LookAgain(c) ==
  /\ pc[c] = "again"
  /\ \/ /\ schemaMap[want[c]] # Nowhere
        /\ Routed(c, "again", {schemaMap[want[c]]})
     \/ /\ schemaMap[want[c]] = Nowhere
        /\ NextStage(c, "again")
        /\ UNCHANGED <<stmt, want, target, ans, failed>>
  /\ UNCHANGED <<sharedVars, schema>>

\* An information_schema query without a database goes to all sources.
Targets(c, id) ==
  IF want[c] = NoDB /\ stmt[c].info THEN Sources ELSE {id}

\* ResolveSourceID: the user name as the name of a source. The list of
\* sources is fetched if it is not there, which may fail.
FromUser(c) ==
  /\ pc[c] = "user"
  /\ \/ listed /\ UNCHANGED listed
     \/ ~listed /\ listed' \in BOOLEAN
  /\ \/ /\ listed' /\ User[c][1] = "source"
        /\ Routed(c, "user", Targets(c, User[c][2]))
     \/ /\ ~(listed' /\ User[c][1] = "source")
        /\ Goto(c, "user", "map")
        /\ stage' = [stage EXCEPT ![c] = "any"]
        /\ UNCHANGED <<stmt, want, target, ans, failed>>
  /\ UNCHANGED <<schemaMap, cache, missed, schema>>

\* Mutant: the user name is taken for a database without looking.
MutPickUser(c, m) ==
  IF User[c][1] = "schema" THEN m[User[c][2]]
  ELSE m[Min({s \in Schemas : m[s] # Nowhere})]

\* pickSchemaSource, else the source of the first database.
PickSource(c, m) ==
  IF User[c][1] = "schema" /\ m[User[c][2]] # Nowhere THEN m[User[c][2]]
  ELSE m[Min({s \in Schemas : m[s] # Nowhere})]

\* SchemaMap has returned the map m.
MapReturned(c, from, m) ==
  \/ stage[c] = "names" /\ Ends(c, from)
  \/ stage[c] \in {"target", "resolve"} /\ Goto(c, from, "again") /\ UNCHANGED localVars
  \/ stage[c] = "any" /\ m = Absent /\ Ends(c, from)
  \/ stage[c] = "any" /\ m # Absent /\ Routed(c, from, Targets(c, PickSource(c, m)))

\* SchemaMap finds a map.
MapCached(c) ==
  /\ pc[c] = "map"
  /\ schemaMap # Absent
  /\ MapReturned(c, "map", schemaMap)
  /\ UNCHANGED <<sharedVars, schema>>

\* It finds none, has the list of sources and sets out to ask them.
MapMissing(c) ==
  /\ schemaMap = Absent
  /\ listed' = TRUE
  /\ Goto(c, "map", "walk")
  /\ UNCHANGED <<schemaMap, cache, missed, schema, localVars>>

\* The list of sources could not be fetched.
MapFails(c) ==
  /\ pc[c] = "map"
  /\ schemaMap = Absent
  /\ ~listed
  /\ \/ /\ NextStage(c, "map")
        /\ failed' = [failed EXCEPT ![c] = TRUE]
        /\ UNCHANGED <<stmt, want, target, ans>>
     \/ stage[c] = "any" /\ Ends(c, "map")
  /\ UNCHANGED <<sharedVars, schema>>

\* It has asked them: the databases of those that answered are stored.
MapLoaded(c) ==
  /\ pc[c] = "walk"
  /\ \E W \in SUBSET Sources :
       /\ schemaMap' = MapOf(W)
       /\ missed' = (missed \/ W # Sources)
       /\ MapReturned(c, "walk", MapOf(W))
  /\ UNCHANGED <<listed, cache, schema>>

-----------------------------------------------------------------------------
(* The cache, and the answer.                                               *)

\* Mutant: no prefix of their own for the queries that go to all sources.
MutKeyOfFirst(ids) == Min(ids)

CacheKeyFor(ids) == IF Cardinality(ids) = 1 THEN Min(ids) ELSE All

\* Two texts that normalizeSQL makes one, those that differ in the blanks of a
\* literal among them, have the same key.
Key(c) == <<CacheKeyFor(target[c]), NormalOf[stmt[c].text]>>

Answered(c, from, a) ==
  /\ Goto(c, from, "done")
  /\ ans' = [ans EXCEPT ![c] = a]
  /\ UNCHANGED <<stmt, want, stage, target, failed>>

\* Mutant: an expired entry is deleted, and returned all the same.
MutServeExpired(c) ==
  /\ pc[c] = "get"
  /\ stmt[c].meta /\ cache[Key(c)] # NoEntry
  /\ Answered(c, "get", [cache[Key(c)].val EXCEPT !.age = @ + cache[Key(c)].since])
  /\ UNCHANGED <<sharedVars, schema>>

\* Cache.Get finds a live entry.
GetHit(c) ==
  /\ pc[c] = "get"
  /\ stmt[c].meta /\ cache[Key(c)].since <= TTL
  /\ Answered(c, "get", [cache[Key(c)].val EXCEPT !.age = @ + cache[Key(c)].since])
  /\ UNCHANGED <<sharedVars, schema>>

\* It finds none, or one past its time, which it goes on to delete.
GetMiss(c) ==
  /\ pc[c] = "get"
  /\ \/ ~stmt[c].meta /\ Goto(c, "get", "exec")
     \/ stmt[c].meta /\ cache[Key(c)] = NoEntry /\ Goto(c, "get", "exec")
     \/ /\ stmt[c].meta /\ cache[Key(c)] # NoEntry /\ cache[Key(c)].since > TTL
        /\ Goto(c, "get", "purge")
  /\ UNCHANGED <<sharedVars, schema, localVars>>

\* Cache.Delete, in a critical section of its own: what is there by now goes.
Purge(c) ==
  /\ pc[c] = "purge"
  /\ Goto(c, "purge", "exec")
  /\ cache' = [cache EXCEPT ![Key(c)] = NoEntry]
  /\ UNCHANGED <<schemaMap, listed, missed, schema, localVars>>

\* execAcross: of several sources those that fail are left out. The database
\* in use matters unless the statement says which tables it is about.
ReadFrom(c, ok) ==
  [from |-> ok, of |-> stmt[c].text,
   db |-> IF stmt[c].info THEN stmt[c].db ELSE want[c], age |-> 0]

\* The server's: SHOW TABLES and its like end in an error, "no database
\* selected", where none is named and none in use.
Refused(c) == stmt[c].meta /\ ~stmt[c].info /\ want[c] = NoDB

Exec(c) ==
  /\ pc[c] = "exec" /\ ~Refused(c)
  /\ \E ok \in (SUBSET target[c]) \ {{}} :
       \/ /\ stmt[c].meta
          /\ Goto(c, "exec", "set")
          /\ ans' = [ans EXCEPT ![c] = ReadFrom(c, ok)]
          /\ UNCHANGED <<stmt, want, stage, target, failed>>
       \/ ~stmt[c].meta /\ Answered(c, "exec", ReadFrom(c, ok))
  /\ UNCHANGED <<sharedVars, schema>>

ExecFails(c) ==
  /\ Ends(c, "exec")
  /\ UNCHANGED <<sharedVars, schema>>

\* One of the sessions has died and its channel is closed: drainPending takes
\* from it for ever, and the command with it (Hangs in QueryExec).
ExecHangs(c) ==
  /\ Leaves(c, "exec", "hung")
  /\ UNCHANGED <<sharedVars, schema>>

\* metaCacheSet, which stores no answer without a result set.
Set(c) ==
  /\ pc[c] = "set"
  /\ Answered(c, "set", ans[c])
  /\ \/ cache' = [cache EXCEPT ![Key(c)] = [val |-> ans[c], since |-> 0]]
     \/ UNCHANGED cache
  /\ UNCHANGED <<schemaMap, listed, missed, schema>>

Done(c) ==
  /\ Ends(c, "done")
  /\ UNCHANGED <<sharedVars, schema>>

-----------------------------------------------------------------------------
\* Time passes; an answer is under way for MaxDelay at most.
Tick ==
  /\ \A c \in Conns : pc[c] = "set" => ans[c].age < MaxDelay
  /\ ans' = [c \in Conns |-> IF pc[c] = "set" THEN [ans[c] EXCEPT !.age = @ + 1] ELSE ans[c]]
  /\ cache' = [k \in Keys |-> IF cache[k].since > TTL THEN cache[k]
                              ELSE [cache[k] EXCEPT !.since = @ + 1]]
  /\ UNCHANGED <<schemaMap, listed, missed, schema, pc, stmt, want, stage, target, failed, count>>

Step(c) ==
  /\ \/ Look(c) \/ LookAgain(c) \/ FromUser(c)
     \/ MapCached(c) \/ MapMissing(c) \/ MapLoaded(c) \/ MapFails(c)
     \/ GetHit(c) \/ GetMiss(c) \/ Purge(c)
     \/ Exec(c) \/ ExecFails(c) \/ ExecHangs(c) \/ Set(c) \/ Done(c)
  /\ UNCHANGED count

Next == (\E c \in Conns : Use(c) \/ Query(c) \/ Step(c)) \/ Tick

Spec == Init /\ [][Next]_vars

\* A connection's goroutine goes on with its statement: requests to Yearning
\* end by their timeouts, and a query does too or hangs, which is a step of its
\* own (ExecHangs) that nothing follows.
FairSpec == Spec /\ \A c \in Conns : WF_vars(Step(c))

-----------------------------------------------------------------------------
(* Properties.                                                              *)

Answer == [from : SUBSET Sources, of : Texts \cup {NoText}, db : Schemas \cup {NoDB},
           age : 0..(TTL + MaxDelay + 1)]
Entry  == [val : Answer, since : 0..(TTL + 1)]

\* Types; in particular a statement is sent to sources that exist.
TypeOK ==
  /\ schemaMap \in [Schemas -> Sources \cup {Nowhere}]
  /\ listed \in BOOLEAN /\ missed \in BOOLEAN
  /\ cache \in [Keys -> Entry]
  /\ schema \in [Conns -> Schemas \cup {NoDB}]
  /\ pc \in [Conns -> {"idle", "look", "again", "user", "map", "walk",
                       "get", "purge", "exec", "hung", "set", "done"}]
  /\ stmt \in [Conns -> Statements \cup {NoStatement}]
  /\ want \in [Conns -> Schemas \cup {NoDB}]
  /\ stage \in [Conns -> {"none", "names", "target", "resolve", "any"}]
  /\ target \in [Conns -> SUBSET Sources]
  /\ ans \in [Conns -> Answer]
  /\ failed \in [Conns -> BOOLEAN]
  /\ \A c \in Conns : count[c] \in 0..MaxCommands[c]

\* No answer shows the sources as they were longer ago than the cache's time
\* and one query: an entry's time runs from Set, its data is from before, and
\* neither Get nor a Delete of the key by another connection prolongs it.
AnswersRecent ==
  \A c \in Conns : pc[c] = "done" => ans[c].age <= TTL + MaxDelay

\* Another statement has the same text in the cache's keys.
SharesKey(q) == \E p \in Statements : p # q /\ NormalOf[p.text] = NormalOf[q.text]

\* An answer, cached or not, has rows of the sources the statement goes to and
\* of no other, also when the same text goes to all sources at one time and
\* to one at another; it answers this statement, and about the database the
\* statement names. The exception is two statements that normalizeSQL takes for
\* one, as it does where they differ in a literal's blanks: each may get the
\* other's answer, and no third one's.
AnswersOwnStatement ==
  \A c \in Conns : pc[c] = "done" =>
    /\ ans[c].from # {} /\ ans[c].from \subseteq target[c]
    /\ NormalOf[ans[c].of] = NormalOf[stmt[c].text]
    /\ stmt[c].db # NoDB => want[c] = stmt[c].db
    /\ \/ SharesKey(stmt[c]) /\ stmt[c].meta
       \/ ans[c].of = stmt[c].text /\ (stmt[c].db # NoDB => ans[c].db = stmt[c].db)

\* A statement about a database that a source has is sent to the first such
\* source and to no other, whoever the user is and however late the map is
\* loaded; unless a load failed or some source did not answer to one.
RoutedToOwner ==
  \A c \in Conns :
    /\ pc[c] \in {"get", "purge", "exec", "set", "done"}
    /\ want[c] # NoDB /\ Owner(want[c]) # Nowhere
    /\ ~missed /\ ~failed[c]
    => target[c] = {Owner(want[c])}

\* Every statement ends with an answer or an error, but for one whose query
\* hangs on a dead session: the look-ups, loads and last resorts of
\* targetSources and resolveSource come to an end, whatever the other
\* connections do, and the connection is at rest again.
Resting(c) == pc[c] \in {"idle", "hung"}

QueriesAnswered == \A c \in Conns : []<>Resting(c)

\* What the documentation says of USE: a statement without a database of its
\* own is about the database in use, also when its answer was cached.
AnswersOwnDatabase ==
  \A c \in Conns :
    (pc[c] = "done" /\ ~stmt[c].info /\ want[c] # NoDB) => ans[c].db = want[c]
=============================================================================
