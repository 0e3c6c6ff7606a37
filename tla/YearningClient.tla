---------------------------- MODULE YearningClient ----------------------------
(***************************************************************************)
(* The HTTP client of internal/yearning/client.go, shared by every client  *)
(* connection of the proxy: the cached login token, the list of data       *)
(* sources and the map from schema to source, under one RWMutex c.mu.      *)
(*                                                                         *)
(* A caller is a goroutine inside one of the methods. Of the critical      *)
(* sections only the login of Token spans a network request, so a caller   *)
(* holds c.mu across steps only there (writer); every other section is one *)
(* step that needs c.mu free of a writer.                                  *)
(*                                                                         *)
(* Data sources are numbered in the order of their names, the order        *)
(* sourcesLocked sorts them in. Tokens are numbered as they are issued.    *)
(***************************************************************************)
EXTENDS Naturals, FiniteSets, FiniteSetsExt

CONSTANTS
  Callers,     \* goroutines
  NumSources,  \* data sources Yearning may list
  Schemas,     \* schema names, system schemas left out
  SchemasOf,   \* source -> its schemas
  MaxToken     \* bound: logins that succeed

SourceIds == 1..NumSources
Nobody    == "nobody"
NoToken   == MaxToken + 1   \* first: the login for the first dial failed

ASSUME ClientAssumption ==
  /\ Nobody \notin Callers
  /\ NumSources \in Nat \ {0}
  /\ SchemasOf \in [SourceIds -> SUBSET Schemas]
  /\ MaxToken \in Nat \ {0}

VARIABLES
  token,      \* c.token, 0 when empty
  writer,     \* who holds c.mu for a login
  source,     \* c.source
  schemaMap,  \* c.schemaToSource, 0 where a schema is absent
  issued,     \* tokens Yearning has issued: 1..issued
  expired,    \* tokens Yearning refuses: 1..expired
  pc,         \* label of each caller
  job,        \* what it is doing
  tok,        \* the token it holds
  todo,       \* fetch: the list it received; walk: the sources still to ask
  walked,     \* walk: the sources whose schemas are in its local map m
  first       \* session: the token of the first dial, 0 before it has failed

cacheVars  == <<token, source, schemaMap>>
serverVars == <<issued, expired>>
localVars  == <<job, tok, todo, walked, first>>
vars == <<cacheVars, writer, serverVars, pc, localVars>>

Absent == [s \in Schemas |-> 0]

\* The map built from the sources W: of those with a schema the first wins.
MapOf(W) ==
  [s \in Schemas |->
     LET owners == {i \in W : s \in SchemasOf[i]}
     IN  IF owners = {} THEN 0 ELSE Min(owners)]

Init ==
  /\ token = 0 /\ writer = Nobody
  /\ source = {} /\ schemaMap = Absent
  /\ issued = 0 /\ expired = 0
  /\ pc = [c \in Callers |-> "idle"]
  /\ job = [c \in Callers |-> "none"]
  /\ tok = [c \in Callers |-> 0]
  /\ todo = [c \in Callers |-> {}]
  /\ walked = [c \in Callers |-> {}]
  /\ first = [c \in Callers |-> 0]

Unlocked == writer = Nobody
Goto(c, from, to) == pc[c] = from /\ pc' = [pc EXCEPT ![c] = to]

\* The method returns.
Returns(c, from) ==
  /\ Goto(c, from, "idle")
  /\ job' = [job EXCEPT ![c] = "none"]
  /\ tok' = [tok EXCEPT ![c] = 0]
  /\ todo' = [todo EXCEPT ![c] = {}]
  /\ walked' = [walked EXCEPT ![c] = {}]
  /\ first' = [first EXCEPT ![c] = 0]

\* The loop of SchemaMap goes on with the sources in rest.
Walk(c, from, rest) ==
  /\ Goto(c, from, IF rest = {} THEN "store" ELSE "token")
  /\ job' = [job EXCEPT ![c] = "walk"]
  /\ todo' = [todo EXCEPT ![c] = rest]

-----------------------------------------------------------------------------
(* A request (Token, then the HTTP call) ends. What follows depends on the  *)
(* job: fetch is the request of Sources, walk one Schemas of SchemaMap's    *)
(* loop, order EnsureQueryOrder, session a dial of NewQuerySession.         *)

Fails(c, from) ==
  \/ job[c] \in {"fetch", "order"} /\ Returns(c, from)
  \/ /\ job[c] = "walk"
     /\ Walk(c, from, todo[c] \ {Min(todo[c])})
     /\ UNCHANGED <<tok, walked, first>>
  \/ /\ job[c] = "session"
     /\ IF first[c] = 0
        THEN Goto(c, from, "clear") /\ UNCHANGED localVars
        ELSE Returns(c, from)

\* Yearning lists any set of sources (the rights of the account change), or
\* none at all (an answer without a payload).
Succeeds(c, from) ==
  \/ /\ job[c] = "fetch"
     /\ Goto(c, from, "fill")
     /\ \E list \in SUBSET SourceIds : todo' = [todo EXCEPT ![c] = list]
     /\ UNCHANGED <<job, tok, walked, first>>
  \/ /\ job[c] = "walk"
     /\ Walk(c, from, todo[c] \ {Min(todo[c])})
     /\ walked' = [walked EXCEPT ![c] = @ \cup {Min(todo[c])}]
     /\ UNCHANGED <<tok, first>>
  \/ job[c] \in {"order", "session"} /\ Returns(c, from)

-----------------------------------------------------------------------------
(* Calls.                                                                   *)

Call(c) ==
  /\ \/ Goto(c, "idle", "mapLook") /\ job' = [job EXCEPT ![c] = "walk"]
     \/ \E j \in {"order", "session"} :
          Goto(c, "idle", "token") /\ job' = [job EXCEPT ![c] = j]
  /\ UNCHANGED <<cacheVars, writer, serverVars, tok, todo, walked, first>>

\* SchemaMap: a map with anything in it is returned as it is.
MapLook(c) ==
  /\ Unlocked
  /\ \/ schemaMap # Absent /\ Returns(c, "mapLook")
     \/ /\ schemaMap = Absent
        /\ Goto(c, "mapLook", "srcLook") /\ UNCHANGED localVars
  /\ UNCHANGED <<cacheVars, writer, serverVars>>

\* Mutant: Sources keeps c.mu while it fetches the list.
MutFetchUnderLock(c) ==
  /\ Unlocked
  /\ \/ /\ source # {}
        /\ Walk(c, "srcLook", source)
        /\ UNCHANGED <<writer, tok, walked, first>>
     \/ /\ source = {}
        /\ Goto(c, "srcLook", "token")
        /\ job' = [job EXCEPT ![c] = "fetch"]
        /\ writer' = c
        /\ UNCHANGED <<tok, todo, walked, first>>
  /\ UNCHANGED <<cacheVars, serverVars>>

\* Sources: a cached list is used, otherwise it is fetched without c.mu.
SrcLook(c) ==
  /\ Unlocked
  /\ \/ /\ source # {}
        /\ Walk(c, "srcLook", source)
        /\ UNCHANGED <<tok, walked, first>>
     \/ /\ source = {}
        /\ Goto(c, "srcLook", "token")
        /\ job' = [job EXCEPT ![c] = "fetch"]
        /\ UNCHANGED <<tok, todo, walked, first>>
  /\ UNCHANGED <<cacheVars, writer, serverVars>>

\* Mutant: the list is merged into the cached one without a second look.
MutFillMerges(c) ==
  /\ Unlocked
  /\ source' = source \cup todo[c]
  /\ Walk(c, "fill", source')
  /\ UNCHANGED <<token, schemaMap, writer, serverVars, tok, walked, first>>

\* Sources: the list is filled in unless another caller did so meanwhile.
Fill(c) ==
  /\ Unlocked
  /\ source' = IF source = {} THEN todo[c] ELSE source
  /\ Walk(c, "fill", source')
  /\ UNCHANGED <<token, schemaMap, writer, serverVars, tok, walked, first>>

\* Mutant: the walk writes into the cached map, keeping what is there.
MutStoreMerges(c) ==
  /\ Unlocked
  /\ schemaMap' = [s \in Schemas |-> IF schemaMap[s] # 0 THEN schemaMap[s]
                                     ELSE MapOf(walked[c])[s]]
  /\ Returns(c, "store")
  /\ UNCHANGED <<token, source, writer, serverVars>>

\* SchemaMap: the local map replaces the cached one, whatever that holds.
Store(c) ==
  /\ Unlocked
  /\ schemaMap' = MapOf(walked[c])
  /\ Returns(c, "store")
  /\ UNCHANGED <<token, source, writer, serverVars>>

-----------------------------------------------------------------------------
(* Token, the request, ClearToken.                                          *)

HasToken(c, from) ==
  /\ token # 0
  /\ Goto(c, from, "request")
  /\ tok' = [tok EXCEPT ![c] = token]
  /\ UNCHANGED <<job, todo, walked, first>>

\* The read-locked look.
TokenLook(c) ==
  /\ Unlocked
  /\ \/ HasToken(c, "token")
     \/ token = 0 /\ Goto(c, "token", "lock") /\ UNCHANGED localVars
  /\ UNCHANGED <<cacheVars, writer, serverVars>>

\* Mutant: Token does not look again under the write lock.
MutNoSecondLook(c) ==
  /\ Unlocked
  /\ Goto(c, "lock", "login")
  /\ writer' = c
  /\ UNCHANGED <<cacheVars, serverVars, localVars>>

\* The write-locked look; c.mu is then kept for the login.
TokenLock(c) ==
  /\ Unlocked
  /\ \/ HasToken(c, "lock") /\ UNCHANGED writer
     \/ /\ token = 0
        /\ Goto(c, "lock", "login")
        /\ writer' = c
        /\ UNCHANGED localVars
  /\ UNCHANGED <<cacheVars, serverVars>>

\* Mutant: the token Yearning issued is not the one that is cached.
MutTokenAhead(c) ==
  /\ Goto(c, "login", "request")
  /\ issued < MaxToken
  /\ issued' = issued + 1
  /\ token' = issued' + 1
  /\ tok' = [tok EXCEPT ![c] = issued']
  /\ writer' = Nobody
  /\ UNCHANGED <<source, schemaMap, expired, job, todo, walked, first>>

LoginOK(c) ==
  /\ Goto(c, "login", "request")
  /\ issued < MaxToken
  /\ issued' = issued + 1
  /\ token' = issued'
  /\ tok' = [tok EXCEPT ![c] = issued']
  /\ writer' = Nobody
  /\ UNCHANGED <<source, schemaMap, expired, job, todo, walked, first>>

LoginFails(c) ==
  /\ Fails(c, "login")
  /\ writer' = Nobody
  /\ UNCHANGED <<cacheVars, serverVars>>

RequestOK(c) ==
  /\ tok[c] > expired
  /\ Succeeds(c, "request")
  /\ UNCHANGED <<cacheVars, writer, serverVars>>

\* Any failure but a refused token: network, HTTP status, decoding.
RequestFails(c) ==
  /\ Fails(c, "request")
  /\ UNCHANGED <<cacheVars, writer, serverVars>>

\* 401 or 403. (A dial does not tell a refused token from other failures.)
Refused(c) ==
  /\ tok[c] <= expired /\ job[c] # "session"
  /\ Goto(c, "request", "clear")
  /\ UNCHANGED <<cacheVars, writer, serverVars, localVars>>

\* Mutant: sessionFor dials again without ClearToken.
MutRedialWithoutClear(c) ==
  /\ Unlocked
  /\ \/ job[c] # "session" /\ token' = 0 /\ Fails(c, "clear")
     \/ /\ job[c] = "session" /\ first[c] = 0
        /\ Goto(c, "clear", "token")
        /\ first' = [first EXCEPT ![c] = IF tok[c] = 0 THEN NoToken ELSE tok[c]]
        /\ UNCHANGED <<token, job, tok, todo, walked>>
  /\ UNCHANGED <<source, schemaMap, writer, serverVars>>

\* ClearToken. A refused request then fails; sessionFor, which clears after
\* any failed dial, dials again once.
Clear(c) ==
  /\ Unlocked
  /\ token' = 0
  /\ \/ job[c] # "session" /\ Fails(c, "clear")
     \/ /\ job[c] = "session" /\ first[c] = 0
        /\ Goto(c, "clear", "token")
        /\ first' = [first EXCEPT ![c] = IF tok[c] = 0 THEN NoToken ELSE tok[c]]
        /\ UNCHANGED <<job, tok, todo, walked>>
  /\ UNCHANGED <<source, schemaMap, writer, serverVars>>

-----------------------------------------------------------------------------
\* Yearning stops accepting the tokens it has issued.
Expire ==
  /\ expired < issued
  /\ expired' = issued
  /\ UNCHANGED <<cacheVars, writer, issued, pc, localVars>>

Step(c) ==
  \/ MapLook(c) \/ SrcLook(c) \/ Fill(c) \/ Store(c)
  \/ TokenLook(c) \/ TokenLock(c) \/ LoginOK(c) \/ LoginFails(c)
  \/ RequestOK(c) \/ RequestFails(c) \/ Refused(c) \/ Clear(c)

Next == (\E c \in Callers : Call(c) \/ Step(c)) \/ Expire

Spec == Init /\ [][Next]_vars

\* Every caller keeps running: the HTTP client has a timeout (timeout.connect)
\* and sync.RWMutex does not starve a waiter, hence SF.
FairSpec == Spec /\ \A c \in Callers : SF_vars(Step(c))

\* Clients keep asking for the map.
BusySpec == FairSpec /\ \A c \in Callers : SF_vars(Call(c) /\ job'[c] = "walk")

-----------------------------------------------------------------------------
Labels == {"idle", "mapLook", "srcLook", "fill", "store",
           "token", "lock", "login", "request", "clear"}
Jobs   == {"none", "fetch", "walk", "order", "session"}

\* The variables keep their types; a token the client holds was issued.
TypeOK ==
  /\ issued \in 0..MaxToken /\ expired \in 0..issued
  /\ token \in 0..issued
  /\ writer \in Callers \cup {Nobody}
  /\ source \in SUBSET SourceIds
  /\ schemaMap \in [Schemas -> SourceIds \cup {0}]
  /\ pc \in [Callers -> Labels]
  /\ job \in [Callers -> Jobs]
  /\ tok \in [Callers -> 0..MaxToken] /\ \A c \in Callers : tok[c] <= issued
  /\ todo \in [Callers -> SUBSET SourceIds]
  /\ walked \in [Callers -> SUBSET SourceIds]
  /\ first \in [Callers -> 0..NoToken]

\* One login at a time, and only while there is no token: a caller that
\* waited for c.mu behind a login uses that login's token.
LoginOnlyWithoutToken ==
  \A c \in Callers : pc[c] = "login" => writer = c /\ token = 0

\* The second dial of sessionFor never goes out with the token of the first:
\* whatever other callers log in or clear meanwhile, it is a later one.
RedialUsesNewToken ==
  \A c \in Callers :
    job[c] = "session" /\ pc[c] = "request" /\ first[c] \in 1..MaxToken
      => tok[c] > first[c]

\* The schema map is always that of one walk over listed sources, each schema
\* going to the first of the walked sources that has it: the maps of two
\* concurrent walks are never mixed.
MapFromOneWalk == \E W \in SUBSET source : schemaMap = MapOf(W)

\* Seen from outside the caches change as SchemaDirectory says: the list of
\* sources is filled in once, by whichever of several callers that fetched
\* different lists comes first, and every stored map is that of one walk over
\* sources of that very list, however many requests, logins, refused tokens
\* and other walks lie between its first source and its last.
Directory == INSTANCE SchemaDirectory WITH
  Sources <- SourceIds, Unknown <- 0, listed <- source, map <- schemaMap

ImplementsDirectory == Directory!Spec

\* No method call blocks for ever; c.mu is not taken twice by one caller.
CallsReturn == \A c \in Callers : pc[c] # "idle" ~> pc[c] = "idle"

-----------------------------------------------------------------------------
\* "SHOW DATABASES ... answered with all databases of all sources": a map that
\* has been built is, or becomes, the map of all sources.
MapBecomesComplete == schemaMap # Absent ~> schemaMap = MapOf(source)
=============================================================================
