---------------------------- MODULE QueryPathProofs ----------------------------
(***************************************************************************)
(* Proofs about QueryPath, for every set of connections, all sources with  *)
(* any databases, all statements, times and delays. In order: types and    *)
(* ages; routing to the owner; whose answer a statement gets.              *)
(***************************************************************************)
EXTENDS QueryPath, SetFacts, TLAPS

-----------------------------------------------------------------------------
(* Facts about the constants and the operators.                             *)

LEMMA NumberFacts ==
  /\ Sources \in SUBSET Nat /\ Schemas \in SUBSET Nat
  /\ IsFiniteSet(Sources)
  /\ NoDB \notin Schemas /\ Nowhere \notin Sources /\ All \notin Sources
  /\ TTL \in Nat /\ MaxDelay \in Nat
  BY PathAssumption, FS_Interval DEF Sources, Schemas, NoDB, Nowhere, All

\* A map is one from databases to sources, whatever was walked.
LEMMA MapOfType ==
  ASSUME NEW W \in SUBSET Sources
  PROVE  MapOf(W) \in [Schemas -> Sources \cup {Nowhere}]
  <1> SUFFICES ASSUME NEW s \in Schemas, {i \in W : s \in SchemasOf[i]} # {}
               PROVE  Min({i \in W : s \in SchemasOf[i]}) \in Sources
    BY DEF MapOf
  <1>1. {i \in W : s \in SchemasOf[i]} \in SUBSET Nat
    BY NumberFacts
  <1>2. Min({i \in W : s \in SchemasOf[i]}) \in {i \in W : s \in SchemasOf[i]}
    BY <1>1, MinOfSet
  <1> QED
    BY <1>2

\* The last resort finds a source in any map but the empty one.
LEMMA PickType ==
  ASSUME NEW c \in Conns, NEW m \in [Schemas -> Sources \cup {Nowhere}], m # Absent
  PROVE  PickSource(c, m) \in Sources
  <1> DEFINE mapped == {s \in Schemas : m[s] # Nowhere}
  <1>1. mapped # {} /\ mapped \in SUBSET Nat
    BY NumberFacts DEF Absent
  <1>2. Min(mapped) \in mapped
    BY <1>1, MinOfSet
  <1>3. m[Min(mapped)] \in Sources
    BY <1>2
  <1>4. User[c][1] = "schema" => User[c][2] \in Schemas
    BY PathAssumption
  <1> QED
    BY <1>3, <1>4 DEF PickSource

\* The cache key of one source is that source, that of any other number of
\* them the prefix of aggregated queries.
LEMMA KeyForFacts ==
  ASSUME NEW ids \in SUBSET Sources
  PROVE  /\ CacheKeyFor(ids) \in Sources \cup {All}
         /\ CacheKeyFor(ids) # All => ids = {CacheKeyFor(ids)}
         /\ \A i \in Sources : ids = {i} => CacheKeyFor(ids) = i
  <1>1. CASE Cardinality(ids) = 1
    <2>1. PICK i : ids = {i}
      BY <1>1, NumberFacts, FS_Subset, OneElement
    <2>2. Min(ids) = i /\ i \in Sources
      BY <2>1, NumberFacts, MinOfOne
    <2> QED
      BY <1>1, <2>1, <2>2 DEF CacheKeyFor
  <1>2. CASE Cardinality(ids) # 1
    <2>1. \A i : ids # {i}
      BY <1>2, FS_Singleton
    <2> QED
      BY <1>2, <2>1 DEF CacheKeyFor
  <1> QED
    BY <1>1, <1>2

-----------------------------------------------------------------------------
(* What a step of a statement can be.                                       *)

\* The steps that choose the sources and leave the cache alone.
RouteStep(c) ==
  \/ Look(c) \/ LookAgain(c) \/ FromUser(c)
  \/ MapCached(c) \/ MapMissing(c) \/ MapLoaded(c) \/ MapFails(c)

\* Those that get the answer, and leave map and list alone.
AnswerStep(c) ==
  \/ GetHit(c) \/ GetMiss(c) \/ Purge(c)
  \/ Exec(c) \/ ExecFails(c) \/ ExecHangs(c) \/ Set(c) \/ Done(c)

LEMMA NextCases ==
  ASSUME [Next]_vars
  PROVE  \/ \E c \in Conns : \/ Use(c) \/ Query(c)
                             \/ (RouteStep(c) \/ AnswerStep(c)) /\ UNCHANGED count
         \/ Tick
         \/ UNCHANGED vars
  BY DEF Next, Step, RouteStep, AnswerStep

-----------------------------------------------------------------------------
(* Types.                                                                   *)

Labels == {"idle", "look", "again", "user", "map", "walk",
           "get", "purge", "exec", "hung", "set", "done"}
Stages == {"none", "names", "target", "resolve", "any"}

MapOK ==
  /\ schemaMap \in [Schemas -> Sources \cup {Nowhere}]
  /\ listed \in BOOLEAN /\ missed \in BOOLEAN

\* A look is for a database, and so is the load of a map that a look follows.
CommandOK ==
  /\ schema \in [Conns -> Schemas \cup {NoDB}]
  /\ pc \in [Conns -> Labels]
  /\ stmt \in [Conns -> Statements \cup {NoStatement}]
  /\ want \in [Conns -> Schemas \cup {NoDB}]
  /\ stage \in [Conns -> Stages]
  /\ target \in [Conns -> SUBSET Sources]
  /\ failed \in [Conns -> BOOLEAN]
  /\ \A c \in Conns :
       /\ pc[c] \notin {"idle", "hung"} => stmt[c] \in Statements
       /\ pc[c] \in {"look", "again"} => want[c] # NoDB
       /\ pc[c] \in {"map", "walk"} /\ stage[c] \in {"target", "resolve"} => want[c] # NoDB

CountOK ==
  /\ count \in [Conns -> Nat]
  /\ \A c \in Conns : count[c] \in 0..MaxCommands[c]

LEMMA MapStep ==
  ASSUME MapOK, [Next]_vars
  PROVE  MapOK'
  <1> USE DEF MapOK
  <1>1. ASSUME NEW c, Use(c) \/ Query(c) PROVE MapOK'
    BY <1>1 DEF Use, Query, sharedVars
  <1>2. ASSUME NEW c, MapLoaded(c) PROVE MapOK'
    BY <1>2, MapOfType DEF MapLoaded
  <1>3. ASSUME NEW c, RouteStep(c), ~MapLoaded(c) PROVE MapOK'
    BY <1>3 DEF RouteStep, Look, LookAgain, FromUser, MapCached, MapMissing, MapFails, sharedVars
  <1>4. ASSUME NEW c, AnswerStep(c) PROVE MapOK'
    BY <1>4 DEF AnswerStep, GetHit, GetMiss, Purge, Exec, ExecFails, ExecHangs, Set, Done, sharedVars
  <1>5. CASE Tick
    BY <1>5 DEF Tick
  <1>6. CASE UNCHANGED vars
    BY <1>6 DEF vars, sharedVars
  <1> QED
    BY <1>1, <1>2, <1>3, <1>4, <1>5, <1>6, NextCases

LEMMA CountStep ==
  ASSUME CountOK, [Next]_vars
  PROVE  CountOK'
  <1> USE PathAssumption DEF CountOK
  <1>1. ASSUME NEW c \in Conns, Use(c) \/ Query(c) PROVE CountOK'
    <2>1. count[c] < MaxCommands[c] /\ count' = [count EXCEPT ![c] = @ + 1]
      BY <1>1 DEF Use, Query
    <2> QED
      BY <2>1
  <1>2. CASE UNCHANGED count
    BY <1>2
  <1> QED
    BY <1>1, <1>2, NextCases DEF Tick, vars

LEMMA EndsCommand ==
  ASSUME CommandOK, NEW c \in Conns, NEW l, UNCHANGED schema,
         Ends(c, l) \/ Leaves(c, l, "hung")
  PROVE  CommandOK'
  <1>1. PICK m \in {"idle", "hung"} : Leaves(c, l, m)
    BY DEF Ends
  <1>2. schema' = schema /\ pc' = [pc EXCEPT ![c] = m]
    BY <1>1 DEF Leaves, Goto
  <1>3. /\ stmt' = [stmt EXCEPT ![c] = NoStatement]
        /\ want' = [want EXCEPT ![c] = NoDB]
        /\ stage' = [stage EXCEPT ![c] = "none"]
        /\ target' = [target EXCEPT ![c] = {}]
        /\ failed' = [failed EXCEPT ![c] = FALSE]
    BY <1>1 DEF Leaves
  <1> QED
    BY <1>2, <1>3 DEF CommandOK, Labels, Stages

LEMMA RoutedCommand ==
  ASSUME CommandOK, NEW c \in Conns, NEW l \in Labels \ {"idle", "hung"}, NEW ids \in SUBSET Sources,
         Routed(c, l, ids), UNCHANGED schema
  PROVE  CommandOK'
  BY DEF CommandOK, Routed, Goto, Labels, Stages

LEMMA NextStageCommand ==
  ASSUME CommandOK, NEW c \in Conns, NEW l \in {"again", "map"}, NextStage(c, l),
         failed' \in [Conns -> BOOLEAN], UNCHANGED <<stmt, want, target, schema>>
  PROVE  CommandOK'
  BY DEF CommandOK, NextStage, RouteFrom, Goto, Labels, Stages

LEMMA TargetsType ==
  ASSUME NEW c, NEW i \in Sources
  PROVE  Targets(c, i) = Sources \/ Targets(c, i) = {i}
  BY DEF Targets

LEMMA CommandStep ==
  ASSUME MapOK, CommandOK, [Next]_vars
  PROVE  CommandOK'
  <1>1. ASSUME NEW c \in Conns, Use(c) PROVE CommandOK'
    BY <1>1 DEF Use, localVars, CommandOK
  <1>2. ASSUME NEW c \in Conns, Query(c) PROVE CommandOK'
    <2>1. PICK q \in Asks[c] :
                 /\ Goto(c, "idle", IF q.enum THEN "map" ELSE RouteFrom(DatabaseOf(c, q)))
                 /\ stage' = [stage EXCEPT ![c] = IF q.enum THEN "names" ELSE "target"]
                 /\ stmt' = [stmt EXCEPT ![c] = q]
                 /\ want' = [want EXCEPT ![c] = DatabaseOf(c, q)]
                 /\ UNCHANGED <<schema, target, failed>>
      BY <1>2 DEF Query
    <2>2. DatabaseOf(c, q) \in Schemas \cup {NoDB}
      BY PathAssumption DEF DatabaseOf, Statement, CommandOK
    <2> QED
      BY <2>1, <2>2, PathAssumption DEF CommandOK, RouteFrom, Goto, Labels, Stages
  <1>3. ASSUME NEW c \in Conns, Look(c) PROVE CommandOK'
    <2>1. want[c] \in Schemas /\ pc[c] = "look"
      BY <1>3 DEF Look, CommandOK
    <2>2. CASE schemaMap[want[c]] # Nowhere
      <3>1. {schemaMap[want[c]]} \in SUBSET Sources
        BY <2>1, <2>2 DEF MapOK
      <3> QED
        BY <1>3, <2>2, <3>1, RoutedCommand DEF Look, Labels
    <2>3. CASE schemaMap[want[c]] = Nowhere
      BY <1>3, <2>1, <2>3 DEF Look, localVars, CommandOK, Goto, Labels
    <2> QED
      BY <2>2, <2>3
  <1>4. ASSUME NEW c \in Conns, LookAgain(c) PROVE CommandOK'
    <2>1. want[c] \in Schemas /\ pc[c] = "again"
      BY <1>4 DEF LookAgain, CommandOK
    <2>2. CASE schemaMap[want[c]] # Nowhere
      <3>1. {schemaMap[want[c]]} \in SUBSET Sources
        BY <2>1, <2>2 DEF MapOK
      <3> QED
        BY <1>4, <2>2, <3>1, RoutedCommand DEF LookAgain, Labels
    <2>3. CASE schemaMap[want[c]] = Nowhere
      <3>1. failed' \in [Conns -> BOOLEAN]
        BY <1>4, <2>3 DEF LookAgain, CommandOK
      <3> QED
        BY <1>4, <2>3, <3>1, NextStageCommand DEF LookAgain
    <2> QED
      BY <2>2, <2>3
  <1>5. ASSUME NEW c \in Conns, FromUser(c) PROVE CommandOK'
    <2>1. CASE User[c][1] = "source" /\ Routed(c, "user", Targets(c, User[c][2]))
      <3>1. User[c][2] \in Sources
        BY <2>1, PathAssumption
      <3>2. Targets(c, User[c][2]) \in SUBSET Sources
        BY <3>1, TargetsType
      <3> QED
        BY <1>5, <2>1, <3>2, RoutedCommand DEF FromUser, Labels
    <2>2. CASE /\ Goto(c, "user", "map") /\ stage' = [stage EXCEPT ![c] = "any"]
               /\ UNCHANGED <<stmt, want, target, failed>>
      BY <1>5, <2>2 DEF FromUser, CommandOK, Goto, Labels, Stages
    <2> QED
      BY <1>5, <2>1, <2>2 DEF FromUser
  <1>6. ASSUME NEW c \in Conns, NEW l \in {"map", "walk"},
               NEW m \in [Schemas -> Sources \cup {Nowhere}], MapReturned(c, l, m),
               UNCHANGED schema
        PROVE  CommandOK'
    <2>1. CASE Ends(c, l)
      BY <1>6, <2>1, EndsCommand
    <2>2. CASE stage[c] \in {"target", "resolve"} /\ Goto(c, l, "again") /\ UNCHANGED localVars
      BY <1>6, <2>2 DEF CommandOK, Goto, localVars, Labels
    <2>3. CASE m # Absent /\ Routed(c, l, Targets(c, PickSource(c, m)))
      <3>1. Targets(c, PickSource(c, m)) \in SUBSET Sources
        BY <2>3, PickType, TargetsType
      <3> QED
        BY <1>6, <2>3, <3>1, RoutedCommand DEF Labels
    <2> QED
      BY <1>6, <2>1, <2>2, <2>3 DEF MapReturned
  <1>7. ASSUME NEW c \in Conns, MapCached(c) PROVE CommandOK'
    BY <1>6, <1>7 DEF MapCached, MapOK
  <1>8. ASSUME NEW c \in Conns, MapMissing(c) PROVE CommandOK'
    BY <1>8 DEF MapMissing, CommandOK, Goto, localVars, Labels
  <1>9. ASSUME NEW c \in Conns, MapLoaded(c) PROVE CommandOK'
    <2>1. PICK W \in SUBSET Sources : MapReturned(c, "walk", MapOf(W))
      BY <1>9 DEF MapLoaded
    <2> QED
      BY <1>6, <1>9, <2>1, MapOfType DEF MapLoaded
  <1>10. ASSUME NEW c \in Conns, MapFails(c) PROVE CommandOK'
    <2>1. CASE Ends(c, "map")
      BY <1>10, <2>1, EndsCommand DEF MapFails
    <2>2. CASE NextStage(c, "map") /\ failed' = [failed EXCEPT ![c] = TRUE]
               /\ UNCHANGED <<stmt, want, target>>
      <3>1. failed' \in [Conns -> BOOLEAN]
        BY <2>2 DEF CommandOK
      <3> QED
        BY <1>10, <2>2, <3>1, NextStageCommand DEF MapFails
    <2> QED
      BY <1>10, <2>1, <2>2 DEF MapFails
  <1>11. ASSUME NEW c \in Conns, ExecFails(c) \/ ExecHangs(c) \/ Done(c) PROVE CommandOK'
    BY <1>11, EndsCommand DEF ExecFails, ExecHangs, Done
  <1>12. ASSUME NEW c \in Conns, GetHit(c) \/ GetMiss(c) \/ Purge(c) \/ Exec(c) \/ Set(c)
         PROVE  CommandOK'
    <2>1. PICK m \in {"exec", "purge", "set", "done"} :
                 /\ pc[c] \notin {"idle", "hung"} /\ pc' = [pc EXCEPT ![c] = m]
                 /\ UNCHANGED <<stmt, want, stage, target, failed, schema>>
      BY <1>12 DEF GetHit, GetMiss, Purge, Exec, Set, Answered, Goto, localVars
    <2> QED
      BY <2>1 DEF CommandOK, Labels
  <1>13. CASE Tick \/ UNCHANGED vars
    BY <1>13 DEF Tick, vars, localVars, CommandOK
  <1> QED
    BY <1>1, <1>2, <1>3, <1>4, <1>5, <1>7, <1>8, <1>9, <1>10, <1>11, <1>12, <1>13, NextCases
    DEF RouteStep, AnswerStep

-----------------------------------------------------------------------------
(* Ages.                                                                    *)

\* What is stored was read MaxDelay before Set at most, and what is given out
\* stood in the cache for TTL at most.
AgesOK ==
  /\ cache \in [Keys -> Entry]
  /\ \A k \in Keys : cache[k].val.age <= MaxDelay
  /\ ans \in [Conns -> Answer]
  /\ \A c \in Conns :
       /\ pc[c] = "set" => ans[c].age <= MaxDelay
       /\ pc[c] = "done" => ans[c].age <= TTL + MaxDelay

LEMMA KeyType ==
  ASSUME CommandOK, NEW c \in Conns, stmt[c].meta, pc[c] \notin {"idle", "hung"}
  PROVE  Key(c) \in Keys
  <1>1. CacheKeyFor(target[c]) \in Sources \cup {All}
    BY KeyForFacts DEF CommandOK
  <1>2. NormalOf[stmt[c].text] \in {NormalOf[q.text] : q \in {p \in Statements : p.meta}}
    BY DEF CommandOK
  <1> QED
    BY <1>1, <1>2 DEF Key, Keys

\* The steps before the answer leave the cache alone and give no answer.
LEMMA NoAnswerYet ==
  ASSUME NEW c \in Conns, Use(c) \/ Query(c) \/ RouteStep(c)
  PROVE  /\ UNCHANGED cache
         /\ \/ UNCHANGED ans
            \/ ans' = [ans EXCEPT ![c] = NoAnswer]
         /\ \/ UNCHANGED pc
            \/ \E l \in Labels \ {"purge", "exec", "set", "done"} : pc' = [pc EXCEPT ![c] = l]
  <1> USE DEF Labels
  <1>1. CASE Use(c)
    BY <1>1 DEF Use, sharedVars, localVars
  <1>2. CASE Query(c)
    BY <1>2 DEF Query, sharedVars, Goto, RouteFrom
  <1>3. ASSUME NEW l, NEW m, MapReturned(c, l, m)
        PROVE  /\ \/ UNCHANGED ans
                  \/ ans' = [ans EXCEPT ![c] = NoAnswer]
               /\ \E k \in {"idle", "again", "get"} : pc' = [pc EXCEPT ![c] = k]
    BY <1>3 DEF MapReturned, Ends, Leaves, Routed, Goto, localVars
  <1>4. CASE MapCached(c) \/ MapLoaded(c)
    BY <1>3, <1>4 DEF MapCached, MapLoaded, sharedVars
  <1>5. CASE Look(c) \/ LookAgain(c) \/ FromUser(c)
    BY <1>5 DEF Look, LookAgain, FromUser, Routed, NextStage, RouteFrom, Goto, sharedVars, localVars
  <1>6. CASE MapMissing(c) \/ MapFails(c)
    BY <1>6 DEF MapMissing, MapFails, NextStage, Ends, Leaves, RouteFrom, Goto, sharedVars, localVars
  <1> QED
    BY <1>1, <1>2, <1>4, <1>5, <1>6 DEF RouteStep

LEMMA NoEntryType == NoAnswer \in Answer /\ NoEntry \in Entry
  BY NumberFacts DEF NoAnswer, NoEntry, Answer, Entry

LEMMA AgesInit == Init => AgesOK
  BY NoEntryType, NumberFacts DEF Init, AgesOK, NoAnswer, NoEntry

LEMMA StoreAges ==
  ASSUME AgesOK, NEW k, NEW e \in Entry, e.val.age <= MaxDelay,
         cache' = [cache EXCEPT ![k] = e]
  PROVE  cache' \in [Keys -> Entry] /\ \A j \in Keys : cache'[j].val.age <= MaxDelay
  BY DEF AgesOK

LEMMA AgesStep ==
  ASSUME CommandOK, AgesOK, [Next]_vars
  PROVE  AgesOK'
  <1>1. ASSUME NEW c \in Conns, Use(c) \/ Query(c) \/ RouteStep(c) PROVE AgesOK'
    <2>1. UNCHANGED cache
      BY <1>1, NoAnswerYet
    <2>2. UNCHANGED ans \/ ans' = [ans EXCEPT ![c] = NoAnswer]
      BY <1>1, NoAnswerYet
    <2>3. UNCHANGED pc \/ \E l \in Labels \ {"set", "done"} : pc' = [pc EXCEPT ![c] = l]
      BY <1>1, NoAnswerYet
    <2>4. NoAnswer \in Answer /\ NoAnswer.age = 0
      BY NoEntryType DEF NoAnswer
    <2> QED
      BY <2>1, <2>2, <2>3, <2>4, NumberFacts DEF AgesOK, CommandOK
  <1>2. ASSUME NEW c \in Conns, GetHit(c) PROVE AgesOK'
    <2> DEFINE a == [cache[Key(c)].val EXCEPT !.age = @ + cache[Key(c)].since]
    <2>1. Key(c) \in Keys
      BY <1>2, KeyType DEF GetHit
    <2>2. /\ cache[Key(c)] \in Entry /\ cache[Key(c)].since <= TTL
          /\ cache[Key(c)].val.age <= MaxDelay
      BY <1>2, <2>1 DEF GetHit, AgesOK
    <2>3. a \in Answer /\ a.age <= TTL + MaxDelay
      BY <2>2, NumberFacts DEF Entry, Answer
    <2>4. ans' = [ans EXCEPT ![c] = a] /\ pc' = [pc EXCEPT ![c] = "done"] /\ UNCHANGED cache
      BY <1>2 DEF GetHit, Answered, Goto, sharedVars
    <2> HIDE DEF a
    <2> QED
      BY <2>3, <2>4 DEF AgesOK, CommandOK
  <1>3. ASSUME NEW c \in Conns, GetMiss(c) PROVE AgesOK'
    BY <1>3 DEF GetMiss, Goto, sharedVars, localVars, AgesOK, CommandOK
  <1>4. ASSUME NEW c \in Conns, Purge(c) PROVE AgesOK'
    <2>1. /\ cache' = [cache EXCEPT ![Key(c)] = NoEntry] /\ UNCHANGED ans
          /\ pc' = [pc EXCEPT ![c] = "exec"]
      BY <1>4 DEF Purge, Goto, localVars
    <2>2. NoEntry \in Entry /\ NoEntry.val.age <= MaxDelay
      BY NoEntryType, NumberFacts DEF NoEntry, NoAnswer
    <2>3. cache' \in [Keys -> Entry] /\ \A j \in Keys : cache'[j].val.age <= MaxDelay
      BY <2>1, <2>2, StoreAges
    <2> QED
      BY <2>1, <2>3 DEF AgesOK, CommandOK
  <1>5. ASSUME NEW c \in Conns, Exec(c) PROVE AgesOK'
    <2>1. PICK ok \in SUBSET target[c], l \in {"set", "done"} :
                 /\ ans' = [ans EXCEPT ![c] = ReadFrom(c, ok)] /\ UNCHANGED cache
                 /\ pc' = [pc EXCEPT ![c] = l] /\ pc[c] = "exec"
      BY <1>5 DEF Exec, Answered, Goto, sharedVars
    <2>2. /\ stmt[c].db \in Schemas \cup {NoDB} /\ want[c] \in Schemas \cup {NoDB}
          /\ stmt[c].text \in Texts
      BY <2>1, PathAssumption DEF CommandOK, Statement
    <2>3. ReadFrom(c, ok) \in Answer /\ ReadFrom(c, ok).age = 0
      BY <2>2, NumberFacts DEF ReadFrom, Answer, CommandOK
    <2> QED
      BY <2>1, <2>3, NumberFacts DEF AgesOK, CommandOK
  <1>6. ASSUME NEW c \in Conns, ExecFails(c) \/ ExecHangs(c) \/ Done(c) PROVE AgesOK'
    <2>1. /\ ans' = [ans EXCEPT ![c] = NoAnswer] /\ UNCHANGED cache
          /\ \E l \in {"idle", "hung"} : pc' = [pc EXCEPT ![c] = l]
      BY <1>6 DEF ExecFails, ExecHangs, Done, Ends, Leaves, Goto, sharedVars
    <2> QED
      BY <2>1, NoEntryType DEF AgesOK, CommandOK
  <1>7. ASSUME NEW c \in Conns, Set(c) PROVE AgesOK'
    <2>1. /\ pc[c] = "set" /\ pc' = [pc EXCEPT ![c] = "done"]
          /\ ans' = [ans EXCEPT ![c] = ans[c]]
          /\ UNCHANGED cache \/ cache' = [cache EXCEPT ![Key(c)] = [val |-> ans[c], since |-> 0]]
      BY <1>7 DEF Set, Answered, Goto
    <2> DEFINE e == [val |-> ans[c], since |-> 0]
    <2>2. e \in Entry /\ e.val.age <= MaxDelay
      BY <2>1, NumberFacts DEF AgesOK, Entry
    <2> HIDE DEF e
    <2>3. cache' \in [Keys -> Entry] /\ \A j \in Keys : cache'[j].val.age <= MaxDelay
      BY <2>1, <2>2, StoreAges DEF AgesOK, e
    <2>4. ans' \in [Conns -> Answer] /\ ans' = ans
      BY <2>1 DEF AgesOK
    <2>5. ans[c].age <= TTL + MaxDelay
      BY <2>1, NumberFacts DEF AgesOK, Answer
    <2> QED
      BY <2>1, <2>3, <2>4, <2>5 DEF AgesOK, CommandOK
  <1>8. CASE Tick
    <2>1. \A c \in Conns : pc[c] = "set" => ans[c].age < MaxDelay
      BY <1>8 DEF Tick
    <2>2. ans' = [c \in Conns |-> IF pc[c] = "set" THEN [ans[c] EXCEPT !.age = @ + 1] ELSE ans[c]]
      BY <1>8 DEF Tick
    <2>3. cache' = [k \in Keys |-> IF cache[k].since > TTL THEN cache[k]
                                   ELSE [cache[k] EXCEPT !.since = @ + 1]]
      BY <1>8 DEF Tick
    <2>4. UNCHANGED pc
      BY <1>8 DEF Tick
    <2>5. cache' \in [Keys -> Entry] /\ \A k \in Keys : cache[k].val.age <= MaxDelay => cache'[k].val.age <= MaxDelay
      BY <2>3, NumberFacts DEF AgesOK, Entry
    <2>6. ASSUME NEW c \in Conns
          PROVE  /\ ans'[c] \in Answer
                 /\ pc[c] = "set" => ans'[c].age <= MaxDelay
                 /\ pc[c] = "done" => ans'[c].age <= TTL + MaxDelay
      BY <2>1, <2>2, NumberFacts DEF AgesOK, Answer
    <2>7. ans' \in [Conns -> Answer]
      BY <2>2, <2>6
    <2> QED
      BY <2>4, <2>5, <2>6, <2>7 DEF AgesOK
  <1>9. CASE UNCHANGED vars
    BY <1>9 DEF vars, sharedVars, localVars, AgesOK
  <1> QED
    BY <1>1, <1>2, <1>3, <1>4, <1>5, <1>6, <1>7, <1>8, <1>9, NextCases DEF AnswerStep

-----------------------------------------------------------------------------
PathInv == MapOK /\ CommandOK /\ CountOK /\ AgesOK

LEMMA PathInit == Init => PathInv
  <1> SUFFICES ASSUME Init PROVE MapOK /\ CommandOK /\ CountOK
    BY AgesInit DEF PathInv
  <1>1. MapOK
    BY DEF Init, MapOK, Absent
  <1>2. CommandOK
    BY DEF Init, CommandOK, Labels, Stages
  <1>3. CountOK
    BY PathAssumption DEF Init, CountOK
  <1> QED
    BY <1>1, <1>2, <1>3

\* PathInv is inductive.
LEMMA PathInvariant == Spec => []PathInv
  <1>1. PathInv /\ [Next]_vars => PathInv'
    BY MapStep, CommandStep, CountStep, AgesStep DEF PathInv
  <1> QED
    BY PathInit, <1>1, PTL DEF Spec

\* Types: whatever the maps, users and statements are, a statement is sent to
\* sources that exist, and a map that was loaded names no other.
THEOREM TypeCorrect == Spec => []TypeOK
  <1>1. PathInv => TypeOK
    BY DEF PathInv, MapOK, CommandOK, CountOK, AgesOK, TypeOK, Labels, Stages
  <1> QED
    BY <1>1, PathInvariant, PTL

\* No answer is older than the cache's time and one query, with any number of
\* connections that get, set and delete the same keys.
THEOREM Recent == Spec => []AnswersRecent
  <1>1. PathInv => AnswersRecent
    BY DEF PathInv, AgesOK, AnswersRecent
  <1> QED
    BY <1>1, PathInvariant, PTL

-----------------------------------------------------------------------------
(* Routing.                                                                 *)

Sent == {"get", "purge", "exec", "set", "done"}

\* A map that was not cut short is the whole one, or has not been loaded.
MapWhole == ~missed => schemaMap \in {Absent, MapOf(Sources)}

\* The statement is about a database with an owner, and nothing went wrong.
Owned(c) ==
  /\ want[c] # NoDB /\ Owner(want[c]) # Nowhere
  /\ ~missed /\ ~failed[c]

\* Such a statement finds the owner on the first look or on the one after the
\* load, before resolveSource comes to the user's name or to any source.
RoutedRight(c) ==
  Owned(c) =>
    /\ pc[c] # "user" /\ stage[c] # "any"
    /\ pc[c] = "again" => schemaMap = MapOf(Sources)
    /\ pc[c] \in Sent => target[c] = {Owner(want[c])}

RouteOK == MapWhole /\ \A c \in Conns : RoutedRight(c)

\* A step of one connection is not one of another's.
LEMMA OthersWait ==
  ASSUME CommandOK, ans \in [Conns -> Answer], NEW c \in Conns, NEW d \in Conns, c # d,
         Use(c) \/ Query(c) \/ RouteStep(c) \/ AnswerStep(c)
  PROVE  /\ pc'[d] = pc[d] /\ stmt'[d] = stmt[d] /\ want'[d] = want[d]
         /\ stage'[d] = stage[d] /\ target'[d] = target[d] /\ ans'[d] = ans[d]
         /\ failed'[d] = failed[d]
  <1> USE DEF CommandOK
  <1>1. CASE Use(c) \/ Query(c)
    BY <1>1 DEF Use, Query, Goto, localVars
  <1>2. ASSUME NEW l, NEW m, MapReturned(c, l, m)
        PROVE  /\ pc'[d] = pc[d] /\ stmt'[d] = stmt[d] /\ want'[d] = want[d]
               /\ stage'[d] = stage[d] /\ target'[d] = target[d] /\ ans'[d] = ans[d]
               /\ failed'[d] = failed[d]
    BY <1>2 DEF MapReturned, Ends, Leaves, Routed, Goto, localVars
  <1>3. CASE MapCached(c) \/ MapLoaded(c)
    BY <1>2, <1>3 DEF MapCached, MapLoaded
  <1>4. CASE Look(c) \/ LookAgain(c)
    BY <1>4 DEF Look, LookAgain, Routed, NextStage, Goto, localVars
  <1>5. CASE FromUser(c)
    BY <1>5 DEF FromUser, Routed, Goto, localVars
  <1>6. CASE MapMissing(c) \/ MapFails(c)
    BY <1>6 DEF MapMissing, MapFails, NextStage, Ends, Leaves, Goto, localVars
  <1>7. CASE AnswerStep(c)
    BY <1>7 DEF AnswerStep, GetHit, GetMiss, Purge, Exec, ExecFails, ExecHangs, Set, Done, Answered, Ends, Leaves,
                Goto, localVars
  <1> QED
    BY <1>1, <1>3, <1>4, <1>5, <1>6, <1>7 DEF RouteStep

\* The whole map stays when it is there.
LEMMA MapStays ==
  ASSUME MapWhole, [Next]_vars
  PROVE  /\ MapWhole'
         /\ ~missed' => ~missed /\ (schemaMap = MapOf(Sources) => schemaMap' = MapOf(Sources))
  <1> USE DEF MapWhole
  <1>1. ASSUME NEW c, MapLoaded(c)
        PROVE  ~missed' => ~missed /\ schemaMap' = MapOf(Sources)
    BY <1>1 DEF MapLoaded
  <1>2. ASSUME NEW c, Use(c) \/ Query(c) PROVE UNCHANGED <<schemaMap, missed>>
    BY <1>2 DEF Use, Query, sharedVars
  <1>3. ASSUME NEW c, RouteStep(c), ~MapLoaded(c) PROVE UNCHANGED <<schemaMap, missed>>
    BY <1>3 DEF RouteStep, Look, LookAgain, FromUser, MapCached, MapMissing, MapFails, sharedVars
  <1>4. ASSUME NEW c, AnswerStep(c) PROVE UNCHANGED <<schemaMap, missed>>
    BY <1>4 DEF AnswerStep, GetHit, GetMiss, Purge, Exec, ExecFails, ExecHangs, Set, Done, sharedVars
  <1>5. Tick \/ UNCHANGED vars => UNCHANGED <<schemaMap, missed>>
    BY DEF Tick, vars, sharedVars
  <1> QED
    BY <1>1, <1>2, <1>3, <1>4, <1>5, NextCases

\* What the whole map and the one that was not loaded say of a database.
LEMMA WholeMap ==
  ASSUME NEW s \in Schemas
  PROVE  MapOf(Sources)[s] = Owner(s) /\ Absent[s] = Nowhere
  BY DEF Owner, Absent

\* SchemaMap returned a whole map to a statement whose database has an owner.
LEMMA ReturnedRight ==
  ASSUME PathInv, NEW c \in Conns, RoutedRight(c), MapWhole',
         NEW l \in {"map", "walk"}, NEW m, MapReturned(c, l, m),
         ~missed' => ~missed /\ schemaMap' = MapOf(Sources)
  PROVE  RoutedRight(c)'
  <1>1. CASE Ends(c, l)
    BY <1>1 DEF Ends, Leaves, RoutedRight, Owned, PathInv, CommandOK
  <1>2. CASE /\ stage[c] \in {"target", "resolve"} /\ pc' = [pc EXCEPT ![c] = "again"]
             /\ UNCHANGED localVars
    BY <1>2 DEF localVars, RoutedRight, Owned, PathInv, CommandOK, Owner, Sent
  <1>3. CASE stage[c] = "any" /\ Routed(c, l, Targets(c, PickSource(c, m)))
    <2>1. ~Owned(c) /\ UNCHANGED <<want, failed>>
      BY <1>3 DEF RoutedRight, Routed
    <2>2. ~Owned(c)'
      BY <2>1 DEF Owned, Owner
    <2> QED
      BY <2>2 DEF RoutedRight
  <1> QED
    BY <1>1, <1>2, <1>3 DEF MapReturned, Goto

LEMMA RouteStepRight ==
  ASSUME PathInv, RouteOK, [Next]_vars, NEW c \in Conns, Use(c) \/ Query(c) \/ RouteStep(c)
  PROVE  RoutedRight(c)'
  <1>1. /\ RoutedRight(c) /\ MapWhole /\ MapWhole'
        /\ ~missed' => ~missed /\ (schemaMap = MapOf(Sources) => schemaMap' = MapOf(Sources))
    BY MapStays DEF RouteOK
  <1>2. CASE Use(c)
    BY <1>1, <1>2 DEF Use, localVars, RoutedRight, Owned, Owner
  <1>3. CASE Query(c)
    <2>1. pc'[c] \in {"look", "map", "user"} /\ stage'[c] \in {"names", "target"}
      BY <1>3 DEF Query, Goto, RouteFrom, PathInv, CommandOK
    <2>2. pc'[c] = "user" => want'[c] = NoDB
      BY <1>3 DEF Query, Goto, RouteFrom, PathInv, CommandOK
    <2> QED
      BY <2>1, <2>2 DEF RoutedRight, Owned, Sent
  <1>4. CASE Look(c) \/ LookAgain(c)
    <2>1. /\ want[c] \in Schemas /\ UNCHANGED <<schemaMap, missed, want, failed>>
          /\ pc[c] \in {"look", "again"}
      BY <1>4 DEF Look, LookAgain, Routed, sharedVars, localVars, PathInv, CommandOK
    <2>2. CASE schemaMap[want[c]] # Nowhere
      <3>1. ~missed => schemaMap[want[c]] = Owner(want[c])
        BY <1>1, <2>1, <2>2, WholeMap DEF MapWhole
      <3>2. pc'[c] = "get" /\ stage'[c] = "none" /\ target'[c] = {schemaMap[want[c]]}
        BY <1>4, <2>2 DEF Look, LookAgain, Routed, Goto, PathInv, CommandOK
      <3> QED
        BY <2>1, <3>1, <3>2 DEF RoutedRight, Owned, Owner
    <2>3. CASE schemaMap[want[c]] = Nowhere /\ Look(c)
      <3>1. pc'[c] = "map" /\ UNCHANGED localVars
        BY <2>3 DEF Look, Goto, PathInv, CommandOK
      <3> QED
        BY <1>1, <2>1, <3>1 DEF localVars, RoutedRight, Owned, Owner, Sent
    <2>4. CASE schemaMap[want[c]] = Nowhere /\ LookAgain(c)
      <3>1. ~Owned(c)
        BY <1>1, <2>1, <2>4, WholeMap DEF LookAgain, RoutedRight, Owned
      <3>2. ~Owned(c)'
        BY <2>1, <3>1 DEF Owned, Owner
      <3> QED
        BY <3>2 DEF RoutedRight
    <2> QED
      BY <1>4, <2>2, <2>3, <2>4
  <1>5. CASE FromUser(c)
    <2>1. ~Owned(c) /\ UNCHANGED <<schemaMap, missed, want, failed>>
      BY <1>1, <1>5 DEF FromUser, Routed, Goto, RoutedRight
    <2>2. ~Owned(c)'
      BY <2>1 DEF Owned, Owner
    <2> QED
      BY <2>2 DEF RoutedRight
  <1>6. CASE MapCached(c)
    <2>1. ~missed' => schemaMap' = MapOf(Sources)
      BY <1>1, <1>6 DEF MapCached, MapWhole, sharedVars
    <2> QED
      BY <1>1, <1>6, <2>1, ReturnedRight DEF MapCached
  <1>7. CASE MapMissing(c)
    BY <1>1, <1>7 DEF MapMissing, Goto, localVars, RoutedRight, Owned, Owner, Sent, PathInv, CommandOK
  <1>8. CASE MapLoaded(c)
    <2>1. PICK W \in SUBSET Sources :
                 /\ schemaMap' = MapOf(W)
                 /\ missed' = (missed \/ W # Sources)
                 /\ MapReturned(c, "walk", MapOf(W))
      BY <1>8 DEF MapLoaded
    <2>2. ~missed' => ~missed /\ schemaMap' = MapOf(Sources)
      BY <2>1
    <2> QED
      BY <1>1, <2>1, <2>2, ReturnedRight
  <1>9. CASE MapFails(c)
    <2>1. failed'[c] \/ want'[c] = NoDB
      BY <1>9 DEF MapFails, Ends, Leaves, PathInv, CommandOK
    <2> QED
      BY <2>1 DEF RoutedRight, Owned
  <1> QED
    BY <1>2, <1>3, <1>4, <1>5, <1>6, <1>7, <1>8, <1>9 DEF RouteStep

LEMMA AnswerStepRight ==
  ASSUME PathInv, RouteOK, NEW c \in Conns, AnswerStep(c)
  PROVE  RoutedRight(c)'
  <1>1. RoutedRight(c) /\ UNCHANGED <<schemaMap, missed>>
    BY DEF RouteOK, AnswerStep, GetHit, GetMiss, Purge, Exec, ExecFails, ExecHangs, Set, Done, sharedVars
  <1>2. CASE ExecFails(c) \/ ExecHangs(c) \/ Done(c)
    BY <1>2 DEF ExecFails, ExecHangs, Done, Ends, Leaves, RoutedRight, Owned, PathInv, CommandOK
  <1>3. CASE GetHit(c) \/ GetMiss(c) \/ Purge(c) \/ Exec(c) \/ Set(c)
    <2>1. /\ pc[c] \in Sent /\ pc'[c] \in Sent
          /\ UNCHANGED <<want, stage, target, failed>>
      BY <1>3 DEF GetHit, GetMiss, Purge, Exec, Set, Answered, Goto, localVars, Sent,
                  PathInv, CommandOK
    <2> QED
      BY <1>1, <2>1 DEF RoutedRight, Owned, Owner, Sent
  <1> QED
    BY <1>2, <1>3 DEF AnswerStep

\* RouteOK is inductive, given the types.
LEMMA RouteInvariant == Spec => []RouteOK
  <1>1. Init => RouteOK
    BY DEF Init, RouteOK, MapWhole, RoutedRight, Owned, Sent
  <1>2. ASSUME PathInv, RouteOK, [Next]_vars PROVE RouteOK'
    <2>1. /\ MapWhole'
          /\ ~missed' => ~missed /\ (schemaMap = MapOf(Sources) => schemaMap' = MapOf(Sources))
      BY <1>2, MapStays DEF RouteOK
    <2>2. ASSUME NEW c \in Conns, Use(c) \/ Query(c) \/ RouteStep(c) \/ AnswerStep(c),
                 NEW d \in Conns
          PROVE  RoutedRight(d)'
      <3>1. CASE c = d
        BY <1>2, <2>2, <3>1, RouteStepRight, AnswerStepRight
      <3>2. CASE c # d
        BY <1>2, <2>1, <2>2, <3>2, OthersWait
        DEF RouteOK, RoutedRight, Owned, Owner, PathInv, AgesOK
      <3> QED
        BY <3>1, <3>2
    <2>3. CASE Tick \/ UNCHANGED vars
      <3>1. UNCHANGED <<schemaMap, missed, want, failed, pc, stage, target>>
        BY <2>3 DEF Tick, vars, sharedVars, localVars
      <3> QED
        BY <1>2, <2>1, <3>1 DEF RouteOK, RoutedRight, Owned, Owner
    <2> QED
      BY <1>2, <2>1, <2>2, <2>3, NextCases DEF RouteOK
  <1> QED
    BY <1>1, <1>2, PathInvariant, PTL DEF Spec

\* A statement about a database that a source has is sent to the first such
\* source, with any number of connections that load the map meanwhile; unless
\* its load failed or a source did not answer to one.
THEOREM RoutesToOwner == Spec => []RoutedToOwner
  <1>1. RouteOK => RoutedToOwner
    BY DEF RouteOK, RoutedRight, Owned, RoutedToOwner, Sent
  <1> QED
    BY <1>1, RouteInvariant, PTL

-----------------------------------------------------------------------------
(* Whose answer it is.                                                      *)

\* An answer has rows of these sources, is that of a statement whose text
\* normalizeSQL makes n, and about the database that statement names.
Fits(a, ids, n) ==
  /\ a.from # {} /\ a.from \subseteq ids
  /\ NormalOf[a.of] = n
  /\ \E p \in Statements : p.text = a.of /\ (p.db # NoDB => a.db = p.db)

\* It is this statement's.
Exact(a, q) == a.of = q.text /\ (q.db # NoDB => a.db = q.db)

\* The sources a key stands for.
Behind(k) == IF k[1] = All THEN Sources ELSE {k[1]}

\* An entry that can still be given out fits its key.
EntriesFit == \A k \in Keys : cache[k].since <= TTL => Fits(cache[k].val, Behind(k), k[2])

\* A statement goes to one source or to all, which is what makes the key of
\* several sources stand for them.
OneOrAll(c) ==
  pc[c] \in Sent => target[c] = Sources \/ \E i \in Sources : target[c] = {i}

StatementFits(c) ==
  /\ OneOrAll(c)
  /\ pc[c] \notin {"idle", "hung"} /\ stmt[c].db # NoDB => want[c] = stmt[c].db
  /\ pc[c] \in {"set", "done"} => Fits(ans[c], target[c], NormalOf[stmt[c].text])
  /\ pc[c] \in {"set", "done"} /\ ~stmt[c].meta => Exact(ans[c], stmt[c])

FitOK == EntriesFit /\ \A c \in Conns : StatementFits(c)

\* The key of a statement stands for the sources it is sent to.
LEMMA KeyBehind ==
  ASSUME CommandOK, NEW c \in Conns, pc[c] \in Sent, OneOrAll(c)
  PROVE  Behind(Key(c)) = target[c] /\ Key(c)[2] = NormalOf[stmt[c].text]
  <1>1. /\ CacheKeyFor(target[c]) # All => target[c] = {CacheKeyFor(target[c])}
        /\ \A i \in Sources : target[c] = {i} => CacheKeyFor(target[c]) = i
    BY KeyForFacts DEF CommandOK
  <1>2. CacheKeyFor(target[c]) = All => target[c] = Sources
    BY <1>1, NumberFacts DEF OneOrAll
  <1> QED
    BY <1>1, <1>2 DEF Behind, Key

\* Routing ends at one source or at all.
LEMMA RouteShape ==
  ASSUME PathInv, NEW c \in Conns, StatementFits(c), RouteStep(c)
  PROVE  /\ (stmt'[c] = stmt[c] /\ want'[c] = want[c]) \/ pc'[c] = "idle"
         /\ pc[c] \notin {"idle", "hung"}
         /\ pc'[c] \notin {"purge", "exec", "set", "done"}
         /\ pc'[c] = "get" => target'[c] = Sources \/ \E i \in Sources : target'[c] = {i}
  <1> USE DEF PathInv, CommandOK
  <1>1. CASE Look(c) \/ LookAgain(c)
    <2>1. want[c] \in Schemas
      BY <1>1 DEF Look, LookAgain
    <2>2. schemaMap[want[c]] \in Sources \cup {Nowhere}
      BY <2>1 DEF MapOK
    <2> QED
      BY <1>1, <2>2 DEF Look, LookAgain, Routed, NextStage, RouteFrom, Goto, localVars
  <1>2. CASE FromUser(c)
    <2>1. User[c][1] = "source" => User[c][2] \in Sources
      BY PathAssumption
    <2> QED
      BY <1>2, <2>1, TargetsType DEF FromUser, Routed, Goto
  <1>3. ASSUME NEW l \in {"map", "walk"}, NEW m \in [Schemas -> Sources \cup {Nowhere}],
               MapReturned(c, l, m)
        PROVE  /\ (stmt'[c] = stmt[c] /\ want'[c] = want[c]) \/ pc'[c] = "idle"
               /\ pc[c] \notin {"idle", "hung"}
               /\ pc'[c] \notin {"purge", "exec", "set", "done"}
               /\ pc'[c] = "get" => target'[c] = Sources \/ \E i \in Sources : target'[c] = {i}
    <2>1. m # Absent => PickSource(c, m) \in Sources
      BY PickType
    <2> QED
      BY <1>3, <2>1, TargetsType DEF MapReturned, Ends, Leaves, Routed, Goto, localVars
  <1>4. CASE MapCached(c)
    BY <1>3, <1>4 DEF MapCached, MapOK
  <1>5. CASE MapLoaded(c)
    BY <1>3, <1>5, MapOfType DEF MapLoaded
  <1>6. CASE MapMissing(c) \/ MapFails(c)
    BY <1>6 DEF MapMissing, MapFails, NextStage, Ends, Leaves, RouteFrom, Goto, localVars
  <1> QED
    BY <1>1, <1>2, <1>4, <1>5, <1>6 DEF RouteStep

\* The same of the steps that get the answer, but for the answer itself.
LEMMA AnswerShape ==
  ASSUME PathInv, NEW c \in Conns, GetHit(c) \/ GetMiss(c) \/ Purge(c) \/ Exec(c) \/ Set(c)
  PROVE  pc[c] \in Sent /\ pc'[c] \in Sent /\ UNCHANGED <<stmt, want, target>>
  BY DEF GetHit, GetMiss, Purge, Exec, Set, Answered, Goto, localVars, Sent, PathInv, CommandOK

LEMMA StatementStep ==
  ASSUME PathInv, FitOK, NEW c \in Conns, Use(c) \/ Query(c) \/ RouteStep(c) \/ AnswerStep(c)
  PROVE  StatementFits(c)'
  <1>1. StatementFits(c) /\ EntriesFit
    BY DEF FitOK
  <1>2. CASE Use(c)
    BY <1>1, <1>2 DEF Use, localVars, StatementFits, OneOrAll
  <1>3. CASE Query(c)
    <2>1. PICK q \in Asks[c] :
                 /\ Goto(c, "idle", IF q.enum THEN "map" ELSE RouteFrom(DatabaseOf(c, q)))
                 /\ stmt' = [stmt EXCEPT ![c] = q]
                 /\ want' = [want EXCEPT ![c] = DatabaseOf(c, q)]
      BY <1>3 DEF Query
    <2>2. pc'[c] \in {"map", "user", "look"} /\ stmt'[c] = q /\ want'[c] = DatabaseOf(c, q)
      BY <2>1 DEF Goto, RouteFrom, PathInv, CommandOK
    <2> QED
      BY <2>2 DEF StatementFits, OneOrAll, DatabaseOf, Sent
  <1>4. CASE RouteStep(c)
    BY <1>1, <1>4, RouteShape DEF StatementFits, OneOrAll, Sent
  <1>5. CASE ExecFails(c) \/ ExecHangs(c) \/ Done(c)
    <2>1. pc'[c] \in {"idle", "hung"}
      BY <1>5 DEF ExecFails, ExecHangs, Done, Ends, Leaves, Goto, PathInv, CommandOK
    <2> QED
      BY <2>1 DEF StatementFits, OneOrAll, Sent
  <1>6. CASE GetHit(c)
    <2>1. pc[c] \in Sent /\ UNCHANGED <<stmt, want, target>>
      BY <1>6, AnswerShape
    <2>2. Key(c) \in Keys /\ Behind(Key(c)) = target[c] /\ Key(c)[2] = NormalOf[stmt[c].text]
      BY <1>1, <1>6, <2>1, KeyType, KeyBehind DEF GetHit, StatementFits, PathInv
    <2>3. /\ Fits(cache[Key(c)].val, target[c], NormalOf[stmt[c].text])
          /\ cache[Key(c)] \in Entry
      BY <1>1, <1>6, <2>2 DEF GetHit, EntriesFit, PathInv, AgesOK
    <2>4. /\ pc'[c] = "done"
          /\ ans'[c] = [cache[Key(c)].val EXCEPT !.age = @ + cache[Key(c)].since]
      BY <1>6 DEF GetHit, Answered, Goto, PathInv, CommandOK, AgesOK
    <2>5. /\ ans'[c].from = cache[Key(c)].val.from /\ ans'[c].db = cache[Key(c)].val.db
          /\ ans'[c].of = cache[Key(c)].val.of
      BY <2>3, <2>4 DEF Entry, Answer
    <2>6. Fits(ans'[c], target'[c], NormalOf[stmt'[c].text])
      BY <2>1, <2>3, <2>5 DEF Fits
    <2>7. stmt'[c].meta
      BY <1>6, <2>1 DEF GetHit
    <2> QED
      BY <1>1, <2>1, <2>4, <2>6, <2>7 DEF StatementFits, OneOrAll, Sent
  <1>7. CASE GetMiss(c) \/ Purge(c)
    <2>1. pc[c] \in Sent /\ pc'[c] \in Sent /\ UNCHANGED <<stmt, want, target>>
      BY <1>7, AnswerShape
    <2>2. pc'[c] \notin {"set", "done"}
      BY <1>7 DEF GetMiss, Purge, Goto, PathInv, CommandOK
    <2> QED
      BY <1>1, <2>1, <2>2 DEF StatementFits, OneOrAll, Sent
  <1>8. CASE Exec(c)
    <2>1. pc[c] \in Sent /\ pc'[c] \in Sent /\ UNCHANGED <<stmt, want, target>>
      BY <1>8, AnswerShape
    <2>2. PICK ok \in (SUBSET target[c]) \ {{}} : ans'[c] = ReadFrom(c, ok)
      BY <1>8 DEF Exec, Answered, PathInv, AgesOK
    <2>3. /\ ans'[c].from = ok /\ ans'[c].of = stmt[c].text
          /\ ans'[c].db = IF stmt[c].info THEN stmt[c].db ELSE want[c]
      BY <2>2 DEF ReadFrom
    <2>4. stmt[c].db # NoDB => want[c] = stmt[c].db
      BY <1>1, <2>1 DEF StatementFits, Sent
    <2>5. Exact(ans'[c], stmt[c])
      BY <2>3, <2>4 DEF Exact
    <2>6. stmt[c] \in Statements
      BY <2>1 DEF Sent, PathInv, CommandOK
    <2>7. Fits(ans'[c], target[c], NormalOf[stmt[c].text])
      BY <2>2, <2>3, <2>5, <2>6 DEF Fits, Exact
    <2>8. Fits(ans'[c], target'[c], NormalOf[stmt'[c].text]) /\ Exact(ans'[c], stmt'[c])
      BY <2>1, <2>5, <2>7
    <2> QED
      BY <1>1, <2>1, <2>8 DEF StatementFits, OneOrAll, Sent
  <1>9. CASE Set(c)
    <2>1. pc[c] = "set" /\ pc'[c] \in Sent /\ UNCHANGED <<stmt, want, target>>
      BY <1>9, AnswerShape DEF Set, Answered, Goto
    <2>2. ans'[c] = ans[c]
      BY <1>9 DEF Set, Answered, PathInv, AgesOK
    <2> QED
      BY <1>1, <2>1, <2>2 DEF StatementFits, OneOrAll, Sent
  <1> QED
    BY <1>2, <1>3, <1>4, <1>5, <1>6, <1>7, <1>8, <1>9 DEF AnswerStep

LEMMA EntriesStep ==
  ASSUME PathInv, FitOK, [Next]_vars
  PROVE  EntriesFit'
  <1>1. EntriesFit
    BY DEF FitOK
  <1>2. ASSUME NEW c \in Conns, Use(c) \/ Query(c) \/ RouteStep(c) PROVE UNCHANGED cache
    BY <1>2, NoAnswerYet
  <1>3. ASSUME NEW c \in Conns, AnswerStep(c), ~Purge(c), ~Set(c) PROVE UNCHANGED cache
    BY <1>3 DEF AnswerStep, GetHit, GetMiss, Exec, ExecFails, ExecHangs, Done, sharedVars
  <1>4. ASSUME NEW c \in Conns, Purge(c) PROVE EntriesFit'
    <2>1. cache' = [cache EXCEPT ![Key(c)] = NoEntry] /\ ~(NoEntry.since <= TTL)
      BY <1>4, NumberFacts DEF Purge, NoEntry
    <2>2. \A k \in Keys : cache'[k] = cache[k] \/ cache'[k] = NoEntry
      BY <2>1 DEF PathInv, AgesOK
    <2> QED
      BY <1>1, <2>1, <2>2 DEF EntriesFit
  <1>5. ASSUME NEW c \in Conns, Set(c), cache' # cache PROVE EntriesFit'
    <2> DEFINE e == [val |-> ans[c], since |-> 0]
    <2>1. cache' = [cache EXCEPT ![Key(c)] = e] /\ pc[c] = "set" /\ StatementFits(c)
      BY <1>5 DEF Set, Answered, Goto, FitOK
    <2>2. Behind(Key(c)) = target[c] /\ Key(c)[2] = NormalOf[stmt[c].text]
      BY <2>1, KeyBehind DEF StatementFits, Sent, PathInv
    <2>3. Fits(e.val, Behind(Key(c)), Key(c)[2])
      BY <2>1, <2>2 DEF StatementFits
    <2> HIDE DEF e
    <2>4. ASSUME NEW k \in Keys, cache'[k].since <= TTL
          PROVE  Fits(cache'[k].val, Behind(k), k[2])
      <3>1. CASE k = Key(c)
        BY <2>1, <2>3, <3>1 DEF PathInv, AgesOK
      <3>2. CASE k # Key(c)
        BY <1>1, <2>1, <2>4, <3>2 DEF PathInv, AgesOK, EntriesFit
      <3> QED
        BY <3>1, <3>2
    <2> QED
      BY <2>4 DEF EntriesFit, Behind
  <1>6. CASE Tick
    <2>1. \A k \in Keys : /\ cache'[k].val = cache[k].val
                          /\ cache'[k].since <= TTL => cache[k].since <= TTL
      BY <1>6, NumberFacts DEF Tick, PathInv, AgesOK, Entry
    <2> QED
      BY <1>1, <2>1 DEF EntriesFit
  <1>7. UNCHANGED cache => EntriesFit'
    BY <1>1 DEF EntriesFit
  <1> QED
    BY <1>2, <1>3, <1>4, <1>5, <1>6, <1>7, NextCases DEF vars, sharedVars

\* FitOK is inductive, given the types.
LEMMA FitInvariant == Spec => []FitOK
  <1>1. Init => FitOK
    <2>1. ASSUME Init PROVE EntriesFit
      BY <2>1, NumberFacts DEF Init, EntriesFit, NoEntry
    <2>2. ASSUME Init, NEW c \in Conns PROVE StatementFits(c)
      BY <2>2 DEF Init, StatementFits, OneOrAll, Sent
    <2> QED
      BY <2>1, <2>2 DEF FitOK
  <1>2. ASSUME PathInv, FitOK, [Next]_vars PROVE FitOK'
    <2>1. ASSUME NEW c \in Conns, Use(c) \/ Query(c) \/ RouteStep(c) \/ AnswerStep(c),
                 NEW d \in Conns
          PROVE  StatementFits(d)'
      <3>1. CASE c = d
        BY <1>2, <2>1, <3>1, StatementStep
      <3>2. CASE c # d
        <4>1. /\ pc'[d] = pc[d] /\ stmt'[d] = stmt[d] /\ want'[d] = want[d]
              /\ target'[d] = target[d] /\ ans'[d] = ans[d]
          BY <1>2, <2>1, <3>2, OthersWait DEF PathInv, AgesOK
        <4> QED
          BY <1>2, <4>1 DEF FitOK, StatementFits, OneOrAll
      <3> QED
        BY <3>1, <3>2
    <2>2. ASSUME Tick \/ UNCHANGED vars, NEW d \in Conns PROVE StatementFits(d)'
      <3>1. UNCHANGED <<pc, stmt, want, target>>
        BY <2>2 DEF Tick, vars, localVars
      <3>2. ans'[d].from = ans[d].from /\ ans'[d].of = ans[d].of /\ ans'[d].db = ans[d].db
        <4>1. ans[d] \in Answer
          BY <1>2 DEF PathInv, AgesOK
        <4>2. CASE Tick
          <5>1. ans'[d] = IF pc[d] = "set" THEN [ans[d] EXCEPT !.age = @ + 1] ELSE ans[d]
            BY <4>2 DEF Tick
          <5>2. [ans[d] EXCEPT !.age = @ + 1].from = ans[d].from
            BY <4>1 DEF Answer
          <5>3. /\ [ans[d] EXCEPT !.age = @ + 1].of = ans[d].of
                /\ [ans[d] EXCEPT !.age = @ + 1].db = ans[d].db
            BY <4>1 DEF Answer
          <5> QED
            BY <5>1, <5>2, <5>3
        <4>3. CASE UNCHANGED vars
          BY <4>3 DEF vars, localVars
        <4> QED
          BY <2>2, <4>2, <4>3
      <3>3. Fits(ans[d], target[d], NormalOf[stmt[d].text])
              => Fits(ans'[d], target'[d], NormalOf[stmt'[d].text])
        BY <3>1, <3>2 DEF Fits
      <3>4. Exact(ans[d], stmt[d]) => Exact(ans'[d], stmt'[d])
        BY <3>1, <3>2 DEF Exact
      <3> QED
        BY <1>2, <3>1, <3>3, <3>4 DEF FitOK, StatementFits, OneOrAll
    <2> QED
      BY <1>2, <2>1, <2>2, EntriesStep, NextCases DEF FitOK
  <1> QED
    BY <1>1, <1>2, PathInvariant, PTL DEF Spec

\* A statement's answer has rows of its own sources only, answers it, and is
\* about the database it names, although connections that go to one source, and
\* to all, share the cache's keys: no interleaving makes one's entry another's,
\* but for statements whose texts normalizeSQL makes one.
THEOREM OwnAnswers == Spec => []AnswersOwnStatement
  <1>1. ASSUME PathInv, FitOK, NEW c \in Conns, pc[c] = "done"
        PROVE  (SharesKey(stmt[c]) /\ stmt[c].meta) \/ Exact(ans[c], stmt[c])
    <2>1. stmt[c] \in Statements
      BY <1>1 DEF PathInv, CommandOK
    <2>2. Fits(ans[c], target[c], NormalOf[stmt[c].text])
      BY <1>1 DEF FitOK, StatementFits
    <2>3. PICK r \in Statements : r.text = ans[c].of /\ (r.db # NoDB => ans[c].db = r.db)
      BY <2>2 DEF Fits
    <2>4. NormalOf[r.text] = NormalOf[stmt[c].text]
      BY <2>2, <2>3 DEF Fits
    <2>5. CASE r = stmt[c]
      BY <2>3, <2>5 DEF Exact
    <2>6. CASE r # stmt[c]
      <3>1. SharesKey(stmt[c])
        BY <2>4, <2>6 DEF SharesKey
      <3>2. ~stmt[c].meta => Exact(ans[c], stmt[c])
        BY <1>1 DEF FitOK, StatementFits
      <3> QED
        BY <3>1, <3>2
    <2> QED
      BY <2>5, <2>6
  <1>2. PathInv /\ FitOK => AnswersOwnStatement
    BY <1>1 DEF FitOK, StatementFits, Fits, Exact, AnswersOwnStatement
  <1> QED
    BY <1>2, PathInvariant, FitInvariant, PTL
===============================================================================
