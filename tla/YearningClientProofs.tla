------------------------- MODULE YearningClientProofs -------------------------
(***************************************************************************)
(* Proofs about YearningClient, for every set of callers, every list of    *)
(* sources with any schemas, and any number of logins. In order: the type  *)
(* invariant; one login at a time; the second dial goes out with a new     *)
(* token; and list and map implement SchemaDirectory.                       *)
(***************************************************************************)
EXTENDS YearningClient, SetFacts, TLAPS

\* A map is one from schemas to sources, whatever was walked.
LEMMA MapOfType ==
  ASSUME NEW W \in SUBSET SourceIds
  PROVE  MapOf(W) \in [Schemas -> SourceIds \cup {0}]
  <1> SUFFICES ASSUME NEW s \in Schemas, {i \in W : s \in SchemasOf[i]} # {}
               PROVE  Min({i \in W : s \in SchemasOf[i]}) \in SourceIds
    BY DEF MapOf
  <1>1. {i \in W : s \in SchemasOf[i]} \in SUBSET Nat
    <2>1. \A i \in SourceIds : i \in Nat
      BY ClientAssumption DEF SourceIds
    <2> QED
      BY <2>1, Zenon
  <1>2. Min({i \in W : s \in SchemasOf[i]}) \in {i \in W : s \in SchemasOf[i]}
    BY <1>1, MinOfSet
  <1> QED
    BY <1>2

LEMMA NumberFacts ==
  /\ 0 \in 0..NoToken
  /\ NoToken \in 0..NoToken
  /\ \A n \in 0..MaxToken : n \in 0..NoToken
  BY ClientAssumption DEF NoToken

-----------------------------------------------------------------------------
(* Types.                                                                   *)

\* The part of TypeOK about what only a caller sees.
LocalOK ==
  /\ pc \in [Callers -> Labels]
  /\ job \in [Callers -> Jobs]
  /\ todo \in [Callers -> SUBSET SourceIds]
  /\ first \in [Callers -> 0..NoToken]

\* A walk has sources left to ask until it comes to store its map.
Walking == {"token", "lock", "login", "request", "clear"}

WalkOK ==
  /\ walked \in [Callers -> SUBSET SourceIds]
  /\ \A c \in Callers : job[c] = "walk" /\ pc[c] \in Walking => todo[c] # {}

TokensOK ==
  /\ issued \in 0..MaxToken /\ expired \in 0..issued
  /\ token \in 0..issued
  /\ tok \in [Callers -> 0..MaxToken] /\ \A c \in Callers : tok[c] <= issued

CachesOK ==
  /\ writer \in Callers \cup {Nobody}
  /\ source \in SUBSET SourceIds
  /\ schemaMap \in [Schemas -> SourceIds \cup {0}]

TypeInv == LocalOK /\ WalkOK /\ TokensOK /\ CachesOK

LEMMA InitTypeInv == Init => TypeInv
  BY ClientAssumption, NumberFacts DEF Init, TypeInv, LocalOK, WalkOK, TokensOK, CachesOK, Labels, Jobs, Walking, Absent

LEMMA ReturnsLocal ==
  ASSUME LocalOK, NEW c \in Callers, NEW l, Returns(c, l)
  PROVE  LocalOK'
  BY NumberFacts DEF LocalOK, Labels, Jobs, Returns, Goto

LEMMA WalkLocal ==
  ASSUME LocalOK, NEW c \in Callers, NEW l, NEW rest \in SUBSET SourceIds,
         Walk(c, l, rest), UNCHANGED first
  PROVE  LocalOK'
  BY DEF LocalOK, Labels, Jobs, Walk, Goto

LEMMA FailsLocal ==
  ASSUME LocalOK, NEW c \in Callers, NEW l, Fails(c, l)
  PROVE  LocalOK'
  <1>1. CASE Returns(c, l)
    BY <1>1, ReturnsLocal
  <1>2. CASE Walk(c, l, todo[c] \ {Min(todo[c])}) /\ UNCHANGED first
    <2>1. todo[c] \ {Min(todo[c])} \in SUBSET SourceIds
      BY DEF LocalOK
    <2> QED
      BY <1>2, <2>1, WalkLocal
  <1>3. CASE Goto(c, l, "clear") /\ UNCHANGED localVars
    BY <1>3 DEF Goto, localVars, LocalOK, Labels
  <1> QED
    BY <1>1, <1>2, <1>3 DEF Fails

LEMMA LocalStep ==
  ASSUME LocalOK, TokensOK, CachesOK, [Next]_vars
  PROVE  LocalOK'
  <1>1. ASSUME NEW c \in Callers, Call(c) PROVE LocalOK'
    BY <1>1 DEF Call, Goto, LocalOK, Labels, Jobs
  <1>2. ASSUME NEW c \in Callers, MapLook(c) PROVE LocalOK'
    <2>1. CASE Returns(c, "mapLook")
      BY <2>1, ReturnsLocal
    <2>2. CASE Goto(c, "mapLook", "srcLook") /\ UNCHANGED localVars
      BY <2>2 DEF Goto, localVars, LocalOK, Labels
    <2> QED
      BY <1>2, <2>1, <2>2 DEF MapLook
  <1>3. ASSUME NEW c \in Callers, SrcLook(c) PROVE LocalOK'
    <2>1. CASE Walk(c, "srcLook", source) /\ UNCHANGED first
      BY <2>1, WalkLocal DEF CachesOK
    <2>2. CASE ~(Walk(c, "srcLook", source) /\ UNCHANGED first)
      BY <1>3, <2>2 DEF SrcLook, Goto, LocalOK, Labels, Jobs
    <2> QED
      BY <2>1, <2>2
  <1>4. ASSUME NEW c \in Callers, Fill(c) PROVE LocalOK'
    <2>1. source' \in SUBSET SourceIds
      BY <1>4 DEF Fill, CachesOK, LocalOK
    <2> QED
      BY <1>4, <2>1, WalkLocal DEF Fill
  <1>5. ASSUME NEW c \in Callers, Store(c) PROVE LocalOK'
    BY <1>5, ReturnsLocal DEF Store
  <1>6. ASSUME NEW c \in Callers, TokenLook(c) \/ TokenLock(c) PROVE LocalOK'
    BY <1>6 DEF TokenLook, TokenLock, HasToken, localVars, Goto, LocalOK, Labels
  <1>7. ASSUME NEW c \in Callers, LoginOK(c) \/ Refused(c) PROVE LocalOK'
    BY <1>7 DEF LoginOK, Refused, localVars, Goto, LocalOK, Labels
  <1>8. ASSUME NEW c \in Callers, LoginFails(c) \/ RequestFails(c) PROVE LocalOK'
    BY <1>8, FailsLocal DEF LoginFails, RequestFails
  <1>9. ASSUME NEW c \in Callers, RequestOK(c) PROVE LocalOK'
    <2>1. CASE Returns(c, "request")
      BY <2>1, ReturnsLocal
    <2>2. CASE Walk(c, "request", todo[c] \ {Min(todo[c])}) /\ UNCHANGED first
      <3>1. todo[c] \ {Min(todo[c])} \in SUBSET SourceIds
        BY DEF LocalOK
      <3> QED
        BY <2>2, <3>1, WalkLocal
    <2>3. CASE /\ Goto(c, "request", "fill")
               /\ \E list \in SUBSET SourceIds : todo' = [todo EXCEPT ![c] = list]
               /\ UNCHANGED <<job, first>>
      BY <2>3 DEF Goto, LocalOK, Labels
    <2> QED
      BY <1>9, <2>1, <2>2, <2>3 DEF RequestOK, Succeeds
  <1>10. ASSUME NEW c \in Callers, Clear(c) PROVE LocalOK'
    <2>1. CASE Fails(c, "clear")
      BY <2>1, FailsLocal
    <2>2. CASE /\ Goto(c, "clear", "token")
               /\ first' = [first EXCEPT ![c] = IF tok[c] = 0 THEN NoToken ELSE tok[c]]
               /\ UNCHANGED <<job, todo>>
      <3>1. (IF tok[c] = 0 THEN NoToken ELSE tok[c]) \in 0..NoToken
        BY NumberFacts DEF TokensOK
      <3> QED
        BY <2>2, <3>1 DEF Goto, LocalOK, Labels
    <2> QED
      BY <1>10, <2>1, <2>2 DEF Clear
  <1>11. CASE Expire \/ UNCHANGED vars
    BY <1>11 DEF Expire, vars, localVars, LocalOK
  <1> QED
    BY <1>1, <1>2, <1>3, <1>4, <1>5, <1>6, <1>7, <1>8, <1>9, <1>10, <1>11 DEF Next, Step

LEMMA WalkStep ==
  ASSUME TypeInv, [Next]_vars
  PROVE  WalkOK'
  <1> USE DEF TypeInv, LocalOK, WalkOK, Walking, Goto
  <1>1. ASSUME NEW c \in Callers, Call(c) PROVE WalkOK'
    BY <1>1 DEF Call
  <1>2. ASSUME NEW c \in Callers, MapLook(c) PROVE WalkOK'
    BY <1>2 DEF MapLook, Returns, localVars
  <1>3. ASSUME NEW c \in Callers, SrcLook(c) PROVE WalkOK'
    BY <1>3 DEF SrcLook, Walk
  <1>4. ASSUME NEW c \in Callers, Fill(c) PROVE WalkOK'
    BY <1>4 DEF Fill, Walk
  <1>5. ASSUME NEW c \in Callers, Store(c) PROVE WalkOK'
    BY <1>5 DEF Store, Returns
  <1>6. ASSUME NEW c \in Callers, TokenLook(c) \/ TokenLock(c) PROVE WalkOK'
    BY <1>6 DEF TokenLook, TokenLock, HasToken, localVars
  <1>7. ASSUME NEW c \in Callers, LoginOK(c) \/ Refused(c) PROVE WalkOK'
    BY <1>7 DEF LoginOK, Refused, localVars
  <1>8. ASSUME NEW c \in Callers, NEW l \in Walking, Fails(c, l) PROVE WalkOK'
    BY <1>8 DEF Fails, Returns, Walk, localVars
  <1>9. ASSUME NEW c \in Callers, LoginFails(c) \/ RequestFails(c) PROVE WalkOK'
    BY <1>8, <1>9 DEF LoginFails, RequestFails
  <1>10. ASSUME NEW c \in Callers, RequestOK(c) PROVE WalkOK'
    <2>1. CASE Returns(c, "request")
      BY <2>1 DEF Returns
    <2>2. CASE /\ job[c] = "walk" /\ Walk(c, "request", todo[c] \ {Min(todo[c])})
               /\ walked' = [walked EXCEPT ![c] = @ \cup {Min(todo[c])}]
      <3>1. todo[c] \in SUBSET Nat /\ todo[c] # {} /\ todo[c] \in SUBSET SourceIds
        BY <2>2, ClientAssumption DEF Walk, SourceIds
      <3>2. Min(todo[c]) \in SourceIds
        BY <3>1, MinOfSet
      <3> QED
        BY <2>2, <3>2 DEF Walk
    <2>3. CASE Goto(c, "request", "fill") /\ UNCHANGED <<job, walked>>
               /\ \E list \in SUBSET SourceIds : todo' = [todo EXCEPT ![c] = list]
      BY <2>3
    <2> QED
      BY <1>10, <2>1, <2>2, <2>3 DEF RequestOK, Succeeds
  <1>11. ASSUME NEW c \in Callers, Clear(c) PROVE WalkOK'
    <2>1. CASE Fails(c, "clear")
      BY <1>8, <2>1
    <2>2. CASE ~Fails(c, "clear")
      BY <1>11, <2>2 DEF Clear
    <2> QED
      BY <2>1, <2>2
  <1>12. CASE Expire \/ UNCHANGED vars
    BY <1>12 DEF Expire, vars, localVars
  <1> QED
    BY <1>1, <1>2, <1>3, <1>4, <1>5, <1>6, <1>7, <1>9, <1>10, <1>11, <1>12 DEF Next, Step

LEMMA TokensStep ==
  ASSUME TokensOK, [Next]_vars
  PROVE  TokensOK'
  <1> USE ClientAssumption DEF TokensOK
  <1>1. ASSUME NEW c \in Callers, Call(c) PROVE TokensOK'
    BY <1>1 DEF Call, cacheVars, serverVars
  <1>2. ASSUME NEW c \in Callers, MapLook(c) PROVE TokensOK'
    BY <1>2 DEF MapLook, Returns, cacheVars, serverVars, localVars
  <1>3. ASSUME NEW c \in Callers, SrcLook(c) \/ Fill(c) PROVE TokensOK'
    BY <1>3 DEF SrcLook, Fill, Walk, cacheVars, serverVars
  <1>4. ASSUME NEW c \in Callers, Store(c) PROVE TokensOK'
    BY <1>4 DEF Store, Returns, serverVars
  <1>5. ASSUME NEW c \in Callers, TokenLook(c) \/ TokenLock(c) PROVE TokensOK'
    BY <1>5 DEF TokenLook, TokenLock, HasToken, cacheVars, serverVars, localVars
  <1>6. ASSUME NEW c \in Callers, LoginOK(c) PROVE TokensOK'
    BY <1>6 DEF LoginOK
  <1>7. ASSUME NEW c \in Callers, NEW l, Fails(c, l), UNCHANGED serverVars, token' \in {0, token}
        PROVE  TokensOK'
    BY <1>7 DEF Fails, Returns, Walk, localVars, serverVars
  <1>8. ASSUME NEW c \in Callers, LoginFails(c) \/ RequestFails(c) PROVE TokensOK'
    BY <1>7, <1>8 DEF LoginFails, RequestFails, cacheVars
  <1>9. ASSUME NEW c \in Callers, RequestOK(c) PROVE TokensOK'
    BY <1>9 DEF RequestOK, Succeeds, Returns, Walk, cacheVars, serverVars
  <1>10. ASSUME NEW c \in Callers, Refused(c) PROVE TokensOK'
    BY <1>10 DEF Refused, cacheVars, serverVars, localVars
  <1>11. ASSUME NEW c \in Callers, Clear(c) PROVE TokensOK'
    <2>1. CASE Fails(c, "clear")
      BY <1>7, <1>11, <2>1 DEF Clear
    <2>2. CASE ~Fails(c, "clear")
      BY <1>11, <2>2 DEF Clear, serverVars
    <2> QED
      BY <2>1, <2>2
  <1>12. CASE Expire \/ UNCHANGED vars
    BY <1>12 DEF Expire, vars, cacheVars, serverVars, localVars
  <1> QED
    BY <1>1, <1>2, <1>3, <1>4, <1>5, <1>6, <1>8, <1>9, <1>10, <1>11, <1>12 DEF Next, Step

LEMMA CachesStep ==
  ASSUME TypeInv, [Next]_vars
  PROVE  CachesOK'
  <1> USE DEF TypeInv, LocalOK, WalkOK, CachesOK
  <1>1. ASSUME NEW c \in Callers, Fill(c) PROVE CachesOK'
    BY <1>1 DEF Fill
  <1>2. ASSUME NEW c \in Callers, Store(c) PROVE CachesOK'
    BY <1>2, MapOfType DEF Store
  <1>3. ASSUME NEW c \in Callers,
               \/ Call(c) \/ MapLook(c) \/ SrcLook(c) \/ TokenLook(c) \/ TokenLock(c)
               \/ LoginOK(c) \/ LoginFails(c) \/ RequestOK(c) \/ RequestFails(c)
               \/ Refused(c) \/ Clear(c)
        PROVE  CachesOK'
    BY <1>3 DEF Call, MapLook, SrcLook, TokenLook, TokenLock, LoginOK, LoginFails, RequestOK,
                RequestFails, Refused, Clear, cacheVars
  <1>4. CASE Expire \/ UNCHANGED vars
    BY <1>4 DEF Expire, vars, cacheVars
  <1> QED
    BY <1>1, <1>2, <1>3, <1>4 DEF Next, Step

\* The variables keep their types: what TLC checks as TypeOK, for any number of
\* callers, sources, schemas and logins.
THEOREM TypeCorrect == Spec => []TypeOK
  <1>1. TypeInv /\ [Next]_vars => TypeInv'
    BY LocalStep, WalkStep, TokensStep, CachesStep DEF TypeInv
  <1>2. TypeInv => TypeOK
    BY DEF TypeInv, TypeOK, LocalOK, WalkOK, TokensOK, CachesOK
  <1> QED
    BY InitTypeInv, <1>1, <1>2, PTL DEF Spec

-----------------------------------------------------------------------------
(* One login at a time.                                                     *)

LEMMA LoginStep ==
  ASSUME TypeInv, LoginOnlyWithoutToken, [Next]_vars
  PROVE  LoginOnlyWithoutToken'
  <1> USE ClientAssumption DEF TypeInv, LocalOK, LoginOnlyWithoutToken, Goto
  \* A step that brings nobody to a login, and under which c.mu and the token
  \* are left alone by all but its holder.
  <1>1. ASSUME NEW c \in Callers, NEW l, Fails(c, l), l \in {"request", "clear"},
               UNCHANGED writer, token' \in {0, token}
        PROVE  LoginOnlyWithoutToken'
    BY <1>1 DEF Fails, Returns, Walk
  <1>2. ASSUME NEW c \in Callers, Call(c) \/ MapLook(c) \/ SrcLook(c) \/ Fill(c) \/ Store(c)
        PROVE  LoginOnlyWithoutToken'
    BY <1>2 DEF Call, MapLook, SrcLook, Fill, Store, Returns, Walk, cacheVars
  <1>3. ASSUME NEW c \in Callers, TokenLook(c) PROVE LoginOnlyWithoutToken'
    BY <1>3 DEF TokenLook, HasToken, cacheVars
  <1>4. ASSUME NEW c \in Callers, TokenLock(c) PROVE LoginOnlyWithoutToken'
    BY <1>4 DEF TokenLock, HasToken, Unlocked, cacheVars
  <1>5. ASSUME NEW c \in Callers, LoginOK(c) PROVE LoginOnlyWithoutToken'
    BY <1>5 DEF LoginOK
  <1>6. ASSUME NEW c \in Callers, LoginFails(c) PROVE LoginOnlyWithoutToken'
    BY <1>6 DEF LoginFails, Fails, Returns, Walk, cacheVars
  <1>7. ASSUME NEW c \in Callers, RequestFails(c) PROVE LoginOnlyWithoutToken'
    BY <1>1, <1>7 DEF RequestFails, cacheVars
  <1>8. ASSUME NEW c \in Callers, RequestOK(c) \/ Refused(c) PROVE LoginOnlyWithoutToken'
    BY <1>8 DEF RequestOK, Refused, Succeeds, Returns, Walk, cacheVars
  <1>9. ASSUME NEW c \in Callers, Clear(c) PROVE LoginOnlyWithoutToken'
    BY <1>1, <1>9 DEF Clear
  <1>10. CASE Expire \/ UNCHANGED vars
    BY <1>10 DEF Expire, vars, cacheVars
  <1> QED
    BY <1>2, <1>3, <1>4, <1>5, <1>6, <1>7, <1>8, <1>9, <1>10 DEF Next, Step

\* However many callers find no token at once, one of them logs in and the
\* others, waiting for c.mu, use what it gets.
THEOREM OneLogin == Spec => []LoginOnlyWithoutToken
  <1>1. Init => LoginOnlyWithoutToken
    BY DEF Init, LoginOnlyWithoutToken
  <1>2. TypeInv /\ [Next]_vars => TypeInv'
    BY LocalStep, WalkStep, TokensStep, CachesStep DEF TypeInv
  <1>3. TypeInv /\ LoginOnlyWithoutToken /\ [Next]_vars => LoginOnlyWithoutToken'
    BY LoginStep
  <1> QED
    BY InitTypeInv, <1>1, <1>2, <1>3, PTL DEF Spec

-----------------------------------------------------------------------------
(* The second dial.                                                         *)

\* Only a caller on its way to a second dial has a first one behind it. The
\* token that failed then was issued and is gone from the cache: there is
\* none, or a later one.
RedialInv ==
  \A c \in Callers : first[c] # 0 =>
    /\ job[c] = "session" /\ pc[c] \in {"token", "lock", "login", "request"}
    /\ first[c] \in 1..MaxToken =>
         /\ first[c] <= issued
         /\ pc[c] \in {"token", "lock", "login"} => token = 0 \/ token > first[c]
         /\ pc[c] = "request" => tok[c] > first[c]

LEMMA RedialStep ==
  ASSUME TypeInv, RedialInv, [Next]_vars
  PROVE  RedialInv'
  <1> USE ClientAssumption DEF TypeInv, LocalOK, TokensOK, RedialInv, Goto
  <1>1. ASSUME NEW c \in Callers, NEW l, Fails(c, l), UNCHANGED issued, token' \in {0, token}
        PROVE  RedialInv'
    BY <1>1 DEF Fails, Returns, Walk, localVars
  <1>2. ASSUME NEW c \in Callers, Call(c) PROVE RedialInv'
    BY <1>2 DEF Call, cacheVars, serverVars
  <1>3. ASSUME NEW c \in Callers, MapLook(c) \/ SrcLook(c) PROVE RedialInv'
    BY <1>3 DEF MapLook, SrcLook, Returns, Walk, cacheVars, serverVars, localVars
  <1>4. ASSUME NEW c \in Callers, Fill(c) \/ Store(c) PROVE RedialInv'
    BY <1>4 DEF Fill, Store, Returns, Walk, serverVars
  <1>5. ASSUME NEW c \in Callers, TokenLook(c) \/ TokenLock(c) PROVE RedialInv'
    BY <1>5 DEF TokenLook, TokenLock, HasToken, cacheVars, serverVars, localVars
  <1>6. ASSUME NEW c \in Callers, LoginOK(c) PROVE RedialInv'
    BY <1>6 DEF LoginOK
  <1>7. ASSUME NEW c \in Callers, LoginFails(c) \/ RequestFails(c) PROVE RedialInv'
    BY <1>1, <1>7 DEF LoginFails, RequestFails, cacheVars, serverVars
  <1>8. ASSUME NEW c \in Callers, RequestOK(c) PROVE RedialInv'
    BY <1>8 DEF RequestOK, Succeeds, Returns, Walk, cacheVars, serverVars
  <1>9. ASSUME NEW c \in Callers, Refused(c) PROVE RedialInv'
    BY <1>9 DEF Refused, cacheVars, serverVars, localVars
  <1>10. ASSUME NEW c \in Callers, Clear(c) PROVE RedialInv'
    <2>1. CASE Fails(c, "clear")
      BY <1>1, <1>10, <2>1 DEF Clear, serverVars
    <2>2. CASE ~Fails(c, "clear")
      <3>1. (IF tok[c] = 0 THEN NoToken ELSE tok[c]) \in 1..MaxToken => tok[c] <= issued /\ tok[c] # 0
        BY DEF NoToken
      <3> QED
        BY <1>10, <2>2, <3>1 DEF Clear, serverVars
    <2> QED
      BY <2>1, <2>2
  <1>11. CASE Expire \/ UNCHANGED vars
    BY <1>11 DEF Expire, vars, cacheVars, serverVars, localVars
  <1> QED
    BY <1>2, <1>3, <1>4, <1>5, <1>6, <1>7, <1>8, <1>9, <1>10, <1>11 DEF Next, Step

\* sessionFor never dials twice with one token, whatever other callers log in,
\* clear or let expire between its dials.
THEOREM RedialIsNew == Spec => []RedialUsesNewToken
  <1>1. Init => RedialInv
    BY DEF Init, RedialInv
  <1>2. TypeInv /\ [Next]_vars => TypeInv'
    BY LocalStep, WalkStep, TokensStep, CachesStep DEF TypeInv
  <1>3. TypeInv /\ RedialInv /\ [Next]_vars => RedialInv'
    BY RedialStep
  <1>4. RedialInv => RedialUsesNewToken
    BY DEF RedialInv, RedialUsesNewToken
  <1> QED
    BY InitTypeInv, <1>1, <1>2, <1>3, <1>4, PTL DEF Spec

-----------------------------------------------------------------------------
(* List and map.                                                            *)

\* Every walk under way is over listed sources.
WalkInv ==
  \A c \in Callers :
    /\ walked[c] \subseteq source
    /\ job[c] = "walk" /\ pc[c] \in Walking => todo[c] \subseteq source

\* The list is filled in once: it does not change under a walk.
LEMMA WalkInvStep ==
  ASSUME TypeInv, WalkInv, [Next]_vars
  PROVE  WalkInv'
  <1> USE DEF TypeInv, LocalOK, WalkOK, WalkInv, Walking, Goto
  <1>1. ASSUME NEW c \in Callers, NEW l \in Walking, pc[c] = l, Fails(c, l), UNCHANGED source
        PROVE  WalkInv'
    BY <1>1 DEF Fails, Returns, Walk, localVars
  <1>2. ASSUME NEW c \in Callers, Call(c) \/ MapLook(c)
        PROVE  WalkInv'
    BY <1>2 DEF Call, MapLook, Returns, cacheVars, localVars
  <1>3. ASSUME NEW c \in Callers, SrcLook(c) \/ Store(c) PROVE WalkInv'
    BY <1>3 DEF SrcLook, Store, Returns, Walk, cacheVars
  <1>4. ASSUME NEW c \in Callers, Fill(c) PROVE WalkInv'
    <2>1. CASE source = {}
      BY <1>4, <2>1 DEF Fill, Walk
    <2>2. CASE source # {}
      BY <1>4, <2>2 DEF Fill, Walk
    <2> QED
      BY <2>1, <2>2
  <1>5. ASSUME NEW c \in Callers, TokenLook(c) \/ TokenLock(c) PROVE WalkInv'
    BY <1>5 DEF TokenLook, TokenLock, HasToken, cacheVars, localVars
  <1>6. ASSUME NEW c \in Callers, LoginOK(c) \/ Refused(c) PROVE WalkInv'
    BY <1>6 DEF LoginOK, Refused, cacheVars, localVars
  <1>7. ASSUME NEW c \in Callers, LoginFails(c) \/ RequestFails(c) PROVE WalkInv'
    <2>1. \A l : Fails(c, l) => pc[c] = l
      BY DEF Fails, Returns, Walk
    <2> QED
      BY <1>1, <1>7, <2>1 DEF LoginFails, RequestFails, cacheVars
  <1>8. ASSUME NEW c \in Callers, RequestOK(c) PROVE WalkInv'
    <2>1. CASE Returns(c, "request")
      BY <1>8, <2>1 DEF RequestOK, Returns, cacheVars
    <2>2. CASE /\ job[c] = "walk" /\ Walk(c, "request", todo[c] \ {Min(todo[c])})
               /\ walked' = [walked EXCEPT ![c] = @ \cup {Min(todo[c])}]
      <3>1. todo[c] \in SUBSET Nat /\ todo[c] # {} /\ todo[c] \subseteq source
        BY <2>2, ClientAssumption DEF Walk, SourceIds
      <3>2. Min(todo[c]) \in source
        BY <3>1, MinOfSet
      <3> QED
        BY <1>8, <2>2, <3>1, <3>2 DEF RequestOK, Walk, cacheVars
    <2>3. CASE job[c] = "fetch" /\ Goto(c, "request", "fill") /\ UNCHANGED <<job, walked>>
               /\ \E list \in SUBSET SourceIds : todo' = [todo EXCEPT ![c] = list]
      BY <1>8, <2>3 DEF RequestOK, cacheVars
    <2> QED
      BY <1>8, <2>1, <2>2, <2>3 DEF RequestOK, Succeeds
  <1>9. ASSUME NEW c \in Callers, Clear(c) PROVE WalkInv'
    <2>1. CASE Fails(c, "clear")
      <3>1. pc[c] = "clear"
        BY <2>1 DEF Fails, Returns, Walk
      <3> QED
        BY <1>1, <1>9, <2>1, <3>1 DEF Clear
    <2>2. CASE ~Fails(c, "clear")
      BY <1>9, <2>2 DEF Clear
    <2> QED
      BY <2>1, <2>2
  <1>10. CASE Expire \/ UNCHANGED vars
    BY <1>10 DEF Expire, vars, cacheVars, localVars
  <1> QED
    BY <1>2, <1>3, <1>4, <1>5, <1>6, <1>7, <1>8, <1>9, <1>10 DEF Next, Step

LEMMA InitWalkInv == Init => WalkInv
  BY DEF Init, WalkInv, Walking

\* What a step does to the two caches.
LEMMA CacheSteps ==
  ASSUME TypeInv, WalkInv, [Next]_vars
  PROVE  \/ UNCHANGED <<source, schemaMap>>
         \/ source = {} /\ source' \in SUBSET SourceIds /\ UNCHANGED schemaMap
         \/ UNCHANGED source /\ \E W \in SUBSET source : schemaMap' = MapOf(W)
  <1>1. ASSUME NEW c \in Callers, Fill(c)
        PROVE  UNCHANGED schemaMap /\ (source = {} \/ UNCHANGED source)
    BY <1>1 DEF Fill
  <1>2. ASSUME NEW c \in Callers, Store(c)
        PROVE  UNCHANGED source /\ \E W \in SUBSET source : schemaMap' = MapOf(W)
    BY <1>2, Zenon DEF Store, WalkInv
  <1>3. ASSUME NEW c \in Callers,
               \/ Call(c) \/ MapLook(c) \/ SrcLook(c) \/ TokenLook(c) \/ TokenLock(c)
               \/ LoginOK(c) \/ LoginFails(c) \/ RequestOK(c) \/ RequestFails(c)
               \/ Refused(c) \/ Clear(c)
        PROVE  UNCHANGED <<source, schemaMap>>
    BY <1>3 DEF Call, MapLook, SrcLook, TokenLook, TokenLock, LoginOK, LoginFails, RequestOK,
                RequestFails, Refused, Clear, cacheVars
  <1>4. CASE Expire \/ UNCHANGED vars
    BY <1>4 DEF Expire, vars, cacheVars
  <1>5. source' \in SUBSET SourceIds
    BY CachesStep DEF CachesOK
  <1> QED
    BY <1>1, <1>2, <1>3, <1>4, <1>5 DEF Next, Step

\* No walk has answered yet: nothing is mapped.
LEMMA AbsentIsEmptyWalk == Absent = MapOf({})
  <1>1. \A s \in Schemas : {i \in {} : s \in SchemasOf[i]} = {}
    OBVIOUS
  <1> QED
    BY <1>1, Zenon DEF Absent, MapOf

\* However many walks run at once, and whatever fails in them, the map that is
\* cached is that of one of them.
THEOREM MapNeverMixed == Spec => []MapFromOneWalk
  <1>1. Init => MapFromOneWalk
    <2>1. Init => {} \in SUBSET source /\ schemaMap = MapOf({})
      BY AbsentIsEmptyWalk DEF Init
    <2> QED
      BY <2>1, Zenon DEF MapFromOneWalk
  <1>2. TypeInv /\ [Next]_vars => TypeInv'
    BY LocalStep, WalkStep, TokensStep, CachesStep DEF TypeInv
  <1>3. TypeInv /\ WalkInv /\ [Next]_vars => WalkInv'
    BY WalkInvStep
  <1>4. TypeInv /\ WalkInv /\ MapFromOneWalk /\ [Next]_vars => MapFromOneWalk'
    <2> SUFFICES ASSUME TypeInv, WalkInv, MapFromOneWalk, [Next]_vars PROVE MapFromOneWalk'
      OBVIOUS
    <2>1. PICK W \in SUBSET source : schemaMap = MapOf(W)
      BY DEF MapFromOneWalk
    <2>2. CASE UNCHANGED <<source, schemaMap>>
      BY <2>1, <2>2 DEF MapFromOneWalk, MapOf
    <2>3. CASE source = {} /\ UNCHANGED schemaMap
      <3>1. W \in SUBSET source' /\ schemaMap' = MapOf(W)
        BY <2>1, <2>3
      <3> QED
        BY <3>1, Zenon DEF MapFromOneWalk, MapOf
    <2>4. CASE UNCHANGED source /\ \E V \in SUBSET source : schemaMap' = MapOf(V)
      BY <2>4, Zenon DEF MapFromOneWalk, MapOf
    <2> QED
      BY <2>2, <2>3, <2>4, CacheSteps
  <1> QED
    BY InitTypeInv, InitWalkInv, <1>1, <1>2, <1>3, <1>4, PTL DEF Spec

\* The client implements SchemaDirectory: filling in the list is its List,
\* storing a map its Store; whatever else callers, network and Yearning do
\* changes neither.
THEOREM Implementation == Spec => ImplementsDirectory
  <1>1. ASSUME NEW W PROVE Directory!MapOf(W) = MapOf(W)
    BY DEF Directory!MapOf, Directory!Min, MapOf, Min
  <1>2. Init => Directory!Init
    BY AbsentIsEmptyWalk, <1>1 DEF Init, Directory!Init
  <1>3. TypeInv /\ [Next]_vars => TypeInv'
    BY LocalStep, WalkStep, TokensStep, CachesStep DEF TypeInv
  <1>4. TypeInv /\ WalkInv /\ [Next]_vars => WalkInv'
    BY WalkInvStep
  <1>5. TypeInv /\ WalkInv /\ [Next]_vars => [Directory!Next]_Directory!vars
    <2> SUFFICES ASSUME TypeInv, WalkInv, [Next]_vars PROVE [Directory!Next]_Directory!vars
      OBVIOUS
    <2>1. CASE UNCHANGED <<source, schemaMap>>
      BY <2>1 DEF Directory!vars
    <2>2. CASE source = {} /\ source' \in SUBSET SourceIds /\ UNCHANGED schemaMap
      BY <2>2 DEF Directory!Next, Directory!List
    <2>3. CASE UNCHANGED source /\ \E W \in SUBSET source : schemaMap' = MapOf(W)
      BY <1>1, <2>3, Zenon DEF Directory!Next, Directory!Store
    <2> QED
      BY <2>1, <2>2, <2>3, CacheSteps
  <1> QED
    BY InitTypeInv, InitWalkInv, <1>2, <1>3, <1>4, <1>5, PTL
    DEF Spec, ImplementsDirectory, Directory!Spec
===============================================================================
