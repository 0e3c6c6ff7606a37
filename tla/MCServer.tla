------------------------------- MODULE MCServer -------------------------------
(***************************************************************************)
(* Instance of Server for TLC, beside that of QueryExec: two connections,  *)
(* one of which records two events and the other one. A behaviour is one of *)
(* either component, which share no state: Server leaves what a command     *)
(* does to QueryExec, and QueryExec what surrounds a connection to Server.  *)
(***************************************************************************)
EXTENDS MCQueryExec, Server

CONSTANTS c1, c2

MCConns == {c1, c2}
MCMaxEvents == (c1 :> 2) @@ (c2 :> 1)

VARIABLE part  \* the component at work

EitherInit ==
  /\ part \in {"exec", "server"}
  /\ Init
  /\ ServerInit
  /\ part = "exec" => log = "off"

EitherNext ==
  \/ part = "exec" /\ Next /\ UNCHANGED <<part, serverVars>>
  \/ part = "server" /\ ServerNext /\ UNCHANGED <<part, vars>>

EitherSpec ==
  /\ EitherInit
  /\ [][EitherNext]_<<part, vars, serverVars>>
  /\ Fairness
  /\ ServerFairness
=============================================================================
