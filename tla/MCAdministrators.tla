-------------------------- MODULE MCAdministrators --------------------------
(* Small instances of Administrators. *)
EXTENDS Administrators

\* Every replica is started with the administrator the deployment began with.
MCFlag == [r \in Replica |-> CHOOSE i \in Id : i \notin Anonymous]

MCHost == CHOOSE f \in [Request -> Replica] : TRUE
=============================================================================
