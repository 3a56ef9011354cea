-------------------------- MODULE MCServerLifecycle --------------------------
(* Four requests on one or two connections. *)
EXTENDS ServerLifecycle

CONSTANTS ask, read, create, update

\* Update takes the connection three times, Create twice, GetByID once.
TurnsOf == [r \in Requests |-> CASE r = ask -> 0 [] r = read -> 1 [] r = create -> 2 [] r = update -> 3]
=============================================================================
