----------------------- MODULE MCScoopPreconditions -----------------------
(* An instance of ScoopPreconditions for TLC. *)
EXTENDS ScoopPreconditions, TLC

CONSTANTS r1, r2, fill, drain, both, owner

\* The clients fill and drain do to r1 what their names say; both fills r1 and r2,
\* of which it holds r2 already; owner holds all it asks for.
MCRegions == {r1, r2}
MCClients == {fill, drain, both, owner}
MCArgs == fill :> {r1} @@ drain :> {r1} @@ both :> {r1, r2} @@ owner :> {r2}
MCOuter == fill :> {} @@ drain :> {} @@ both :> {r2} @@ owner :> {r2}
MCWanted == fill :> 0 @@ drain :> 1 @@ both :> 0 @@ owner :> 1
MCRounds == fill :> 1 @@ drain :> 2 @@ both :> 1 @@ owner :> 1
=============================================================================
