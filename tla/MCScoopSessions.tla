-------------------------- MODULE MCScoopSessions --------------------------
(* Instances of ScoopSessions for TLC. *)
EXTENDS ScoopSessions, TLC

CONSTANTS m, a, b, c

\* Features of the main region have separate arguments in both other regions,
\* or in one; features of a use b: b is contended.
TwoClients == {m, a, b}
TwoClientsBlocks == m :> {<<a, b>>, <<a>>} @@ a :> {<<b>>} @@ b :> {}

\* The main region has features with separate arguments in a and b, and in b
\* alone.  With four sessions there are two rings, or a ring between singletons:
\* a submission locks a before b, a promotion by the processor of b locks b before
\* a, and either may find the other region busy.
ContendedBlocks == m :> {<<a, b>>, <<b>>} @@ a :> {} @@ b :> {}

\* A multisession over three regions that overlaps one over two of them; b is
\* contended by features of a.
ThreeCallees == {m, a, b, c}
ThreeCalleesBlocks ==
  m :> {<<a, b, c>>, <<a, b>>} @@ a :> {<<b>>} @@ b :> {} @@ c :> {}
=============================================================================
