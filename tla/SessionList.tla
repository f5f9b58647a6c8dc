---------------------------- MODULE SessionList ----------------------------
(***************************************************************************)
(* The doubly linked list of the sessions of one region (ge_scoop.c):      *)
(* first_session and last_session of the region, next and previous of the  *)
(* sessions, under the mutex of the region.                                *)
(*                                                                         *)
(* GE_unprotected_move_scoop_session_to_first does not make the `previous' *)
(* of the former first session point to the new one: the list is not       *)
(* well-formed backwards until the promoted session is removed.  The       *)
(* module shows that nobody sees the difference, because a session is only *)
(* moved in front of one that is not running, and only the first session   *)
(* is removed (OnlyFirstRuns of ScoopSessions).                            *)
(***************************************************************************)
EXTENDS SessionQueues, FiniteSets

CONSTANTS Sessions, None
ASSUME NoneAssumption == None \notin Sessions

VARIABLES
  first,      \* first_session
  last,       \* last_session
  next,       \* next of the sessions
  previous,   \* previous of the sessions
  isRunning,  \* is_running of the sessions
  keepAlive,  \* *keep_alive: "region" keeps the region from the collector
  fresh,      \* the sessions not submitted yet
  list        \* history: the sequence of sessions that the list stands for

vars == <<first, last, next, previous, isRunning, keepAlive, fresh, list>>

Init ==
  /\ first = None /\ last = None
  /\ next = [s \in Sessions |-> None]
  /\ previous = [s \in Sessions |-> None]
  /\ isRunning = [s \in Sessions |-> FALSE]
  /\ keepAlive = "null"
  /\ fresh = Sessions
  /\ list = << >>

\* GE_unprotected_add_scoop_session
AddSession(s) ==
  /\ s \in fresh
  /\ IF last # None
     THEN /\ next' = [next EXCEPT ![last] = s]
          /\ previous' = [previous EXCEPT ![s] = last]
          /\ UNCHANGED first
     ELSE /\ first' = s
          /\ UNCHANGED <<next, previous>>
  /\ last' = s
  /\ keepAlive' = "region"
  /\ fresh' = fresh \ {s}
  /\ list' = AddLast(list, s)
  /\ UNCHANGED isRunning

\* Mutant of MoveSessionToFirst: the last session is not a case of its own.
MoveForgetsLast(s) ==
  IF s = first
  THEN UNCHANGED <<first, last, next, previous>>
  ELSE /\ next' = [next EXCEPT ![previous[s]] = next[s], ![s] = first]
       /\ previous' = [previous EXCEPT ![s] = None]
       /\ first' = s
       /\ UNCHANGED last

\* Mutant of MoveSessionToFirst: the successor keeps its `previous'.
MoveForgetsSuccessor(s) ==
  IF s = first
  THEN UNCHANGED <<first, last, next, previous>>
  ELSE /\ next' = [next EXCEPT ![previous[s]] = next[s], ![s] = first]
       /\ previous' = [previous EXCEPT ![s] = None]
       /\ first' = s
       /\ last' = IF s = last THEN previous[s] ELSE last

\* GE_unprotected_move_scoop_session_to_first
MoveSessionToFirst(s) ==
  IF s = first
  THEN UNCHANGED <<first, last, next, previous>>
  ELSE IF s = last
  THEN /\ last' = previous[s]
       /\ next' = [next EXCEPT ![previous[s]] = None, ![s] = first]
       /\ previous' = [previous EXCEPT ![s] = None]
       /\ first' = s
  ELSE /\ next' = [next EXCEPT ![previous[s]] = next[s], ![s] = first]
       /\ previous' = [previous EXCEPT ![next[s]] = previous[s], ![s] = None]
       /\ first' = s
       /\ UNCHANGED last

\* A session only passes a first session that is not running.
MayPass(s) == s = first \/ ~isRunning[first]

\* GE_promote_scoop_session for a session of this region.
PromoteSession(s) ==
  /\ \E i \in 1..Len(list) : list[i] = s
  /\ MayPass(s)
  /\ MoveSessionToFirst(s)
  /\ isRunning' = [isRunning EXCEPT ![s] = TRUE]
  /\ list' = MoveToFirst(list, s)
  /\ UNCHANGED <<keepAlive, fresh>>

\* Mutant of KeepAliveAfter: the region is kept alive for ever.
KeepAliveForever(f) == keepAlive

\* *keep_alive after a removal that leaves f as the first session.
KeepAliveAfter(f) == IF f = None THEN "null" ELSE keepAlive

\* GE_remove_scoop_session, by the processor that executed the session.
RemoveSession(s) ==
  /\ s = first /\ s # None /\ isRunning[s]
  /\ IF previous[s] # None
     THEN next' = [next EXCEPT ![previous[s]] = next[s]] /\ UNCHANGED first
     ELSE first' = next[s] /\ UNCHANGED next
  /\ IF next[s] # None
     THEN previous' = [previous EXCEPT ![next[s]] = previous[s]] /\ UNCHANGED last
     ELSE last' = previous[s] /\ UNCHANGED previous
  /\ keepAlive' = KeepAliveAfter(first')
  /\ list' = Without(list, s)
  /\ UNCHANGED <<isRunning, fresh>>

Next == \E s \in Sessions : AddSession(s) \/ PromoteSession(s) \/ RemoveSession(s)

Spec == Init /\ [][Next]_vars

-----------------------------------------------------------------------------

\* The variables stay in their domains, and no session is in the list twice.
TypeOK ==
  /\ first \in Sessions \union {None} /\ last \in Sessions \union {None}
  /\ next \in [Sessions -> Sessions \union {None}]
  /\ previous \in [Sessions -> Sessions \union {None}]
  /\ isRunning \in [Sessions -> BOOLEAN] /\ keepAlive \in {"region", "null"}
  /\ fresh \subseteq Sessions
  /\ list \in Seq(Sessions)
  /\ \A i, j \in 1..Len(list) : list[i] = list[j] => i = j

\* Walking from first_session along `next' to last_session meets the sessions
\* in the order of the queue: nothing is lost, repeated or cut off by the
\* unlinking and relinking of a promotion or a removal.
ForwardLinks ==
  /\ first = IF list = << >> THEN None ELSE list[1]
  /\ last = IF list = << >> THEN None ELSE list[Len(list)]
  /\ \A i \in 1..Len(list) :
       next[list[i]] = IF i = Len(list) THEN None ELSE list[i+1]

\* Every `previous' that the code can read is right: the one of the second
\* session may be stale (null), but only while the first session is running,
\* when nothing is promoted in front of it.
BackwardLinks ==
  \A i \in 1..Len(list) :
    \/ previous[list[i]] = IF i = 1 THEN None ELSE list[i-1]
    \/ i = 2 /\ previous[list[i]] = None /\ isRunning[list[1]]

\* The region is kept from the garbage collector exactly while it has sessions.
KeptAlive == keepAlive = IF list = << >> THEN "null" ELSE "region"

\* Only the first session of the region is running.
OnlyFirstRunning == \A i \in 2..Len(list) : ~isRunning[list[i]]
=============================================================================
