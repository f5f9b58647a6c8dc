-------------------------- MODULE ExclusiveAccess --------------------------
(***************************************************************************)
(* What SCOOP promises of separate arguments (the rule m9ea of the         *)
(* repository's validation suite): a feature gets exclusive access to the  *)
(* regions of all its separate arguments at once, or to none of them, and  *)
(* gives the regions back one by one.  Nothing is said here of queues,     *)
(* locks, threads or wakeups: ScoopSessions implements this.               *)
(***************************************************************************)
EXTENDS FiniteSets

CONSTANTS Regions,   \* what access is granted to
          Requests,  \* the features with separate arguments
          None       \* no request

VARIABLES need,      \* the regions a request still waits for or holds
          granted,   \* the requests whose access was granted
          holder     \* the request that has access to a region

accessVars == <<need, granted, holder>>

AccessInit ==
  /\ need = [q \in Requests |-> {}]
  /\ granted = {}
  /\ holder = [r \in Regions |-> None]

\* A feature asks for all the regions it needs.
Request(q) ==
  /\ q \notin granted /\ need[q] = {}
  /\ need'[q] \in (SUBSET Regions) \ {{}}
  /\ need' = [need EXCEPT ![q] = need'[q]]
  /\ UNCHANGED <<granted, holder>>

\* Access to all of them, none of which another request has access to.
Grant(q) ==
  /\ q \notin granted /\ need[q] # {}
  /\ \A r \in need[q] : holder[r] = None
  /\ holder' = [r \in Regions |-> IF r \in need[q] THEN q ELSE holder[r]]
  /\ granted' = granted \union {q}
  /\ UNCHANGED need

\* The calls of the request on r were all executed.
Release(q, r) ==
  /\ holder[r] = q
  /\ holder' = [holder EXCEPT ![r] = None]
  /\ need' = [need EXCEPT ![q] = @ \ {r}]
  /\ UNCHANGED granted

AccessNext ==
  \E q \in Requests :
     \/ Request(q)
     \/ Grant(q)
     \/ \E r \in Regions : Release(q, r)

AccessSpec == AccessInit /\ [][AccessNext]_accessVars
=============================================================================
