--------------------------- MODULE ScoopPassive ---------------------------
(***************************************************************************)
(* A passive SCOOP region (ge_scoop.c): it has sessions like any region,   *)
(* but no processor.  The clients execute the calls themselves, once a     *)
(* null call told them that their session is the one that runs.  What the  *)
(* processor of an active region would do, taking the first session,       *)
(* executing its null call and removing it when it is closed, is done by   *)
(* whichever thread passes by: each submission and each close ends in the  *)
(* housekeeping loop, which releases the mutex of the region around what   *)
(* it does to the session: two threads may remove the same session.  The   *)
(* links of the list are therefore modelled one by one, as they stay in    *)
(* sessions that were removed.                                             *)
(*                                                                         *)
(* The sessions have one separate argument; nested openings of a session   *)
(* are the subject of ScoopLocks.                                          *)
(***************************************************************************)
EXTENDS Naturals, FiniteSets, SessionQueues

CONSTANTS
  Clients,      \* the threads whose code uses the passive region
  MaxSessions,  \* bound: how many sessions are ever allocated
  MaxCalls,     \* bound: how many calls are ever made
  None          \* the null pointer

ASSUME ClientsAssumption == None \notin Clients
ASSUME BoundsAssumption == MaxSessions \in Nat /\ MaxCalls \in Nat
ASSUME NoneAssumption == None \notin Nat

Sessions == 1..MaxSessions

VARIABLES
  \* sessions
  allocated,    \* number of sessions allocated so far
  freed,        \* the sessions whose memory was given back
  isOpen,       \* is_open
  isSubmitted,  \* is_submitted
  isRunning,    \* is_running
  nullCall,     \* first_call: the null call, until it is executed
  made,         \* history: how many calls were made so far
  \* the passive region and the session count
  first,        \* first_session
  last,         \* last_session
  next,         \* next of the sessions, never reset
  previous,     \* previous of the sessions, never reset
  queue,        \* history: the sessions added and not removed, in this order
  removedTwice, \* history: a removed session was removed again
  mutex,        \* who holds the mutex of the region
  count,        \* GE_unprotected_scoop_sessions_count, of these sessions
  \* clients
  pc,           \* where the thread is
  mine,         \* the session the client has open
  after,        \* where it goes after the housekeeping
  visited,      \* l_session of the housekeeping loop, or the session to remove
  awaited,      \* synchronization->wait of its null call
  \* the process
  execution     \* "defined"; "undefined": a freed session was used, and the
                \* fields were still there; "dead": the process died of it

sessionVars == <<allocated, freed, isOpen, isSubmitted, isRunning, nullCall, made>>
clientVars == <<pc, mine, after, visited, awaited>>
listVars == <<first, last, next, previous, queue, removedTwice>>
vars == <<sessionVars, listVars, mutex, count, clientVars, execution>>

PCs == {"out", "open", "count", "submit", "await", "body",
        "relock", "scan", "execute", "check", "leave", "unlink", "free"}

Goto(t, l) == pc' = [pc EXCEPT ![t] = l]

-----------------------------------------------------------------------------
(***************************************************************************)
(* The client.                                                             *)
(***************************************************************************)

\* GE_scoop_session_open
OpenSession(t) ==
  /\ pc[t] = "out" /\ allocated < MaxSessions
  /\ allocated' = allocated + 1
  /\ isOpen' = [isOpen EXCEPT ![allocated + 1] = TRUE]
  /\ mine' = [mine EXCEPT ![t] = allocated + 1]
  /\ Goto(t, "open")
  /\ UNCHANGED <<freed, isSubmitted, isRunning, nullCall, made, listVars, mutex,
                 count, after, visited, awaited>>

\* Mutant of NullCallNeeded: a passive region is never waited for.
NeverNeeded(s) == FALSE

\* The session s was not promoted to be the one that runs.
NullCallNeeded(s) == ~isRunning[s]

\* A call, which is always synchronous: GE_scoop_session_add_sync_call logs no
\* null call when the session runs; otherwise GE_scoop_session_add_call submits
\* the session, or looks after the region at once.
Call(t) ==
  LET s == mine[t]
  IN  /\ pc[t] = "open" /\ made < MaxCalls /\ mutex = None
      /\ made' = made + 1
      /\ IF NullCallNeeded(s)
         THEN /\ nullCall' = [nullCall EXCEPT ![s] = TRUE]
              /\ awaited' = [awaited EXCEPT ![t] = TRUE]
              /\ after' = [after EXCEPT ![t] = "await"]
              /\ Goto(t, IF isSubmitted[s] THEN "relock" ELSE "count")
         ELSE Goto(t, "body") /\ UNCHANGED <<nullCall, awaited, after>>
      /\ UNCHANGED <<allocated, freed, isOpen, isSubmitted, isRunning, listVars,
                     mutex, count, mine, visited>>

\* Mutant of CountSession: the session is not counted.
UncountedSession(t) ==
  /\ pc[t] = "count"
  /\ Goto(t, "submit")
  /\ UNCHANGED <<sessionVars, listVars, mutex, count, mine, after, visited, awaited>>

\* GE_add_scoop_session: the session is counted, then queued; the mutex of the
\* region is kept for the housekeeping.
CountSession(t) ==
  /\ pc[t] = "count"
  /\ count' = count + 1
  /\ Goto(t, "submit")
  /\ UNCHANGED <<sessionVars, listVars, mutex, mine, after, visited, awaited>>

SubmitSession(t) ==
  /\ pc[t] = "submit" /\ mutex = None
  /\ mutex' = t
  /\ IF last # None
     THEN /\ next' = [next EXCEPT ![last] = mine[t]]
          /\ previous' = [previous EXCEPT ![mine[t]] = last]
          /\ UNCHANGED first
     ELSE first' = mine[t] /\ UNCHANGED <<next, previous>>
  /\ last' = mine[t]
  /\ queue' = AddLast(queue, mine[t])
  /\ isSubmitted' = [isSubmitted EXCEPT ![mine[t]] = TRUE]
  /\ Goto(t, "scan")
  /\ UNCHANGED <<allocated, freed, isOpen, isRunning, nullCall, made, removedTwice,
                 count, mine, after, visited, awaited>>

\* The null call was executed: the client executes the call proper.
NullCallDone(t) ==
  /\ pc[t] = "await" /\ ~awaited[t]
  /\ Goto(t, "body")
  /\ UNCHANGED <<sessionVars, listVars, mutex, count, mine, after, visited, awaited>>

EndCall(t) ==
  /\ pc[t] = "body"
  /\ Goto(t, "open")
  /\ UNCHANGED <<sessionVars, listVars, mutex, count, mine, after, visited, awaited>>

\* GE_scoop_session_close: a submitted session that has no call left is removed,
\* and the housekeeping starts.
CloseSession(t) ==
  LET s == mine[t]
  IN  /\ pc[t] = "open"
      /\ isOpen' = [isOpen EXCEPT ![s] = FALSE]
      /\ mine' = [mine EXCEPT ![t] = None]
      /\ IF isSubmitted[s]
         THEN /\ visited' = [visited EXCEPT ![t] = s]
              /\ after' = [after EXCEPT ![t] = "out"]
              /\ Goto(t, IF nullCall[s] THEN "relock" ELSE "unlink")
              /\ UNCHANGED freed
         ELSE /\ freed' = freed \union {s}
              /\ Goto(t, "out")
              /\ UNCHANGED <<visited, after>>
      /\ UNCHANGED <<allocated, isSubmitted, isRunning, nullCall, made, listVars,
                     mutex, count, awaited>>

-----------------------------------------------------------------------------
(***************************************************************************)
(* The housekeeping: GE_unprotected_scoop_passive_region_wakeup.           *)
(***************************************************************************)

Relock(t) ==
  /\ pc[t] = "relock" /\ mutex = None
  /\ mutex' = t
  /\ Goto(t, "scan")
  /\ UNCHANGED <<sessionVars, listVars, count, mine, after, visited, awaited>>

\* The first session, if any, is the one that runs.
Scan(t) ==
  /\ pc[t] = "scan"
  /\ mutex' = None
  /\ IF first = None
     THEN Goto(t, after[t]) /\ UNCHANGED <<isRunning, visited>>
     ELSE /\ isRunning' = [isRunning EXCEPT ![first] = TRUE]
          /\ visited' = [visited EXCEPT ![t] = first]
          /\ Goto(t, "execute")
  /\ UNCHANGED <<allocated, freed, isOpen, isSubmitted, nullCall, made, listVars,
                 count, mine, after, awaited>>

\* GE_scoop_session_execute: the null call, if it is still there, is taken, and
\* its client is told.
Execute(t) ==
  LET s == visited[t]
  IN  /\ pc[t] = "execute"
      /\ IF nullCall[s]
         THEN /\ nullCall' = [nullCall EXCEPT ![s] = FALSE]
              /\ awaited' = [c \in Clients |-> awaited[c] /\ mine[c] # s]
              /\ UNCHANGED pc
         ELSE Goto(t, "check") /\ UNCHANGED <<nullCall, awaited>>
      /\ UNCHANGED <<allocated, freed, isOpen, isSubmitted, isRunning, made, listVars,
                     mutex, count, mine, after, visited>>

\* Mutant of Finished: an open session is removed like a closed one.
AlwaysFinished(s) == TRUE

\* The session is to be removed: nobody can add a call any more.
Finished(s) == ~isOpen[s]

CheckOpen(t) ==
  /\ pc[t] = "check"
  /\ Goto(t, IF Finished(visited[t]) THEN "unlink" ELSE "leave")
  /\ UNCHANGED <<sessionVars, listVars, mutex, count, mine, after, visited, awaited>>

\* The loop ends: the mutex is taken and released again.
LeaveLoop(t) ==
  /\ pc[t] = "leave" /\ mutex = None
  /\ visited' = [visited EXCEPT ![t] = None]
  /\ Goto(t, after[t])
  /\ UNCHANGED <<sessionVars, listVars, mutex, count, mine, after, awaited>>

\* The session s was added and was not removed since.
InQueue(s) == \E i \in 1..Len(queue) : queue[i] = s

\* GE_remove_scoop_session takes the session out of the list, whether or not it
\* is still there: a second removal writes the links that the session had into
\* the list as it is now ...
Unlink(t) ==
  LET s == visited[t]
  IN  /\ pc[t] = "unlink" /\ mutex = None
      /\ IF previous[s] # None
         THEN next' = [next EXCEPT ![previous[s]] = next[s]] /\ UNCHANGED first
         ELSE first' = next[s] /\ UNCHANGED next
      /\ IF next[s] # None
         THEN previous' = [previous EXCEPT ![next[s]] = previous[s]] /\ UNCHANGED last
         ELSE last' = previous[s] /\ UNCHANGED previous
      /\ IF InQueue(s)
         THEN queue' = Without(queue, s) /\ UNCHANGED removedTwice
         ELSE removedTwice' = TRUE /\ UNCHANGED queue
      /\ Goto(t, "free")
      /\ UNCHANGED <<sessionVars, mutex, count, mine, after, visited, awaited>>

\* Mutant of AfterRemoval: the next session is not looked for.
NoHousekeeping(t) == after[t]

\* Both callers of GE_remove_scoop_session look at the queue again.
AfterRemoval(t) == "relock"

\* ... and frees it.
Free(t) ==
  /\ pc[t] = "free"
  /\ freed' = freed \union {visited[t]}
  /\ visited' = [visited EXCEPT ![t] = None]
  /\ count' = IF count > 0 THEN count - 1 ELSE count
  /\ Goto(t, AfterRemoval(t))
  /\ UNCHANGED <<allocated, isOpen, isSubmitted, isRunning, nullCall, made, listVars,
                 mutex, mine, after, awaited>>

\* The sessions that the next step of the thread t reads or writes.
Uses(t) ==
  LET s == visited[t]
  IN  CASE pc[t] \in {"execute", "check", "free"} -> {s}
        [] pc[t] = "unlink" -> {s, previous[s], next[s]} \ {None}
        [] pc[t] = "submit" -> {last} \ {None}
        [] pc[t] = "scan" -> {first} \ {None}
        [] OTHER -> {}

-----------------------------------------------------------------------------

\* The creation call of the region is over.
Init ==
  /\ allocated = 0 /\ freed = {}
  /\ isOpen = [s \in Sessions |-> FALSE]
  /\ isSubmitted = [s \in Sessions |-> FALSE]
  /\ isRunning = [s \in Sessions |-> FALSE]
  /\ nullCall = [s \in Sessions |-> FALSE]
  /\ made = 0
  /\ first = None /\ last = None
  /\ next = [s \in Sessions |-> None] /\ previous = [s \in Sessions |-> None]
  /\ queue = << >> /\ removedTwice = FALSE
  /\ mutex = None /\ count = 0
  /\ pc = [t \in Clients |-> "out"]
  /\ mine = [t \in Clients |-> None]
  /\ after = [t \in Clients |-> "out"]
  /\ visited = [t \in Clients |-> None]
  /\ awaited = [t \in Clients |-> FALSE]
  /\ execution = "defined"

Housekeeping(t) ==
  \/ Relock(t) \/ Scan(t) \/ Execute(t) \/ CheckOpen(t) \/ LeaveLoop(t)
  \/ Unlink(t) \/ Free(t)

Step(t) ==
  \/ OpenSession(t) \/ Call(t) \/ CountSession(t) \/ SubmitSession(t)
  \/ NullCallDone(t) \/ EndCall(t) \/ CloseSession(t) \/ Housekeeping(t)

UsesFreed(t) == Uses(t) \cap freed # {}

\* The process may die of the use of a session that was freed.
Die(t) ==
  /\ UsesFreed(t) /\ (pc[t] \in {"unlink", "submit"} => mutex = None)
  /\ execution' = "dead"
  /\ UNCHANGED <<sessionVars, listVars, mutex, count, clientVars>>

Thread(t) ==
  /\ execution # "dead"
  /\ \/ /\ Step(t)
        /\ execution' = IF UsesFreed(t) THEN "undefined" ELSE execution
     \/ Die(t)

\* No client has anything left to do.
Done == allocated = MaxSessions /\ \A t \in Clients : pc[t] = "out"

\* Everything is done, or the process died, or the client of a session that fell
\* out of the list waits for ever.
Finish ==
  /\ Done \/ removedTwice \/ execution = "dead"
  /\ UNCHANGED vars

Next == (\E t \in Clients : Thread(t)) \/ Finish

Spec == Init /\ [][Next]_vars

\* The operating system schedules every thread, and a thread that waits for a
\* mutex that is released again and again gets it.
FairSpec == Spec /\ \A t \in Clients : SF_vars(Thread(t))

-----------------------------------------------------------------------------
(***************************************************************************)
(* Properties.                                                             *)
(***************************************************************************)

\* A session or the null pointer.
Pointers == (1..allocated) \union {None}

\* The variables stay in their domains; a feature that uses its session, and a
\* thread that looks after one, has a pointer to it.
TypeOK ==
  /\ allocated \in 0..MaxSessions /\ freed \subseteq 1..allocated
  /\ isOpen \in [Sessions -> BOOLEAN] /\ isSubmitted \in [Sessions -> BOOLEAN]
  /\ isRunning \in [Sessions -> BOOLEAN] /\ nullCall \in [Sessions -> BOOLEAN]
  /\ made \in 0..MaxCalls
  /\ first \in Pointers /\ last \in Pointers
  /\ next \in [Sessions -> Pointers] /\ previous \in [Sessions -> Pointers]
  /\ queue \in Seq(1..allocated) /\ removedTwice \in BOOLEAN
  /\ mutex \in Clients \union {None} /\ count \in Nat
  /\ pc \in [Clients -> PCs]
  /\ mine \in [Clients -> Pointers]
  /\ after \in [Clients -> {"out", "await"}]
  /\ visited \in [Clients -> Pointers]
  /\ awaited \in [Clients -> BOOLEAN]
  /\ \A t \in Clients :
       /\ pc[t] \in {"open", "count", "submit", "await", "body"} => mine[t] # None
       /\ pc[t] \in {"execute", "check", "unlink", "free"} => visited[t] # None
  /\ execution \in {"defined", "undefined", "dead"}

\* Two clients never execute code of the passive region at the same time, as
\* long as no session was removed a second time.
OneBody == \A t, u \in Clients : pc[t] = "body" /\ pc[u] = "body" => t = u
ExclusiveBodies == ~removedTwice => OneBody

\* Two clients never execute code of the passive region at the same time, while
\* the process does what the code says.
RegionIsExclusive == execution = "defined" => OneBody

\* The process cannot stop under a session of a passive region: the session
\* count is at least the number of sessions in the queue, as long as none was
\* uncounted twice.
QueuedIsCounted == ~removedTwice => Len(queue) <= count

\* The list, walked from first_session along `next', leads to the session s.
InList(s) ==
  \E i \in 1..Len(queue) :
     /\ queue[i] = s /\ first = queue[1]
     /\ \A j \in 1..(i - 1) : next[queue[j]] = queue[j+1]

\* The session of a client that waits or executes is open and not freed.  Once
\* it was submitted it is in the linked list, whoever takes other sessions out
\* of it, as long as no session is taken out a second time: no waiting client
\* is forgotten.
RemovedIsFinished ==
  \A t \in Clients : pc[t] \in {"count", "submit", "await", "body"} =>
     /\ mine[t] \notin freed /\ isOpen[mine[t]]
     /\ isSubmitted[mine[t]] /\ ~removedTwice => InList(mine[t])

\* No thread uses a session of the passive region after it was freed.  This does not
\* hold: the housekeeping uses the session it saw after it released the mutex.
NoUseAfterFree == \A t \in Clients : ~UsesFreed(t)

\* Every client that waits for the passive region gets it, so that all of them
\* finish: whoever closes a session, or sees one closed, hands the region over
\* to the next one.  Only a session that is removed twice, or a process that
\* dies, can keep a client from that.
WaitersServed == <>(Done \/ removedTwice \/ execution = "dead")
=============================================================================
