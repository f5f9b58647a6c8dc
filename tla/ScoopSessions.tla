--------------------------- MODULE ScoopSessions ---------------------------
(***************************************************************************)
(* The scheduling core of the SCOOP runtime (ge_scoop.c): the session      *)
(* queues of the regions, the processors that serve them, the atomic       *)
(* submission and promotion of multisessions, and the global session count *)
(* that decides when the process may stop.                                 *)
(*                                                                         *)
(* One thread per region: its processor.  A processor is a server (it runs *)
(* GE_scoop_processor_run) and, while it executes a call, a client of the  *)
(* other regions (the code gec emits for a feature with separate arguments *)
(* opens one session per argument, logs calls, and closes the sessions).   *)
(* The main processor starts as a client: it runs the root creation        *)
(* procedure first.                                                        *)
(*                                                                         *)
(* The mutex of a region and GE_scoop_multisessions_mutex are held over    *)
(* several steps and are variables here.  The mutex of a session, and the  *)
(* one of the session count, only protect sections that block on nothing:  *)
(* such a section is one step.                                             *)
(***************************************************************************)
EXTENDS SessionQueues, FiniteSets

CONSTANTS
  Regions,      \* the active SCOOP regions, each with its processor
  Main,         \* the region of the root object
  MaxSessions,  \* bound: how many sessions are ever allocated
  MaxCalls,     \* bound: how many calls a client logs in one session
  Blocks,       \* Blocks[r]: the lists of separate arguments that code of r uses
  CallKinds,    \* the kinds of calls clients log: "async", "sync"
  TimedWait,    \* GE_USE_BOEHM_GC: the idle processor waits with a timeout
  None          \* the null pointer

ASSUME MainAssumption == Main \in Regions
ASSUME BoundsAssumption == MaxSessions \in Nat /\ MaxCalls \in Nat
ASSUME NoneAssumption == None \notin Regions /\ None \notin Nat
ASSUME KindsAssumption == CallKinds \subseteq {"async", "sync"}
ASSUME TimedWaitAssumption == TimedWait \in BOOLEAN
ASSUME BlocksAssumption ==
  \A r \in Regions : \A b \in Blocks[r] :
     /\ b \in Seq(Regions \ {r}) /\ b # << >>
     /\ \A i, j \in 1..Len(b) : b[i] = b[j] => i = j

Sessions == 1..MaxSessions

VARIABLES
  \* sessions (struct GE_scoop_session_struct)
  allocated,    \* number of sessions allocated so far
  freed,        \* the sessions whose memory was given back
  caller,       \* the region that opened the session
  callee,       \* the region the session is for
  nextSibling,  \* next_sibling_session: the ring of a multisession
  isOpen,       \* is_open (a client opens a session once here)
  isSubmitted,  \* is_submitted
  isRunning,    \* is_running
  calls,        \* first_call..last_call: the calls still to be executed
  mustWait,     \* the `wait' flag of the synchronous call last logged
  logged,       \* history: number of calls logged in the session
  applied,      \* history: number of its calls whose execution has started
  \* regions (struct GE_scoop_region_struct)
  queue,        \* first_session..last_session
  regionLock,   \* who holds the mutex of the region
  \* globals
  multiLock,    \* who holds GE_scoop_multisessions_mutex
  count,        \* GE_unprotected_scoop_sessions_count
  \* processors (threads)
  pc,           \* where the processor is
  cur,          \* the session it executes
  call,         \* the kind of the call it executes
  block,        \* the sessions its current feature has open
  base,         \* a_session of GE_add_scoop_session, l_session of promote
  sib,          \* l_sibling
  locks,        \* l_count: regions visited in the ring
  step,         \* i: the loop counter over the ring
  ready,        \* l_ready
  scan,         \* position in the queue of the session promote looks at
  \* the process
  crashed       \* the process died reading a freed session

sessionVars == <<allocated, freed, caller, callee, nextSibling, isOpen,
                 isSubmitted, isRunning, calls, mustWait, logged, applied>>
localVars == <<cur, call, block, base, sib, locks, step, ready, scan>>
vars == <<sessionVars, queue, regionLock, multiLock, count, pc, localVars, crashed>>

PCs == {"iterate", "promote", "prRegion", "prScan", "prSibling", "prMark",
        "prWake", "prDone", "recheck", "idle", "sleep", "waiting", "exited",
        "exec", "body", "closing", "sync", "remove", "decrement", "wakeMain",
        "increment", "append", "mLock", "mRegion", "mAppend", "mWake"}

-----------------------------------------------------------------------------
(***************************************************************************)
(* The session queue of a region, and the condition variable of a region.  *)
(***************************************************************************)

Singleton(s) == nextSibling[s] = s

\* A session that cannot be executed before it is promoted.
Blocked(s) == ~isRunning[s] /\ ~Singleton(s)

\* Mutant of Promotable: the test for an empty queue is dropped.
PromotableWithoutSession(q) == q # << >> => Blocked(Head(q))

\* Mutant of Promotable: a multisession is taken like any other session.
NeverPromotable(q) == FALSE

\* The queue q of a region needs a promotion.
Promotable(q) == q # << >> /\ Blocked(Head(q))

\* Mutant of Woken: the condition variable is not signalled.
NeverWoken(next, r) == next

\* GE_unprotected_scoop_region_wakeup of the active region r, given the
\* program counters next.
Woken(next, r) == IF next[r] = "waiting" THEN [next EXCEPT ![r] = "iterate"]
                  ELSE next

\* A client that submitted s with the call it logged goes on: it waits for a
\* synchronous call and forgets about any other.  next: the program counters
\* otherwise.
CallLogged(t, s, next) ==
  /\ pc' = [next EXCEPT ![t] = IF mustWait[s] THEN "sync" ELSE "body"]
  /\ base' = [base EXCEPT ![t] = IF mustWait[s] THEN s ELSE None]

-----------------------------------------------------------------------------
(***************************************************************************)
(* The client side.                                                        *)
(***************************************************************************)

\* t and the callers that wait, directly or indirectly, for the synchronous
\* call it executes.
SyncCallers(t) ==
  LET up(u) == IF call[u] = "sync" THEN {caller[cur[u]]} ELSE {}
      chain[n \in 0..Cardinality(Regions)] ==
        IF n = 0 THEN {t}
        ELSE chain[n-1] \union UNION {up(u) : u \in chain[n-1]}
  IN  chain[Cardinality(Regions)]

\* A synchronous call passes the locks of its callers to t (GE_scoop_region_pass_locks):
\* a session on one of these regions is shared, not opened.
PassedTo(t) ==
  SyncCallers(t) \union
  UNION {{callee[block[u][i]] : i \in 1..Len(block[u])} : u \in SyncCallers(t)}

\* Mutant of NextInRing: the last session is not linked back to the first.
NextInOpenRing(s, n) == IF s = allocated + n THEN None ELSE s + 1

\* next_sibling_session of the new session s in a ring of n sessions.
NextInRing(s, n) == IF s = allocated + n THEN allocated + 1 ELSE s + 1

\* GE_scoop_session_open, once per separate argument of the list b: the new
\* sessions form a ring.
OpenSessions(t, b) ==
  LET n == Len(b)
      new == (allocated + 1)..(allocated + n)
  IN  /\ allocated + n <= MaxSessions
      /\ allocated' = allocated + n
      /\ callee' = [s \in Sessions |->
                      IF s \in new THEN b[s - allocated] ELSE callee[s]]
      /\ caller' = [s \in Sessions |-> IF s \in new THEN t ELSE caller[s]]
      /\ nextSibling' = [s \in Sessions |->
                           IF s \in new THEN NextInRing(s, n) ELSE nextSibling[s]]
      /\ isOpen' = [s \in Sessions |-> s \in new \/ isOpen[s]]
      /\ block' = [block EXCEPT ![t] = [i \in 1..n |-> allocated + i]]
      /\ UNCHANGED <<freed, isSubmitted, isRunning, calls, mustWait, logged,
                     applied, queue, regionLock, multiLock, count, pc, cur,
                     call, base, sib, locks, step, ready, scan, crashed>>

\* No other thread can see the new sessions yet: a feature with separate
\* arguments opens them in one step.
OpenBlock(t) ==
  /\ pc[t] = "body" /\ block[t] = << >>
  /\ \E b \in Blocks[t] : /\ \A i \in 1..Len(b) : b[i] \notin PassedTo(t)
                          /\ OpenSessions(t, b)

\* GE_scoop_session_add_call of a call of kind k to the session s: the call is
\* appended under the mutex of the session; the first call of a session submits
\* it.
AddCallTo(t, s, k) ==
  /\ logged[s] < MaxCalls
  /\ calls' = [calls EXCEPT ![s] = Append(@, k)]
  /\ logged' = [logged EXCEPT ![s] = @ + 1]
  /\ mustWait' = [mustWait EXCEPT ![s] = (k = "sync")]
  /\ pc' = [pc EXCEPT ![t] =
              IF isSubmitted[s] THEN (IF k = "sync" THEN "sync" ELSE "body")
              ELSE IF Singleton(s) THEN "increment" ELSE "mLock"]
  /\ base' = [base EXCEPT ![t] = IF pc'[t] = "body" THEN None ELSE s]
  /\ UNCHANGED <<allocated, freed, caller, callee, nextSibling, isOpen,
                 isSubmitted, isRunning, applied, queue, regionLock, multiLock,
                 count, cur, call, block, sib, locks, step, ready, scan, crashed>>

\* A call on one of the separate arguments.
AddCall(t) ==
  /\ pc[t] = "body"
  /\ \E i \in 1..Len(block[t]), k \in CallKinds : AddCallTo(t, block[t][i], k)

\* Mutant of CountSession: the session is not counted.
UncountedSession(t) ==
  /\ pc[t] = "increment"
  /\ pc' = [pc EXCEPT ![t] = "append"]
  /\ UNCHANGED <<sessionVars, queue, regionLock, multiLock, count, localVars,
                 crashed>>

\* GE_add_scoop_session of a singleton: the session is counted before it can
\* be seen by the processor of its callee.
CountSession(t) ==
  /\ pc[t] = "increment"
  /\ count' = count + 1
  /\ pc' = [pc EXCEPT ![t] = "append"]
  /\ UNCHANGED <<sessionVars, queue, regionLock, multiLock, localVars, crashed>>

AppendSession(t) ==
  LET s == base[t]
      r == callee[s]
  IN  /\ pc[t] = "append" /\ regionLock[r] = None
      /\ queue' = [queue EXCEPT ![r] = AddLast(@, s)]
      /\ isSubmitted' = [isSubmitted EXCEPT ![s] = TRUE]
      /\ CallLogged(t, s, Woken(pc, r))
      /\ UNCHANGED <<allocated, freed, caller, callee, nextSibling, isOpen,
                     isRunning, calls, mustWait, logged, applied, regionLock,
                     multiLock, count, cur, call, block, sib, locks, step,
                     ready, scan, crashed>>

\* GE_add_scoop_multisession: the lock on multisessions ...
LockMultisessions(t) ==
  /\ pc[t] = "mLock" /\ multiLock = None
  /\ multiLock' = t
  /\ sib' = [sib EXCEPT ![t] = base[t]]
  /\ pc' = [pc EXCEPT ![t] = "mRegion"]
  /\ UNCHANGED <<sessionVars, queue, regionLock, count, cur, call, block, base,
                 locks, step, ready, scan, crashed>>

\* ... then the mutex of each callee, in the order of the ring ...
LockCallee(t) ==
  LET s == sib[t]
      r == callee[s]
  IN  /\ pc[t] = "mRegion" /\ regionLock[r] = None
      /\ regionLock' = [regionLock EXCEPT ![r] = t]
      /\ sib' = [sib EXCEPT ![t] = nextSibling[s]]
      /\ pc' = [pc EXCEPT ![t] =
                  IF nextSibling[s] = base[t] THEN "mAppend" ELSE "mRegion"]
      /\ UNCHANGED <<sessionVars, queue, multiLock, count, cur, call, block,
                     base, locks, step, ready, scan, crashed>>

\* ... then each session is counted, queued and marked, and its region released ...
AppendSibling(t) ==
  LET s == sib[t]
      r == callee[s]
  IN  /\ pc[t] = "mAppend"
      /\ count' = count + 1
      /\ queue' = [queue EXCEPT ![r] = AddLast(@, s)]
      /\ isSubmitted' = [isSubmitted EXCEPT ![s] = TRUE]
      /\ regionLock' = [regionLock EXCEPT ![r] = None]
      /\ sib' = [sib EXCEPT ![t] = nextSibling[s]]
      /\ pc' = [pc EXCEPT ![t] =
                  IF nextSibling[s] = base[t] THEN "mWake" ELSE "mAppend"]
      /\ UNCHANGED <<allocated, freed, caller, callee, nextSibling, isOpen,
                     isRunning, calls, mustWait, logged, applied, multiLock,
                     cur, call, block, base, locks, step, ready, scan, crashed>>

\* ... and the callees are woken, before the lock on multisessions is released.
WakeCallee(t) ==
  LET s == sib[t]
      r == callee[s]
  IN  /\ pc[t] = "mWake" /\ regionLock[r] = None
      /\ IF nextSibling[s] = base[t]
         THEN /\ multiLock' = None
              /\ sib' = [sib EXCEPT ![t] = None]
              /\ CallLogged(t, base[t], Woken(pc, r))
         ELSE /\ sib' = [sib EXCEPT ![t] = nextSibling[s]]
              /\ pc' = Woken(pc, r)
              /\ UNCHANGED <<multiLock, base>>
      /\ UNCHANGED <<sessionVars, queue, regionLock, count, cur, call, block,
                     locks, step, ready, scan, crashed>>

\* The wait in GE_scoop_session_add_call for a synchronous call.
SyncReturn(t) ==
  /\ pc[t] = "sync" /\ ~mustWait[base[t]]
  /\ pc' = [pc EXCEPT ![t] = "body"]
  /\ base' = [base EXCEPT ![t] = None]
  /\ UNCHANGED <<sessionVars, queue, regionLock, multiLock, count, cur, call,
                 block, sib, locks, step, ready, scan, crashed>>

\* is_open once the session s is closed.
Closed(s) == [isOpen EXCEPT ![s] = FALSE]

\* GE_scoop_session_close of the sessions of the block, in their order.  A
\* session that was never submitted is freed by its caller.
CloseSession(t) ==
  LET s == Head(block[t])
  IN  /\ pc[t] \in {"body", "closing"} /\ block[t] # << >>
      /\ isOpen' = Closed(s)
      /\ freed' = IF isSubmitted[s] THEN freed ELSE freed \union {s}
      /\ block' = [block EXCEPT ![t] = Tail(@)]
      /\ pc' = [pc EXCEPT ![t] =
                  IF Tail(block[t]) = << >> THEN "body" ELSE "closing"]
      /\ UNCHANGED <<allocated, caller, callee, nextSibling, isSubmitted,
                     isRunning, calls, mustWait, logged, applied, queue,
                     regionLock, multiLock, count, cur, call, base, sib, locks,
                     step, ready, scan, crashed>>

-----------------------------------------------------------------------------
(***************************************************************************)
(* The server side: GE_scoop_processor_run.                                *)
(***************************************************************************)

\* The processor takes the session s of its queue: it is now running.
Take(t, s) ==
  /\ isRunning' = [isRunning EXCEPT ![s] = TRUE]
  /\ cur' = [cur EXCEPT ![t] = s]
  /\ pc' = [pc EXCEPT ![t] = "exec"]

\* GE_scoop_processor_run_one_iteration up to the promotion: with no session
\* the mutex of the region stays locked.
Iterate(t) ==
  /\ pc[t] = "iterate" /\ regionLock[t] = None
  /\ \/ /\ queue[t] = << >>
        /\ regionLock' = [regionLock EXCEPT ![t] = t]
        /\ pc' = [pc EXCEPT ![t] = "idle"]
        /\ UNCHANGED <<isRunning, cur>>
     \/ /\ Promotable(queue[t])
        /\ pc' = [pc EXCEPT ![t] = "promote"]
        /\ UNCHANGED <<isRunning, cur, regionLock>>
     \/ /\ queue[t] # << >> /\ ~Promotable(queue[t])
        /\ Take(t, Head(queue[t]))
        /\ UNCHANGED regionLock
  /\ UNCHANGED <<allocated, freed, caller, callee, nextSibling, isOpen,
                 isSubmitted, calls, mustWait, logged, applied, queue,
                 multiLock, count, call, block, base, sib, locks, step, ready,
                 scan, crashed>>

\* The rest of the iteration, after GE_promote_scoop_session: the first
\* session is read again, under the mutex of the region.
Recheck(t) ==
  LET s == Head(queue[t])
  IN  /\ pc[t] = "recheck" /\ regionLock[t] = None
      /\ \/ /\ Blocked(s)
            /\ regionLock' = [regionLock EXCEPT ![t] = t]
            /\ pc' = [pc EXCEPT ![t] = "idle"]
            /\ UNCHANGED <<isRunning, cur>>
         \/ /\ ~Blocked(s)
            /\ Take(t, s)
            /\ UNCHANGED regionLock
      /\ UNCHANGED <<allocated, freed, caller, callee, nextSibling, isOpen,
                     isSubmitted, calls, mustWait, logged, applied, queue,
                     multiLock, count, call, block, base, sib, locks, step,
                     ready, scan, crashed>>

\* No session to run: GE_scoop_processor_run stops if no session is left in
\* the whole system ...
Idle(t) ==
  /\ pc[t] = "idle"
  /\ IF count = 0
     THEN /\ regionLock' = [regionLock EXCEPT ![t] = None]
          /\ pc' = [pc EXCEPT ![t] = "exited"]
     ELSE /\ pc' = [pc EXCEPT ![t] = "sleep"]
          /\ UNCHANGED regionLock
  /\ UNCHANGED <<sessionVars, queue, multiLock, count, localVars, crashed>>

\* ... and waits on the condition variable of the region otherwise.
Sleep(t) ==
  /\ pc[t] = "sleep"
  /\ regionLock' = [regionLock EXCEPT ![t] = None]
  /\ pc' = [pc EXCEPT ![t] = "waiting"]
  /\ UNCHANGED <<sessionVars, queue, multiLock, count, localVars, crashed>>

\* With the Boehm collector the wait ends after 2 seconds.
Timeout(t) ==
  /\ TimedWait /\ pc[t] = "waiting"
  /\ pc' = [pc EXCEPT ![t] = "iterate"]
  /\ UNCHANGED <<sessionVars, queue, regionLock, multiLock, count, localVars, crashed>>

\* GE_scoop_session_execute: take the next call, or end when the session is
\* closed; an open session without calls is waited for.
NextCall(t) ==
  /\ pc[t] = "exec" /\ calls[cur[t]] # << >>
  /\ call' = [call EXCEPT ![t] = Head(calls[cur[t]])]
  /\ calls' = [calls EXCEPT ![cur[t]] = Tail(@)]
  /\ applied' = [applied EXCEPT ![cur[t]] = @ + 1]
  /\ pc' = [pc EXCEPT ![t] = "body"]
  /\ UNCHANGED <<allocated, freed, caller, callee, nextSibling, isOpen,
                 isSubmitted, isRunning, mustWait, logged, queue, regionLock,
                 multiLock, count, cur, block, base, sib, locks, step, ready,
                 scan, crashed>>

EndSession(t) ==
  /\ pc[t] = "exec" /\ calls[cur[t]] = << >> /\ ~isOpen[cur[t]]
  /\ pc' = [pc EXCEPT ![t] = "remove"]
  /\ UNCHANGED <<sessionVars, queue, regionLock, multiLock, count, localVars, crashed>>

\* The feature the processor executes returns: GE_scoop_call_execute wakes the
\* caller of a synchronous call.  The root creation procedure belongs to no
\* session; at its end the main processor gives back the session it counts for.
EndBody(t) ==
  /\ pc[t] = "body" /\ block[t] = << >>
  /\ mustWait' = IF call[t] = "sync"
                 THEN [mustWait EXCEPT ![cur[t]] = FALSE] ELSE mustWait
  /\ call' = [call EXCEPT ![t] = None]
  /\ pc' = [pc EXCEPT ![t] = IF cur[t] = None THEN "decrement" ELSE "exec"]
  /\ UNCHANGED <<allocated, freed, caller, callee, nextSibling, isOpen,
                 isSubmitted, isRunning, calls, logged, applied, queue,
                 regionLock, multiLock, count, cur, block, base, sib, locks,
                 step, ready, scan, crashed>>

\* GE_remove_scoop_session: unlink the session and free it ...
RemoveSession(t) ==
  LET s == cur[t]
  IN  /\ pc[t] = "remove" /\ regionLock[t] = None
      /\ queue' = [queue EXCEPT ![t] = Without(@, s)]
      /\ freed' = freed \union {s}
      /\ cur' = [cur EXCEPT ![t] = None]
      /\ pc' = [pc EXCEPT ![t] = "decrement"]
      /\ UNCHANGED <<allocated, caller, callee, nextSibling, isOpen,
                     isSubmitted, isRunning, calls, mustWait, logged, applied,
                     regionLock, multiLock, count, call, block, base, sib,
                     locks, step, ready, scan, crashed>>

\* Mutant of DecrementCount: the session stays counted.
NeverDecrement(t) ==
  /\ pc[t] = "decrement"
  /\ pc' = [pc EXCEPT ![t] = "iterate"]
  /\ UNCHANGED <<sessionVars, queue, regionLock, multiLock, count, localVars,
                 crashed>>

\* ... then GE_decrement_scoop_sessions_count; the last session wakes the main
\* processor, under the mutex of its region.
DecrementCount(t) ==
  /\ pc[t] = "decrement"
  /\ count' = IF count > 0 THEN count - 1 ELSE count
  /\ pc' = [pc EXCEPT ![t] = IF count' = 0 THEN "wakeMain" ELSE "iterate"]
  /\ UNCHANGED <<sessionVars, queue, regionLock, multiLock, localVars, crashed>>

WakeMain(t) ==
  /\ pc[t] = "wakeMain" /\ regionLock[Main] = None
  /\ pc' = Woken([pc EXCEPT ![t] = "iterate"], Main)
  /\ UNCHANGED <<sessionVars, queue, regionLock, multiLock, count, localVars, crashed>>

-----------------------------------------------------------------------------
(***************************************************************************)
(* GE_promote_scoop_session, by the processor t for its own region.        *)
(***************************************************************************)

PromoteLock(t) ==
  /\ pc[t] = "promote" /\ multiLock = None
  /\ multiLock' = t
  /\ pc' = [pc EXCEPT ![t] = "prRegion"]
  /\ UNCHANGED <<sessionVars, queue, regionLock, count, localVars, crashed>>

PromoteRegion(t) ==
  /\ pc[t] = "prRegion" /\ regionLock[t] = None
  /\ regionLock' = [regionLock EXCEPT ![t] = t]
  /\ scan' = [scan EXCEPT ![t] = 1]
  /\ pc' = [pc EXCEPT ![t] = "prScan"]
  /\ UNCHANGED <<sessionVars, queue, multiLock, count, cur, call, block, base,
                 sib, locks, step, ready, crashed>>

\* The head of the loop: a singleton or running session is moved to the front
\* and the search ends; the siblings of any other session are looked at.
PromoteScan(t) ==
  LET s == queue[t][scan[t]]
  IN  /\ pc[t] = "prScan"
      /\ \/ /\ scan[t] > Len(queue[t])
            /\ pc' = [pc EXCEPT ![t] = "prDone"]
            /\ UNCHANGED <<queue, isRunning, base, sib, locks, ready>>
         \/ /\ scan[t] <= Len(queue[t]) /\ ~Blocked(s)
            /\ queue' = [queue EXCEPT ![t] = MoveToFirst(@, s)]
            /\ isRunning' = [isRunning EXCEPT ![s] = TRUE]
            /\ pc' = [pc EXCEPT ![t] = "prDone"]
            /\ UNCHANGED <<base, sib, locks, ready>>
         \/ /\ scan[t] <= Len(queue[t]) /\ Blocked(s)
            /\ base' = [base EXCEPT ![t] = s]
            /\ sib' = [sib EXCEPT ![t] = nextSibling[s]]
            /\ locks' = [locks EXCEPT ![t] = 1]
            /\ ready' = [ready EXCEPT ![t] = TRUE]
            /\ pc' = [pc EXCEPT ![t] = "prSibling"]
            /\ UNCHANGED <<queue, isRunning>>
      /\ UNCHANGED <<allocated, freed, caller, callee, nextSibling, isOpen,
                     isSubmitted, calls, mustWait, logged, applied, regionLock,
                     multiLock, count, cur, call, block, step, scan, crashed>>

\* Mutant of Busy: what the siblings' regions are doing is not looked at.
NeverBusy(r, s) == FALSE

\* A region whose first session is running another session than s.
Busy(r, s) == s # Head(queue[r]) /\ isRunning[Head(queue[r])]

\* One sibling: its region is locked, and the search stops if it is busy.
PromoteSibling(t) ==
  LET s == sib[t]
      r == callee[s]
      stop == Busy(r, s) \/ nextSibling[s] = base[t]
  IN  /\ pc[t] = "prSibling" /\ regionLock[r] = None
      /\ regionLock' = [regionLock EXCEPT ![r] = t]
      /\ locks' = [locks EXCEPT ![t] = @ + 1]
      /\ ready' = [ready EXCEPT ![t] = ~Busy(r, s)]
      /\ sib' = [sib EXCEPT ![t] = IF stop THEN base[t] ELSE nextSibling[s]]
      /\ step' = [step EXCEPT ![t] = 0]
      /\ pc' = [pc EXCEPT ![t] = IF stop THEN "prMark" ELSE "prSibling"]
      /\ UNCHANGED <<sessionVars, queue, multiLock, count, cur, call, block,
                     base, scan, crashed>>

\* Mutant of Marked: the siblings are moved, but not marked.
OnlyBaseMarked(t, s) == IF s = base[t] THEN [isRunning EXCEPT ![s] = TRUE]
                        ELSE isRunning

\* is_running once t has promoted the session s of the ring.
Marked(t, s) == [isRunning EXCEPT ![s] = TRUE]

\* The second loop over the ring: each session is moved to the front of its
\* region and marked running, and its region released.  sib is the session
\* handled last: next_sibling_session of it is read after its region was
\* released.
PromoteMark(t) ==
  LET s == IF step[t] = 0 THEN base[t] ELSE nextSibling[sib[t]]
      r == callee[s]
  IN  /\ pc[t] = "prMark"
      /\ \/ /\ step[t] < locks[t]
            /\ IF ready[t]
               THEN /\ queue' = [queue EXCEPT ![r] = MoveToFirst(@, s)]
                    /\ isRunning' = Marked(t, s)
               ELSE UNCHANGED <<queue, isRunning>>
            /\ regionLock' = IF s = base[t] THEN regionLock
                             ELSE [regionLock EXCEPT ![r] = None]
            /\ sib' = [sib EXCEPT ![t] = s]
            /\ step' = [step EXCEPT ![t] = @ + 1]
            /\ UNCHANGED <<pc, scan>>
         \/ /\ step[t] = locks[t] /\ ready[t]
            /\ sib' = [sib EXCEPT ![t] = base[t]]
            /\ step' = [step EXCEPT ![t] = 1]
            /\ pc' = [pc EXCEPT ![t] = "prWake"]
            /\ UNCHANGED <<queue, isRunning, regionLock, scan>>
         \/ /\ step[t] = locks[t] /\ ~ready[t]
            /\ scan' = [scan EXCEPT ![t] = @ + 1]
            /\ pc' = [pc EXCEPT ![t] = "prScan"]
            /\ UNCHANGED <<queue, isRunning, regionLock, sib, step>>
      /\ UNCHANGED <<allocated, freed, caller, callee, nextSibling, isOpen,
                     isSubmitted, calls, mustWait, logged, applied, multiLock,
                     count, cur, call, block, base, locks, ready, crashed>>

\* The third loop: the processors of the siblings are woken.
PromoteWake(t) ==
  LET s == nextSibling[sib[t]]
  IN  /\ pc[t] = "prWake"
      /\ \/ /\ step[t] < locks[t] /\ regionLock[callee[s]] = None
            /\ sib' = [sib EXCEPT ![t] = s]
            /\ step' = [step EXCEPT ![t] = @ + 1]
            /\ pc' = Woken(pc, callee[s])
         \/ /\ step[t] = locks[t]
            /\ pc' = [pc EXCEPT ![t] = "prDone"]
            /\ UNCHANGED <<sib, step>>
      /\ UNCHANGED <<sessionVars, queue, regionLock, multiLock, count, cur,
                     call, block, base, locks, ready, scan, crashed>>

\* The sessions the next step of the second and third loops dereferences
\* without holding the mutex of their region.
Dereferenced(t) ==
  CASE pc[t] = "prMark" -> {sib[t]}
    [] pc[t] = "prWake" -> {sib[t]} \union
                           (IF step[t] < locks[t] THEN {nextSibling[sib[t]]} ELSE {})
    [] OTHER -> {}

\* Reading a freed session is undefined: the fields may still be there (the
\* actions above), or the process dies (the collector clears freed memory and
\* the null pointer found there is dereferenced).
PromoteFault(t) ==
  /\ Dereferenced(t) \cap freed # {}
  /\ crashed' = TRUE
  /\ UNCHANGED <<sessionVars, queue, regionLock, multiLock, count, pc,
                 localVars>>

PromoteDone(t) ==
  /\ pc[t] = "prDone"
  /\ regionLock' = [regionLock EXCEPT ![t] = None]
  /\ multiLock' = None
  /\ pc' = [pc EXCEPT ![t] = "recheck"]
  /\ base' = [base EXCEPT ![t] = None]
  /\ sib' = [sib EXCEPT ![t] = None]
  /\ locks' = [locks EXCEPT ![t] = 0]
  /\ step' = [step EXCEPT ![t] = 0]
  /\ ready' = [ready EXCEPT ![t] = FALSE]
  /\ scan' = [scan EXCEPT ![t] = 0]
  /\ UNCHANGED <<sessionVars, queue, count, cur, call, block, crashed>>

-----------------------------------------------------------------------------

\* GE_init_scoop, and the main function: the root creation procedure counts as
\* one session while it runs.
Init ==
  /\ allocated = 0 /\ freed = {}
  /\ caller = [s \in Sessions |-> None]
  /\ callee = [s \in Sessions |-> None]
  /\ nextSibling = [s \in Sessions |-> None]
  /\ isOpen = [s \in Sessions |-> FALSE]
  /\ isSubmitted = [s \in Sessions |-> FALSE]
  /\ isRunning = [s \in Sessions |-> FALSE]
  /\ calls = [s \in Sessions |-> << >>]
  /\ mustWait = [s \in Sessions |-> FALSE]
  /\ logged = [s \in Sessions |-> 0]
  /\ applied = [s \in Sessions |-> 0]
  /\ queue = [r \in Regions |-> << >>]
  /\ regionLock = [r \in Regions |-> None]
  /\ multiLock = None
  /\ count = 1
  /\ pc = [r \in Regions |-> IF r = Main THEN "body" ELSE "iterate"]
  /\ cur = [r \in Regions |-> None]
  /\ call = [r \in Regions |-> None]
  /\ block = [r \in Regions |-> << >>]
  /\ base = [r \in Regions |-> None]
  /\ sib = [r \in Regions |-> None]
  /\ locks = [r \in Regions |-> 0]
  /\ step = [r \in Regions |-> 0]
  /\ ready = [r \in Regions |-> FALSE]
  /\ scan = [r \in Regions |-> 0]
  /\ crashed = FALSE

\* The process lives until the main processor returns or a fault kills it.
Alive == pc[Main] # "exited" /\ ~crashed

Client(t) ==
  \/ OpenBlock(t) \/ AddCall(t) \/ CountSession(t) \/ AppendSession(t)
  \/ LockMultisessions(t) \/ LockCallee(t) \/ AppendSibling(t) \/ WakeCallee(t)
  \/ SyncReturn(t) \/ CloseSession(t)

Server(t) ==
  \/ Iterate(t) \/ Recheck(t) \/ Idle(t) \/ Sleep(t) \/ Timeout(t)
  \/ NextCall(t) \/ EndSession(t) \/ EndBody(t) \/ RemoveSession(t)
  \/ DecrementCount(t) \/ WakeMain(t)

Promote(t) ==
  \/ PromoteLock(t) \/ PromoteRegion(t) \/ PromoteScan(t) \/ PromoteSibling(t)
  \/ PromoteMark(t) \/ PromoteWake(t) \/ PromoteFault(t) \/ PromoteDone(t)

Thread(t) == Alive /\ (Client(t) \/ Server(t) \/ Promote(t))

Terminated == ~Alive /\ UNCHANGED vars

Next == (\E t \in Regions : Thread(t)) \/ Terminated

Spec == Init /\ [][Next]_vars

\* The operating system schedules every thread, and a thread that waits for a
\* mutex that is released again and again gets it.
FairSpec == Spec /\ \A t \in Regions : SF_vars(Thread(t))

-----------------------------------------------------------------------------
(***************************************************************************)
(* Properties.                                                             *)
(***************************************************************************)

SessionTypes ==
  /\ allocated \in 0..MaxSessions
  /\ freed \subseteq Sessions
  /\ caller \in [Sessions -> Regions \union {None}]
  /\ callee \in [Sessions -> Regions \union {None}]
  /\ nextSibling \in [Sessions -> Sessions \union {None}]
  /\ \A s \in 1..allocated : /\ caller[s] # None /\ callee[s] # None
                              /\ nextSibling[s] \in 1..allocated
  /\ isOpen \in [Sessions -> BOOLEAN]
  /\ isSubmitted \in [Sessions -> BOOLEAN]
  /\ isRunning \in [Sessions -> BOOLEAN]
  /\ mustWait \in [Sessions -> BOOLEAN]
  /\ calls \in [Sessions -> Seq({"async", "sync"})]
  /\ logged \in [Sessions -> Nat] /\ applied \in [Sessions -> Nat]

SharedTypes ==
  /\ queue \in [Regions -> Seq(1..allocated)]
  /\ regionLock \in [Regions -> Regions \union {None}]
  /\ multiLock \in Regions \union {None}
  /\ count \in Nat
  /\ crashed \in BOOLEAN

ThreadTypes ==
  /\ pc \in [Regions -> PCs]
  /\ cur \in [Regions -> (1..allocated) \union {None}]
  /\ call \in [Regions -> {"async", "sync", None}]
  /\ block \in [Regions -> Seq(1..allocated)]
  /\ base \in [Regions -> (1..allocated) \union {None}]
  /\ sib \in [Regions -> (1..allocated) \union {None}]
  /\ locks \in [Regions -> Nat] /\ step \in [Regions -> Nat]
  /\ scan \in [Regions -> Nat] /\ ready \in [Regions -> BOOLEAN]

\* The variables stay in their domains, and every link between sessions, queues
\* and features leads to an allocated session.
TypeOK == SessionTypes /\ SharedTypes /\ ThreadTypes

\* "Exclusive access to a region guarantees that no intervening features logged
\* by other processors are executed" (m9ea): only the first session of a region
\* can be running, whoever promoted it, and a processor executes that one.
OnlyFirstRuns ==
  \A r \in Regions :
     /\ \A i \in 2..Len(queue[r]) : ~isRunning[queue[r][i]]
     /\ cur[r] # None => queue[r] # << >> /\ Head(queue[r]) = cur[r]

\* The multisession of s: the sessions opened by the same feature, from the
\* first to the last one.
Last(s) == CHOOSE l \in s..allocated : nextSibling[l] <= s
First(s) == nextSibling[Last(s)]
Ring(s) == First(s)..Last(s)

\* "The exclusive access to these multiple regions is granted atomically" (m9ea):
\* while a session of a multisession is executed, no processor of the regions of
\* its unfinished siblings executes anything else.
AtomicAccess ==
  \A t \in Regions : cur[t] # None =>
     \A x \in Ring(cur[t]) \ freed : cur[callee[x]] \in {None, x}

(***************************************************************************)
(* The refinement: a multisession is a request, named by its first session.*)
(* It is made when the last of its sessions is submitted, and granted when *)
(* the first of them is marked running: the regions of the siblings that   *)
(* are not marked yet are still locked by the promoting processor.         *)
(***************************************************************************)
Needed ==
  [q \in Sessions |->
     IF q <= allocated /\ First(q) = q /\ \A x \in Ring(q) : isSubmitted[x]
     THEN {callee[x] : x \in Ring(q) \ freed} ELSE {}]

MarkedNext(u, r) ==
  /\ pc[u] = "prMark" /\ ready[u] /\ step[u] > 0
  /\ regionLock[r] = u /\ \E x \in Ring(base[u]) : callee[x] = r

Holding ==
  [r \in Regions |->
     IF queue[r] # << >> /\ isRunning[Head(queue[r])]
     THEN First(Head(queue[r]))
     ELSE IF \E u \in Regions : MarkedNext(u, r)
          THEN First(base[CHOOSE u \in Regions : MarkedNext(u, r)])
          ELSE None]

Granted ==
  {q \in 1..allocated : First(q) = q /\ \E x \in Ring(q) : isRunning[x]}

Access == INSTANCE ExclusiveAccess
          WITH Requests <- Sessions, need <- Needed, granted <- Granted,
               holder <- Holding

\* The runtime implements exclusive, atomically granted access to regions.
GrantsExclusiveAccess == Access!AccessSpec

\* Promotion finds the siblings of a session that is not running in the queues
\* of their regions: no session of the ring was served or freed alone, so the
\* first_session it reads is never null.
RingIsQueued ==
  \A t \in Regions : pc[t] = "prSibling" =>
     /\ sib[t] \notin freed
     /\ \E i \in 1..Len(queue[callee[sib[t]]]) : queue[callee[sib[t]]][i] = sib[t]

\* The first session is dereferenced unchecked after the promotion
\* (GE_scoop_processor_run_one_iteration): it is there.
FirstSessionRemains ==
  \A t \in Regions : pc[t] = "recheck" => queue[t] # << >>

\* A processor stops only when nothing is left to execute anywhere, and nobody
\* is left who could log a call: the process never exits under a session.
ExitIsFinal ==
  \A t \in Regions : pc[t] = "exited" =>
     /\ freed = 1..allocated
     /\ \A r \in Regions : cur[r] = None /\ block[r] = << >> /\ queue[r] = << >>

\* "Between any two regions, the order of separate feature calls logged by one
\* region is the same as the order of feature applications by the other region"
\* (m9ea), for the sessions in ss: s was opened, filled and closed before x.
InOrder(ss) ==
  \A s, x \in ss : s < x /\ caller[s] = caller[x] /\ callee[s] = callee[x]
                   /\ applied[x] > 0 => applied[s] = logged[s]

\* Features with one separate argument are served in the order of their calls.
SingletonsInOrder == InOrder({s \in 1..allocated : Singleton(s)})

\* All features are served in the order of their calls.  This does not hold: a
\* promotion may move a multisession in front of a singleton of the same client.
CallsInOrder == InOrder(1..allocated)

\* The wakeup is only ever lost around a promotion: a processor that sleeps over
\* sessions has a multisession among them.
SleepsOnlyOverMultisessions ==
  \A r \in Regions : pc[r] = "waiting" /\ queue[r] # << >> =>
     \E i \in 1..Len(queue[r]) : ~Singleton(queue[r][i])

\* No session is used after it was freed.
NoDanglingRead == \A t \in Regions : Dereferenced(t) \cap freed = {}

\* Every submitted session is executed to its end, unless the process dies on
\* a dangling session: however the sessions of one client and the promotions of
\* several processors meet, no processor sleeps for ever over a session nobody
\* will wake it for, and no two rings wait for each other.  (A session is
\* submitted once: it is served for ever.)
SubmittedIsServed ==
  []<>(crashed \/ \A s \in Sessions : isSubmitted[s] => s \in freed)

\* The thread t waits for another one: for a session, for a synchronous call, or
\* for the next call of the open session it executes.
Waits(t) ==
  \/ pc[t] \in {"waiting", "exited"}
  \/ pc[t] = "sync" /\ mustWait[base[t]]
  \/ pc[t] = "exec" /\ calls[cur[t]] = << >> /\ isOpen[cur[t]]

\* "This ensures that no deadlock can occur when two regions want to gain access
\* to the same regions" (m9ea): while the process lives, somebody has something
\* to do (GE_scoop_processor_run_one_iteration looks at the first session only
\* after a promotion, and sleeps over the others).
NoDeadlock == Alive => \E t \in Regions : ~Waits(t)

\* The main processor returns, unless the process dies on a dangling session: the
\* count comes back to zero, and the main processor is told.  (Both are for good.)
ProcessEnds == []<>(pc[Main] = "exited" \/ crashed)
=============================================================================
