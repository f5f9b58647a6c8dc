---------------------------- MODULE ScoopCalls ----------------------------
(***************************************************************************)
(* The calls of SCOOP sessions (ge_scoop.c): how clients log asynchronous  *)
(* and synchronous calls in their sessions on one supplier region, how the *)
(* processor of this region executes them, how the two wait for each other *)
(* on the condition variables of a session and of a synchronization, and   *)
(* what becomes of an exception in a call (rules M9AS and M9SE of the      *)
(* validation suite).                                                      *)
(*                                                                         *)
(* The sessions are features with one separate argument; how the supplier  *)
(* chooses among sessions, and the global session count, are the subject   *)
(* of ScoopSessions.  A section under the mutex of a session, of a         *)
(* synchronization or of the region is one step: none blocks on another.   *)
(***************************************************************************)
EXTENDS Naturals, Sequences, FiniteSets

CONSTANTS
  Clients,        \* the regions that call the supplier
  MaxSessions,    \* bound: how many sessions are ever opened
  MaxCalls,       \* bound: how many calls a client logs in one session
  None            \* the null pointer

ASSUME BoundsAssumption == MaxSessions \in Nat /\ MaxCalls \in Nat
ASSUME NoneAssumption == None \notin Clients /\ None \notin Nat

Sessions == 1..MaxSessions

\* "async" and "sync" calls execute a feature; a "null" call is the one of
\* GE_scoop_session_add_sync_call: synchronous, with no feature to execute.
Kinds == {"async", "sync", "null"}
Synchronous(k) == k # "async"

VARIABLES
  \* sessions
  opened,      \* number of sessions opened so far
  freed,       \* the sessions given back
  opener,      \* the client of a session
  isOpen,      \* is_open
  isSubmitted, \* is_submitted
  calls,       \* first_call..last_call
  logged,      \* history: how many calls were logged in a session
  \* the supplier region and its processor
  queue,       \* first_session..last_session
  isDirty,     \* is_dirty
  propagate,   \* progagate_exception
  isImpersonationAllowed, \* is_impersonation_allowed
  ppc,         \* where the processor is
  cur,         \* the session it executes
  pcall,       \* the call it executes
  \* clients
  cpc,         \* where a client is
  ses,         \* its session
  sent,        \* the synchronous call it waits for
  wait,        \* the `wait' flag of the synchronization of this call
  live,        \* this synchronization is allocated
  \* histories of exceptions
  failed,      \* an asynchronous call of the session failed, unreported
  raised,      \* the synchronous call of the client failed, unreported
  \* histories of waits
  early,       \* the sessions with a synchronous call that returned too early
  undefined    \* the program has run into undefined behaviour

sessionVars == <<opened, freed, opener, isOpen, isSubmitted, calls, logged>>
processorVars == <<queue, isDirty, propagate, ppc, cur, pcall>>
clientVars == <<cpc, ses, sent, wait, live>>
vars == <<sessionVars, processorVars, clientVars, isImpersonationAllowed, failed,
          raised, early, undefined>>

ClientPCs == {"out", "in", "submit", "wait", "parked", "woken", "check",
              "body", "impersonate", "impersonating", "done"}
ProcessorPCs == {"idle", "session", "parked", "execute", "run", "signal",
                 "remove"}

-----------------------------------------------------------------------------

\* Mutant of WakeProcessor: the broadcast is forgotten.
WakeNobody(s) == UNCHANGED ppc

\* A broadcast on the condition variable of the session s: its processor
\* wakes up if it waits for calls of s.
WakeProcessor(s) ==
  ppc' = IF ppc = "parked" /\ cur = s THEN "session" ELSE ppc

\* GE_scoop_session_open
OpenSession(c) ==
  /\ cpc[c] = "out" /\ opened < MaxSessions
  /\ opened' = opened + 1
  /\ opener' = [opener EXCEPT ![opened + 1] = c]
  /\ isOpen' = [isOpen EXCEPT ![opened + 1] = 1]
  /\ ses' = [ses EXCEPT ![c] = opened + 1]
  /\ cpc' = [cpc EXCEPT ![c] = "in"]
  /\ UNCHANGED <<freed, isSubmitted, calls, logged, processorVars, sent, wait,
                 live, failed, raised>>

\* The client never uses a separate object again.
Leave(c) ==
  /\ cpc[c] = "out"
  /\ cpc' = [cpc EXCEPT ![c] = "done"]
  /\ UNCHANGED <<sessionVars, processorVars, ses, sent, wait, live, failed,
                 raised>>

\* The first half of GE_scoop_session_add_call, under the mutex of the session:
\* the call is appended and the processor woken if the session was submitted.
\* GE_new_scoop_call gave a synchronous call its synchronization.
AddCall(c, k) ==
  LET s == ses[c]
  IN  /\ calls' = [calls EXCEPT ![s] = Append(@, k)]
      /\ logged' = [logged EXCEPT ![s] = @ + 1]
      /\ cpc' = [cpc EXCEPT ![c] = IF ~isSubmitted[s] THEN "submit"
                                   ELSE IF Synchronous(k) THEN "wait" ELSE "in"]
      /\ sent' = [sent EXCEPT ![c] = k]
      /\ wait' = [wait EXCEPT ![c] = Synchronous(k)]
      /\ live' = [live EXCEPT ![c] = Synchronous(k)]
      /\ IF isSubmitted[s] THEN WakeProcessor(s) ELSE UNCHANGED ppc
      /\ UNCHANGED <<opened, freed, opener, isOpen, isSubmitted, queue, isDirty,
                     propagate, cur, pcall, ses, failed, raised>>

\* A separate call: asynchronous, or synchronous after a null call.  Only the
\* first call can be synchronous at once: a creation procedure.
LogCall(c) ==
  /\ cpc[c] = "in" /\ logged[ses[c]] < MaxCalls
  /\ \E k \in Kinds : (k = "sync" => logged[ses[c]] = 0) /\ AddCall(c, k)

\* GE_add_scoop_session, under the mutex of the region: queue the session and
\* wake the processor.
SubmitSession(c) ==
  LET s == ses[c]
  IN  /\ cpc[c] = "submit"
      /\ queue' = Append(queue, s)
      /\ isSubmitted' = [isSubmitted EXCEPT ![s] = TRUE]
      /\ cpc' = [cpc EXCEPT ![c] = IF Synchronous(sent[c]) THEN "wait" ELSE "in"]
      /\ UNCHANGED <<opened, freed, opener, isOpen, calls, logged, isDirty,
                     propagate, ppc, cur, pcall, ses, sent, wait, live, failed,
                     raised>>

\* Mutant of AwaitCall: the client goes on at once.
AwaitNothing(c) ==
  /\ cpc[c] = "wait"
  /\ live' = [live EXCEPT ![c] = FALSE]
  /\ cpc' = [cpc EXCEPT ![c] = "check"]
  /\ UNCHANGED <<sessionVars, processorVars, ses, sent, wait, failed, raised>>

\* The second half of GE_scoop_session_add_call: wait for the synchronization
\* if its flag is set, free it otherwise.
AwaitCall(c) ==
  /\ cpc[c] = "wait"
  /\ IF wait[c]
     THEN cpc' = [cpc EXCEPT ![c] = "parked"] /\ UNCHANGED live
     ELSE /\ live' = [live EXCEPT ![c] = FALSE]
          /\ cpc' = [cpc EXCEPT ![c] = "check"]
  /\ UNCHANGED <<sessionVars, processorVars, ses, sent, wait, failed, raised>>

\* The wait of a client ends, as a wait on a condition variable may, although
\* nobody signalled it.
SpuriousClientWakeup(c) ==
  /\ cpc[c] = "parked" /\ ~undefined
  /\ cpc' = [cpc EXCEPT ![c] = "woken"]
  /\ UNCHANGED <<sessionVars, processorVars, isImpersonationAllowed, ses, sent,
                 wait, live, failed, raised, early, undefined>>

\* The client is awake and has the mutex of the synchronization again.  The
\* wait is not in a loop: it frees the synchronization without a look at the
\* flag, and its call returned early if the processor did not clear it.
CallDone(c) ==
  /\ cpc[c] = "woken"
  /\ live' = [live EXCEPT ![c] = FALSE]
  /\ early' = IF wait[c] THEN early \union {ses[c]} ELSE early
  /\ cpc' = [cpc EXCEPT ![c] = "check"]
  /\ UNCHANGED <<sessionVars, processorVars, ses, sent, wait, failed, raised>>

\* Who executes the call that follows a null call.
CallProper == IF isImpersonationAllowed THEN "impersonate" ELSE "body"

\* The end of GE_scoop_session_add_call for a synchronous call: an exception of
\* the call, or of an earlier asynchronous one, is raised in the client and the
\* region is clean again.  After a null call comes the call proper.
CheckOutcome(c) ==
  LET s == ses[c]
  IN  /\ cpc[c] = "check"
      /\ \/ /\ propagate
            /\ propagate' = FALSE
            /\ raised' = [raised EXCEPT ![c] = FALSE]
            /\ cpc' = [cpc EXCEPT ![c] = "in"]
            /\ UNCHANGED <<isDirty, failed>>
         \/ /\ ~propagate /\ isDirty
            /\ isDirty' = FALSE
            /\ failed' = [failed EXCEPT ![s] = FALSE]
            /\ cpc' = [cpc EXCEPT ![c] = "in"]
            /\ UNCHANGED <<propagate, raised>>
         \/ /\ ~propagate /\ ~isDirty
            /\ cpc' = [cpc EXCEPT ![c] =
                 IF sent[c] = "sync" THEN "in" ELSE CallProper]
            /\ UNCHANGED <<propagate, isDirty, failed, raised>>
      /\ UNCHANGED <<sessionVars, queue, ppc, cur, pcall, ses, sent, wait, live>>

\* The call proper, executed by the processor of the supplier ...
LogBody(c) == cpc[c] = "body" /\ AddCall(c, "sync")

\* ... or by the client itself, which impersonates the supplier and has passed
\* its locks to it (GE_scoop_region_pass_locks) ...
BeginImpersonation(c) ==
  /\ cpc[c] = "impersonate"
  /\ isOpen' = [isOpen EXCEPT ![ses[c]] = @ + 1]
  /\ cpc' = [cpc EXCEPT ![c] = "impersonating"]
  /\ UNCHANGED <<opened, freed, opener, isSubmitted, calls, logged,
                 processorVars, ses, sent, wait, live, failed, raised>>

\* ... until the feature returns or fails: an exception is the client's own.
EndImpersonation(c) ==
  /\ cpc[c] = "impersonating"
  /\ isOpen' = [isOpen EXCEPT ![ses[c]] = @ - 1]
  /\ cpc' = [cpc EXCEPT ![c] = "in"]
  /\ UNCHANGED <<opened, freed, opener, isSubmitted, calls, logged,
                 processorVars, ses, sent, wait, live, failed, raised>>

\* Mutant of FreedAtClose: a session that was submitted is freed too.
FreedOnLastClose(s) == isOpen[s] = 1

\* The client gives back a session that the processor will never see.
FreedAtClose(s) == isOpen[s] = 1 /\ ~isSubmitted[s]

\* GE_scoop_session_close
CloseSession(c) ==
  LET s == ses[c]
  IN  /\ cpc[c] = "in"
      /\ isOpen' = [isOpen EXCEPT ![s] = @ - 1]
      /\ freed' = IF FreedAtClose(s) THEN freed \union {s} ELSE freed
      /\ IF isOpen[s] = 1 /\ isSubmitted[s] THEN WakeProcessor(s) ELSE UNCHANGED ppc
      /\ ses' = [ses EXCEPT ![c] = None]
      /\ cpc' = [cpc EXCEPT ![c] = "out"]
      /\ UNCHANGED <<opened, opener, isSubmitted, calls, logged, queue, isDirty,
                     propagate, cur, pcall, sent, wait, live, failed, raised>>

-----------------------------------------------------------------------------

\* GE_scoop_processor_run_one_iteration: serve the first session.
TakeSession ==
  /\ ppc = "idle" /\ queue # << >>
  /\ cur' = Head(queue)
  /\ ppc' = "session"
  /\ UNCHANGED <<sessionVars, queue, isDirty, propagate, pcall, clientVars,
                 failed, raised>>

\* No call is left and none can come.
SessionOver == calls[cur] = << >> /\ isOpen[cur] = 0

\* Mutant of CleanRegion: is_dirty survives the session.
LeaveRegionDirty == UNCHANGED isDirty /\ failed' = [failed EXCEPT ![cur] = FALSE]

\* The client that closed the session will not learn of its exceptions.
CleanRegion == isDirty' = FALSE /\ failed' = [failed EXCEPT ![cur] = FALSE]

\* GE_scoop_session_execute, under the mutex of the session: take a call, wait
\* for one, or end; at the end of a session the region is clean.
NextCall ==
  /\ ppc = "session"
  /\ \/ /\ calls[cur] # << >>
        /\ pcall' = Head(calls[cur])
        /\ calls' = [calls EXCEPT ![cur] = Tail(@)]
        /\ ppc' = "execute"
        /\ UNCHANGED <<isDirty, failed>>
     \/ /\ calls[cur] = << >> /\ isOpen[cur] > 0
        /\ ppc' = "parked"
        /\ UNCHANGED <<isDirty, failed, calls, pcall>>
     \/ /\ SessionOver
        /\ CleanRegion
        /\ ppc' = "remove"
        /\ UNCHANGED <<calls, pcall>>
  /\ UNCHANGED <<opened, freed, opener, isOpen, isSubmitted, logged, queue,
                 propagate, cur, clientVars, raised>>

\* A wait on the condition variable of the session that ends by itself only
\* makes the loop look again.
SpuriousProcessorWakeup ==
  /\ ppc = "parked" /\ ~undefined
  /\ ppc' = "session"
  /\ UNCHANGED <<sessionVars, queue, isDirty, propagate, isImpersonationAllowed,
                 cur, pcall, clientVars, failed, raised, early, undefined>>

\* Mutant of Skipped: calls are executed although the region is dirty.
OnlyNullSkipped == pcall = "null"

\* The calls GE_scoop_call_execute does not execute.
Skipped == pcall = "null" \/ isDirty

\* The client of the synchronous call that the processor executes still waits
\* for it, through the synchronization of this call: it has logged none since.
CallerWaits ==
  LET c == opener[cur]
  IN  ses[c] = cur /\ calls[cur] = << >> /\ live[c]

\* The lists of locked sessions and the synchronization belong to a client that
\* waits.
MayUseCaller(k) == Synchronous(k) => CallerWaits

\* GE_scoop_call_execute: the call of a dirty region is ignored, a null call
\* has nothing to execute; a synchronous call passes the locks of its caller,
\* of which its own session is one.
BeginCall ==
  /\ ppc = "execute" /\ (Skipped \/ MayUseCaller(pcall))
  /\ IF Skipped
     THEN ppc' = "signal" /\ UNCHANGED isOpen
     ELSE /\ ppc' = "run"
          /\ isOpen' = [isOpen EXCEPT ![cur] = IF pcall = "sync" THEN @ + 1 ELSE @]
  /\ UNCHANGED <<opened, freed, opener, isSubmitted, calls, logged, queue,
                 isDirty, propagate, cur, pcall, clientVars, failed, raised>>

\* The feature returns, and the locks are released.
EndCall ==
  /\ ppc = "run" /\ MayUseCaller(pcall)
  /\ isOpen' = [isOpen EXCEPT ![cur] = IF pcall = "sync" THEN @ - 1 ELSE @]
  /\ ppc' = "signal"
  /\ UNCHANGED <<opened, freed, opener, isSubmitted, calls, logged, queue,
                 isDirty, propagate, cur, pcall, clientVars, failed, raised>>

\* Mutant of FailSynchronous: the exception is not propagated.
FailSilently ==
  /\ isOpen' = [isOpen EXCEPT ![cur] = @ - 1]
  /\ raised' = [raised EXCEPT ![opener[cur]] = TRUE]
  /\ ppc' = "signal"
  /\ UNCHANGED <<propagate, isDirty, failed>>

\* The exception of a synchronous call is for its client.
FailSynchronous ==
  /\ isOpen' = [isOpen EXCEPT ![cur] = @ - 1]
  /\ propagate' = TRUE
  /\ raised' = [raised EXCEPT ![opener[cur]] = TRUE]
  /\ ppc' = "signal"
  /\ UNCHANGED <<isDirty, failed>>

\* The feature fails: the exception is for the client of a synchronous call,
\* the one of an asynchronous call makes the region dirty.
FailCall ==
  /\ ppc = "run" /\ MayUseCaller(pcall)
  /\ IF pcall = "sync"
     THEN FailSynchronous
     ELSE /\ isDirty' = TRUE
          /\ failed' = [failed EXCEPT ![cur] = TRUE]
          /\ ppc' = "session"
          /\ UNCHANGED <<isOpen, propagate, raised>>
  /\ UNCHANGED <<opened, freed, opener, isSubmitted, calls, logged, queue, cur,
                 pcall, clientVars>>

\* Mutant of SignalCaller: the failed call falls through to the end of
\* GE_scoop_call_execute and signals again.
SignalTwice ==
  LET c == opener[cur]
  IN  /\ ppc = "signal" /\ MayUseCaller(pcall)
      /\ IF Synchronous(pcall)
         THEN /\ wait' = [wait EXCEPT ![c] = FALSE]
              /\ cpc' = [cpc EXCEPT ![c] = IF @ = "parked" THEN "woken" ELSE @]
         ELSE UNCHANGED <<wait, cpc>>
      /\ ppc' = IF propagate /\ wait[c] THEN "signal" ELSE "session"
      /\ UNCHANGED <<sessionVars, queue, isDirty, propagate, cur, pcall, ses,
                     sent, live, failed, raised>>

\* The end of GE_scoop_call_execute: the client of a synchronous call is woken.
SignalCaller ==
  LET c == opener[cur]
  IN  /\ ppc = "signal" /\ MayUseCaller(pcall)
      /\ IF Synchronous(pcall)
         THEN /\ wait' = [wait EXCEPT ![c] = FALSE]
              /\ cpc' = [cpc EXCEPT ![c] = IF @ = "parked" THEN "woken" ELSE @]
         ELSE UNCHANGED <<wait, cpc>>
      /\ ppc' = "session"
      /\ UNCHANGED <<sessionVars, queue, isDirty, propagate, cur, pcall, ses,
                     sent, live, failed, raised>>

\* What the program does is undefined: for a client that does not wait any more
\* the processor passes or releases locks (GE_scoop_region_pass_locks and
\* GE_scoop_region_release_locks are for "a thread synchronized with" the
\* caller) or signals a synchronization that was freed; or it executes a
\* feature while a client executes another in its place.
RunIntoUndefined ==
  /\ \/ ppc = "execute" /\ ~Skipped /\ ~MayUseCaller(pcall)
     \/ ppc \in {"run", "signal"} /\ ~MayUseCaller(pcall)
     \/ ppc = "run" /\ \E c \in Clients : cpc[c] = "impersonating"
  /\ undefined' = TRUE
  /\ UNCHANGED <<sessionVars, processorVars, clientVars, isImpersonationAllowed,
                 failed, raised, early>>

\* GE_remove_scoop_session
RemoveSession ==
  /\ ppc = "remove"
  /\ queue' = Tail(queue)
  /\ freed' = freed \union {cur}
  /\ cur' = None
  /\ pcall' = None
  /\ ppc' = "idle"
  /\ UNCHANGED <<opened, opener, isOpen, isSubmitted, calls, logged, isDirty,
                 propagate, clientVars, failed, raised>>

\* GE_scoop_region_set_impersonation_allowed, by a feature of the supplier,
\* whoever executes it.
SetImpersonationAllowed ==
  /\ ppc = "run" \/ \E c \in Clients : cpc[c] = "impersonating"
  /\ ~undefined
  /\ isImpersonationAllowed' = ~isImpersonationAllowed
  /\ UNCHANGED <<sessionVars, processorVars, clientVars, failed, raised, early,
                 undefined>>

-----------------------------------------------------------------------------

\* GE_new_scoop_region: the supplier has no sessions and allows impersonation.
Init ==
  /\ opened = 0 /\ freed = {}
  /\ opener = [s \in Sessions |-> None]
  /\ isOpen = [s \in Sessions |-> 0]
  /\ isSubmitted = [s \in Sessions |-> FALSE]
  /\ calls = [s \in Sessions |-> << >>]
  /\ logged = [s \in Sessions |-> 0]
  /\ queue = << >> /\ isDirty = FALSE /\ propagate = FALSE
  /\ isImpersonationAllowed = TRUE
  /\ ppc = "idle" /\ cur = None /\ pcall = None
  /\ cpc = [c \in Clients |-> "out"]
  /\ ses = [c \in Clients |-> None]
  /\ sent = [c \in Clients |-> None]
  /\ wait = [c \in Clients |-> FALSE]
  /\ live = [c \in Clients |-> FALSE]
  /\ failed = [s \in Sessions |-> FALSE]
  /\ raised = [c \in Clients |-> FALSE]
  /\ early = {} /\ undefined = FALSE

Client(c) ==
  /\ ~undefined
  /\ \/ CallDone(c)
     \/ /\ \/ OpenSession(c) \/ Leave(c) \/ LogCall(c) \/ SubmitSession(c)
           \/ AwaitCall(c) \/ CheckOutcome(c) \/ LogBody(c)
           \/ BeginImpersonation(c) \/ EndImpersonation(c) \/ CloseSession(c)
        /\ UNCHANGED early
  /\ UNCHANGED <<isImpersonationAllowed, undefined>>

Processor ==
  /\ ~undefined
  /\ \/ RunIntoUndefined
     \/ /\ \/ TakeSession \/ NextCall \/ BeginCall \/ EndCall \/ FailCall
           \/ SignalCaller \/ RemoveSession
        /\ UNCHANGED <<isImpersonationAllowed, early, undefined>>

\* Everybody is done, the processor waits for sessions that do not come; or the
\* rest is not defined.
Finished ==
  /\ undefined \/ /\ \A c \in Clients : cpc[c] = "done"
                  /\ ppc = "idle" /\ queue = << >>
  /\ UNCHANGED vars

Next ==
  \/ \E c \in Clients : Client(c) \/ SpuriousClientWakeup(c)
  \/ Processor \/ SpuriousProcessorWakeup \/ SetImpersonationAllowed
  \/ Finished

Spec == Init /\ [][Next]_vars

\* Every thread is scheduled, and every feature ends; no wait need end by itself.
FairSpec == Spec /\ WF_vars(Processor) /\ \A c \in Clients : WF_vars(Client(c))

-----------------------------------------------------------------------------

\* The variables stay in their domains.
TypeOK ==
  /\ opened \in 0..MaxSessions /\ freed \subseteq Sessions
  /\ opener \in [Sessions -> Clients \union {None}]
  /\ isOpen \in [Sessions -> 0..3]
  /\ isSubmitted \in [Sessions -> BOOLEAN]
  /\ calls \in [Sessions -> Seq(Kinds)]
  /\ logged \in [Sessions -> Nat]
  /\ queue \in Seq(Sessions)
  /\ isDirty \in BOOLEAN /\ propagate \in BOOLEAN
  /\ isImpersonationAllowed \in BOOLEAN
  /\ ppc \in ProcessorPCs
  /\ cur \in Sessions \union {None} /\ pcall \in Kinds \union {None}
  /\ cpc \in [Clients -> ClientPCs]
  /\ ses \in [Clients -> Sessions \union {None}]
  /\ sent \in [Clients -> Kinds \union {None}]
  /\ wait \in [Clients -> BOOLEAN] /\ live \in [Clients -> BOOLEAN]
  /\ failed \in [Sessions -> BOOLEAN] /\ raised \in [Clients -> BOOLEAN]
  /\ early \subseteq Sessions /\ undefined \in BOOLEAN

\* The processor has executed all that the client c logged, and nothing is under
\* way.
Quiet(c) == calls[ses[c]] = << >> /\ cur = ses[c] /\ ppc \in {"session", "parked"}

\* The places of a client whose synchronous call was executed.
AfterCall == {"check", "body", "impersonate", "impersonating"}

\* "The caller has to wait for the call to be executed" (ge_scoop.h).  It does
\* not: a wait that ends by itself is not taken up again.
CallsAreAwaited == \A c \in Clients : cpc[c] \in AfterCall => Quiet(c)

\* A client goes on after a synchronous call, or executes it in place of the
\* processor, when the processor is done with its session: unless the wait for
\* a call of this very session ended by itself, whatever the others meet.  And
\* the program stays defined as long as no wait did.
SynchronousCallsWait ==
  /\ \A c \in Clients : cpc[c] \in AfterCall /\ ses[c] \notin early => Quiet(c)
  /\ undefined => early # {}

\* The rules 1, 2, 4 and 6 of M9SE: when a client looks at the outcome of a
\* synchronous call, the flags of the region tell about the exceptions of its
\* own session, no more and no less.  As long as no call returned too early: one
\* that does may take the exception of another client.
ExceptionsReachTheirClient ==
  early = {} => \A c \in Clients : cpc[c] = "check" =>
                   /\ propagate = raised[c]
                   /\ isDirty = failed[ses[c]]

\* The region is dirty only within the session whose call failed: a client never
\* inherits the exception of another.
CleanBetweenSessions ==
  isDirty \/ propagate => cur # None /\ cur \notin freed

\* The rule 3 of M9SE: after a failed asynchronous call nothing of the session
\* is executed until the client knows; as long as no call returned too early.
DirtyCallsIgnored == early = {} /\ ppc = "run" => ~failed[cur]

\* The processor wakes its caller through a synchronization the caller has not
\* given back, and only clients that wait are woken: unless the wait for a call
\* of this very session ended by itself.
SignalIsExpected ==
  ppc = "signal" /\ Synchronous(pcall) /\ cur \notin early =>
     CallerWaits /\ wait[opener[cur]]

\* A session is freed when its client left it and all its calls were taken,
\* whichever waits ended by themselves.
FreedIsFinished ==
  /\ \A c \in Clients : ses[c] \notin freed
  /\ \A s \in freed : calls[s] = << >> /\ isOpen[s] = 0

\* Every session is executed to its end and every client can leave: no wakeup
\* on the condition variables of sessions and synchronizations is lost, and
\* nobody waits for ever.  A client has a bounded number of calls to log.
EverybodyFinishes ==
  <>(undefined \/ /\ \A c \in Clients : cpc[c] = "done"
                  /\ \A s \in Sessions : isSubmitted[s] => s \in freed)
=============================================================================
