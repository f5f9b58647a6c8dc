------------------------ MODULE ScoopPreconditions ------------------------
(***************************************************************************)
(* Wait conditions (ge_scoop.c and the code gec emits for a feature with   *)
(* separate arguments and a precondition): a client locks the regions of   *)
(* the arguments, evaluates the precondition and, if it is false, closes   *)
(* the sessions again, registers with the regions, waits until one of      *)
(* their processors has removed a session, and starts over.  If it held    *)
(* all these regions already before the feature was called, nobody else    *)
(* can make the precondition true, and it is violated.                     *)
(*                                                                         *)
(* Exclusive access to regions is granted atomically, in any order: how    *)
(* is the subject of ScoopSessions.  The state of a supplier is a bit; a   *)
(* feature wants it to have a value, and flips it.                         *)
(***************************************************************************)
EXTENDS SessionQueues, FiniteSets

CONSTANTS
  Regions,    \* the regions of the separate arguments
  Clients,    \* the client processors
  Args,       \* Args[c]: the regions of the arguments its precondition uses
  Outer,      \* Outer[c]: those that an enclosing feature of the client has locked
  Wanted,     \* Wanted[c]: the state of the arguments that its precondition asks for
  Rounds,     \* bound: how many times the client calls its feature
  None        \* the null pointer

ASSUME ArgsAssumption ==
  \A c \in Clients : Outer[c] \subseteq Args[c] /\ Args[c] \subseteq Regions
ASSUME DataAssumption ==
  \A c \in Clients : Wanted[c] \in 0..1 /\ Rounds[c] \in Nat
ASSUME NoneAssumption == None \notin Clients

VARIABLES
  state,      \* the state of the supplier objects of a region
  holder,     \* the client whose session the processor of the region executes
  stage,      \* what the processor of the region does
  silent,     \* no_wait_condition_notification of the session
  prec,       \* first_precondition..last_precondition: who waits for activity
  pc,         \* where the client is
  left,       \* the arguments that its loop over the arguments still has to visit
  round,      \* history: how many times it called its feature
  ended,      \* history: how many sessions ended otherwise than by a wait condition
  notified    \* history: how many waits of a client were ended by a notification

vars == <<state, holder, stage, silent, prec, pc, left, round, ended, notified>>

Stages == {"idle", "serve", "closed", "notify"}
PCs == {"outer", "lock", "evaluate", "body", "release", "register", "wait",
        "unregister", "end", "endOuter", "done"}

\* Mutant of Fresh: the locks of enclosing features are taken for new ones.
FreshOrNot(c) == Args[c]

\* The arguments whose sessions have is_open = 1: they are freshly locked.
Fresh(c) == Args[c] \ Outer[c]

Satisfied(c) == \A r \in Args[c] : state[r] = Wanted[c]

\* The processors of the regions in rs start the sessions of the client c.
Grant(c, rs) ==
  /\ \A r \in rs : stage[r] = "idle"
  /\ holder' = [r \in Regions |-> IF r \in rs THEN c ELSE holder[r]]
  /\ stage' = [r \in Regions |-> IF r \in rs THEN "serve" ELSE stage[r]]

-----------------------------------------------------------------------------
(***************************************************************************)
(* The client.                                                             *)
(***************************************************************************)

\* An enclosing feature opens its sessions.
LockOuter(c) ==
  /\ pc[c] = "outer" /\ round[c] < Rounds[c]
  /\ Grant(c, Outer[c])
  /\ round' = [round EXCEPT ![c] = @ + 1]
  /\ pc' = [pc EXCEPT ![c] = "lock"]
  /\ UNCHANGED <<state, silent, prec, left, ended, notified>>

Stop(c) ==
  /\ pc[c] = "outer" /\ round[c] = Rounds[c]
  /\ pc' = [pc EXCEPT ![c] = "done"]
  /\ UNCHANGED <<state, holder, stage, silent, prec, left, round, ended, notified>>

\* The feature opens the sessions of its arguments.
LockArguments(c) ==
  /\ pc[c] = "lock"
  /\ Grant(c, Args[c] \ Outer[c])
  /\ pc' = [pc EXCEPT ![c] = "evaluate"]
  /\ UNCHANGED <<state, silent, prec, left, round, ended, notified>>

\* The precondition is evaluated: if it is false, it is a wait condition when a
\* freshly locked argument was used, and violated otherwise; the exception ends
\* the features.
Evaluate(c) ==
  /\ pc[c] = "evaluate"
  /\ \/ /\ Satisfied(c)
        /\ pc' = [pc EXCEPT ![c] = "body"]
        /\ UNCHANGED left
     \/ /\ ~Satisfied(c) /\ Fresh(c) # {}
        /\ pc' = [pc EXCEPT ![c] = "release"]
        /\ left' = [left EXCEPT ![c] = Args[c] \ Outer[c]]
     \/ /\ ~Satisfied(c) /\ Fresh(c) = {}
        /\ pc' = [pc EXCEPT ![c] = "endOuter"]
        /\ left' = [left EXCEPT ![c] = Outer[c]]
  /\ UNCHANGED <<state, holder, stage, silent, prec, round, ended, notified>>

\* The feature is executed.
Body(c) ==
  /\ pc[c] = "body"
  /\ state' = [r \in Regions |-> IF r \in Args[c] THEN 1 - state[r] ELSE state[r]]
  /\ pc' = [pc EXCEPT ![c] = "end"]
  /\ left' = [left EXCEPT ![c] = Args[c] \ Outer[c]]
  /\ UNCHANGED <<holder, stage, silent, prec, round, ended, notified>>

\* Mutant of Silent: the flag is not passed on.
NeverSilent(c) == FALSE

\* a_no_wait_condition_notification: the sessions of a failed wait condition.
Silent(c) == pc[c] = "release"

\* GE_scoop_session_close of the sessions of the arguments.
CloseSession(c, r) ==
  /\ pc[c] \in {"release", "end", "endOuter"} /\ r \in left[c]
  /\ stage' = [stage EXCEPT ![r] = "closed"]
  /\ silent' = [silent EXCEPT ![r] = Silent(c)]
  /\ left' = [left EXCEPT ![c] = @ \ {r}]
  /\ ended' = IF pc[c] = "release" THEN ended ELSE ended + 1
  /\ UNCHANGED <<state, holder, prec, pc, round, notified>>

\* All are closed.
AllClosed(c) ==
  /\ left[c] = {}
  /\ \/ /\ pc[c] = "release"
        /\ pc' = [pc EXCEPT ![c] = "register"]
        /\ left' = [left EXCEPT ![c] = Fresh(c)]
     \/ /\ pc[c] = "end"
        /\ pc' = [pc EXCEPT ![c] = "endOuter"]
        /\ left' = [left EXCEPT ![c] = Outer[c]]
     \/ /\ pc[c] = "endOuter"
        /\ pc' = [pc EXCEPT ![c] = "outer"]
        /\ UNCHANGED left
  /\ UNCHANGED <<state, holder, stage, silent, prec, round, ended, notified>>

\* GE_scoop_region_add_precondition
AddPrecondition(c, r) ==
  /\ pc[c] = "register" /\ r \in left[c]
  /\ prec' = [prec EXCEPT ![r] = Append(@, c)]
  /\ left' = [left EXCEPT ![c] = @ \ {r}]
  /\ UNCHANGED <<state, holder, stage, silent, pc, round, ended, notified>>

\* GE_scoop_region_wait_preconditions: the wait starts.
StartWait(c) ==
  /\ pc[c] = "register" /\ left[c] = {}
  /\ pc' = [pc EXCEPT ![c] = "wait"]
  /\ UNCHANGED <<state, holder, stage, silent, prec, left, round, ended, notified>>

\* Mutant of Timeout: the wait has no timeout.
NoTimeout(c) == FALSE /\ UNCHANGED vars

\* The wait ends after one second, "to check that no event was missed".
Timeout(c) ==
  /\ pc[c] = "wait"
  /\ pc' = [pc EXCEPT ![c] = "unregister"]
  /\ left' = [left EXCEPT ![c] = Fresh(c)]
  /\ UNCHANGED <<state, holder, stage, silent, prec, round, ended, notified>>

\* Mutant of Unregistered: only the first precondition can be removed.
UnregisteredFirst(q, c) == IF q # << >> /\ Head(q) = c THEN Tail(q) ELSE q

\* The list q without the precondition of the client c: the first one that
\* matches is unlinked, if there is one.
Unregistered(q, c) == IF \E i \in 1..Len(q) : q[i] = c THEN Without(q, c) ELSE q

\* GE_scoop_region_remove_precondition
RemovePrecondition(c, r) ==
  /\ pc[c] = "unregister" /\ r \in left[c]
  /\ prec' = [prec EXCEPT ![r] = Unregistered(@, c)]
  /\ left' = [left EXCEPT ![c] = @ \ {r}]
  /\ UNCHANGED <<state, holder, stage, silent, pc, round, ended, notified>>

\* Mutant of AfterWait: the condition is not checked again.
NoRetry == "body"

\* The sessions are opened and the precondition is evaluated again.
AfterWait == "lock"

Retry(c) ==
  /\ pc[c] = "unregister" /\ left[c] = {}
  /\ pc' = [pc EXCEPT ![c] = AfterWait]
  /\ UNCHANGED <<state, holder, stage, silent, prec, left, round, ended, notified>>

-----------------------------------------------------------------------------
(***************************************************************************)
(* The processor of the region r: GE_remove_scoop_session.                 *)
(***************************************************************************)

\* The session is removed; whether anybody waits is read under the mutex that is
\* released before the notification.
RemoveSession(r) ==
  /\ stage[r] = "closed"
  /\ holder' = [holder EXCEPT ![r] = None]
  /\ stage' = [stage EXCEPT ![r] =
                 IF prec[r] # << >> /\ ~silent[r] THEN "notify" ELSE "idle"]
  /\ silent' = [silent EXCEPT ![r] = FALSE]
  /\ UNCHANGED <<state, prec, pc, left, round, ended, notified>>

\* GE_scoop_region_notify_preconditions: of those registered, the ones that wait
\* are woken.
NotifyPreconditions(r) ==
  LET woken == {c \in Clients : pc[c] = "wait" /\ \E i \in 1..Len(prec[r]) : prec[r][i] = c}
  IN  /\ stage[r] = "notify"
      /\ stage' = [stage EXCEPT ![r] = "idle"]
      /\ pc' = [c \in Clients |-> IF c \in woken THEN "unregister" ELSE pc[c]]
      /\ left' = [c \in Clients |-> IF c \in woken THEN Fresh(c) ELSE left[c]]
      /\ notified' = [c \in Clients |-> IF c \in woken THEN notified[c] + 1 ELSE notified[c]]
      /\ UNCHANGED <<state, holder, silent, prec, round, ended>>

-----------------------------------------------------------------------------

Init ==
  /\ state = [r \in Regions |-> 0]
  /\ holder = [r \in Regions |-> None]
  /\ stage = [r \in Regions |-> "idle"]
  /\ silent = [r \in Regions |-> FALSE]
  /\ prec = [r \in Regions |-> << >>]
  /\ pc = [c \in Clients |-> "outer"]
  /\ left = [c \in Clients |-> {}]
  /\ round = [c \in Clients |-> 0]
  /\ ended = 0
  /\ notified = [c \in Clients |-> 0]

Client(c) ==
  \/ LockOuter(c) \/ Stop(c) \/ LockArguments(c) \/ Evaluate(c) \/ Body(c)
  \/ AllClosed(c) \/ StartWait(c) \/ Timeout(c) \/ Retry(c)
  \/ \E r \in Regions :
       CloseSession(c, r) \/ AddPrecondition(c, r) \/ RemovePrecondition(c, r)

Processor(r) == RemoveSession(r) \/ NotifyPreconditions(r)

Finished == (\A c \in Clients : pc[c] = "done") /\ UNCHANGED vars

Next == (\E c \in Clients : Client(c)) \/ (\E r \in Regions : Processor(r)) \/ Finished

Spec == Init /\ [][Next]_vars

\* Threads are scheduled, sessions that were submitted are served, and a timed
\* wait ends.
FairSpec ==
  /\ Spec
  /\ \A c \in Clients : SF_vars(Client(c))
  /\ \A r \in Regions : WF_vars(Processor(r))

-----------------------------------------------------------------------------
(***************************************************************************)
(* Properties.                                                             *)
(***************************************************************************)

\* A feature is executed only when its precondition holds, and its regions stay
\* locked from the evaluation on, however often the client had to wait.
BodyMeetsPrecondition ==
  \A c \in Clients : pc[c] = "body" =>
     Satisfied(c) /\ \A r \in Args[c] : holder[r] = c /\ stage[r] = "serve"

\* The list of a region holds the precondition of a client at most once, and
\* only while the client registers, waits or unregisters: none that was freed.
NoFreedPrecondition ==
  \A r \in Regions :
     /\ \A i, j \in 1..Len(prec[r]) : prec[r][i] = prec[r][j] => i = j
     /\ \A i \in 1..Len(prec[r]) :
          LET c == prec[r][i]
          IN  /\ pc[c] \in {"register", "wait", "unregister"} /\ r \in Fresh(c)
              /\ pc[c] = "register" => r \notin left[c]
              /\ pc[c] = "unregister" => r \in left[c]

\* Clients whose wait conditions fail do not wake each other: each notification
\* of a client answers a session that ended otherwise.
NoIdleWakeups == \A c \in Clients : notified[c] <= ended

\* A client that waits lets the others in: it waits for a region that it has
\* not locked.
WaitsForOthers ==
  \A c \in Clients : pc[c] = "wait" => 
     \E r \in Args[c] : holder[r] # c \/ stage[r] # "serve"

\* Every client finishes: a wait condition that others can make true is found
\* true in the end, even if the notification came before the wait, and one that
\* nobody can make true is not waited for.
EverybodyFinishes == <>(\A c \in Clients : pc[c] = "done")
=============================================================================
