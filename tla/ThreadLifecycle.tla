-------------------------- MODULE ThreadLifecycle --------------------------
(***************************************************************************)
(* The life of the threads of an Eiffel program (ge_thread.c, thread.e):   *)
(* creation, join, join_all, joins with a timeout and exit.  A thread      *)
(* counts its children under its children_mutex.  Its context is shared    *)
(* with them: when it exits before them it is only marked as not alive,    *)
(* and the last child frees the context.                                   *)
(*                                                                         *)
(* The processors of SCOOP regions are threads too, but are not counted by *)
(* the thread that creates them, and forget it as soon as they run.  The   *)
(* main thread does not go through GE_thread_exit.                         *)
(*                                                                         *)
(* A section under one children_mutex is one step.  launch_mutex of a      *)
(* thread object is held by its creator until the new thread has its id,   *)
(* and only taken for single reads and writes of `terminated' afterwards.  *)
(* Reading a freed context does not change the model: the properties look  *)
(* for states in which it is about to happen.                              *)
(***************************************************************************)
EXTENDS Integers, FiniteSets

CONSTANTS
  Threads,      \* the threads, each created at most once
  Main,         \* the thread that executes the main function
  None          \* the null pointer

ASSUME ThreadsAssumption == Main \in Threads
ASSUME NoneAssumption == None \notin Threads

VARIABLES
  pc,           \* where the thread is
  context,      \* its GE_thread_context: "none", "allocated" or "freed"
  isProcessor,  \* is_scoop_processor: it was created for a SCOOP region
  parent,       \* parent_context, or None
  childrenMutex,\* children_mutex: "none", "made" or "destroyed"
  nChildren,    \* n_children
  isAlive,      \* is_alive
  terminated,   \* `terminated' of the thread object
  awaited,      \* what the thread joins: a child, or None for all of them
  timed         \* it joins with a timeout

vars == <<pc, context, isProcessor, parent, childrenMutex, nChildren, isAlive, terminated, awaited, timed>>
joinVars == <<awaited, timed>>

PCs == {"unborn", "starting", "running", "checking", "waiting",
        "exiting", "freeParent", "own", "free", "outlived", "ended"}

-----------------------------------------------------------------------------
(***************************************************************************)
(* Creation: GE_thread_create_with_attr and GE_thread_routine.             *)
(***************************************************************************)

\* Mutant of Counted: no child is counted.
NeverCounted(processor) == FALSE

\* The processors of regions are not counted among the children.
Counted(processor) == ~processor

\* The thread t creates c, with t's children_mutex locked, which it makes when
\* c is the first one.
Launch(t, c, processor) ==
  /\ pc[t] = "running" /\ pc[c] = "unborn"
  /\ pc' = [pc EXCEPT ![c] = "starting"]
  /\ context' = [context EXCEPT ![c] = "allocated"]
  /\ isAlive' = [isAlive EXCEPT ![c] = TRUE]
  /\ parent' = [parent EXCEPT ![c] = t]
  /\ childrenMutex' = [childrenMutex EXCEPT ![t] = "made"]
  /\ nChildren' = [nChildren EXCEPT ![t] = IF Counted(processor) THEN @ + 1 ELSE @]
  /\ isProcessor' = [isProcessor EXCEPT ![c] = processor]
  /\ UNCHANGED <<terminated, joinVars>>

\* The system cannot create the thread: its context is given back, and what
\* was made for the first child stays.
LaunchFails(t, c) ==
  /\ pc[t] = "running" /\ pc[c] = "unborn" /\ childrenMutex[t] = "none"
  /\ childrenMutex' = [childrenMutex EXCEPT ![t] = "made"]
  /\ UNCHANGED <<pc, context, isProcessor, parent, nChildren, isAlive, terminated, joinVars>>

\* The new thread takes the children_mutex of its parent once, to wait for its
\* thread id; a processor forgets its parent.
Start(c) ==
  /\ pc[c] = "starting"
  /\ parent' = [parent EXCEPT ![c] = IF isProcessor[c] THEN None ELSE @]
  /\ pc' = [pc EXCEPT ![c] = "running"]
  /\ UNCHANGED <<context, isProcessor, childrenMutex, nChildren, isAlive, terminated, joinVars>>

-----------------------------------------------------------------------------
(***************************************************************************)
(* Joins: GE_thread_wait, GE_thread_wait_with_timeout, GE_thread_join_all. *)
(***************************************************************************)

\* The thread t joins its child c, unless c is known to have terminated.
Join(t, c, withTimeout) ==
  /\ pc[t] = "running" /\ parent[c] = t /\ ~isProcessor[c] /\ ~terminated[c]
  /\ awaited' = [awaited EXCEPT ![t] = c]
  /\ timed' = [timed EXCEPT ![t] = withTimeout]
  /\ pc' = [pc EXCEPT ![t] = "checking"]
  /\ UNCHANGED <<context, isProcessor, parent, childrenMutex, nChildren, isAlive, terminated>>

\* A thread without a children_mutex has nothing to wait for.
JoinAll(t) ==
  /\ pc[t] = "running" /\ childrenMutex[t] # "none"
  /\ awaited' = [awaited EXCEPT ![t] = None]
  /\ timed' = [timed EXCEPT ![t] = FALSE]
  /\ pc' = [pc EXCEPT ![t] = "checking"]
  /\ UNCHANGED <<context, isProcessor, parent, childrenMutex, nChildren, isAlive, terminated>>

\* What the loop of the join tests.
Over(t) == IF awaited[t] = None THEN nChildren[t] <= 0 ELSE terminated[awaited[t]]

\* The join returns, and its locals are gone.
Return(t) ==
  /\ pc' = [pc EXCEPT ![t] = "running"]
  /\ awaited' = [awaited EXCEPT ![t] = None]
  /\ timed' = [timed EXCEPT ![t] = FALSE]

\* A turn of the loop: the thread goes on, or releases the mutex and waits.
CheckJoin(t) ==
  /\ pc[t] = "checking"
  /\ IF Over(t) THEN Return(t)
                ELSE pc' = [pc EXCEPT ![t] = "waiting"] /\ UNCHANGED joinVars
  /\ UNCHANGED <<context, isProcessor, parent, childrenMutex, nChildren, isAlive, terminated>>

\* The timed wait ends, and with it the loop.
Timeout(t) ==
  /\ pc[t] = "waiting" /\ timed[t]
  /\ Return(t)
  /\ UNCHANGED <<context, isProcessor, parent, childrenMutex, nChildren, isAlive, terminated>>

\* The timed wait is refused: GE_timeout_to_timespec leaves exactly 1000000000
\* nanoseconds as they are, which POSIX does not accept, and the loop ends as if
\* the thread had terminated.
WaitRefused(t) ==
  /\ pc[t] = "checking" /\ timed[t] /\ ~Over(t)
  /\ Return(t)
  /\ UNCHANGED <<context, isProcessor, parent, childrenMutex, nChildren, isAlive, terminated>>

-----------------------------------------------------------------------------
(***************************************************************************)
(* Exit: the end of thr_main and GE_thread_exit.                           *)
(***************************************************************************)

\* The routine is over, or calls `exit': the thread object learns it first.
Terminate(t) ==
  /\ pc[t] = "running" /\ t # Main
  /\ terminated' = [terminated EXCEPT ![t] = ~isProcessor[t]]
  /\ pc' = [pc EXCEPT ![t] = "exiting"]
  /\ UNCHANGED <<context, isProcessor, parent, childrenMutex, nChildren, isAlive, joinVars>>

\* Mutant of Woken: the parent is not told.
NotWoken(p) == pc[p]

\* The broadcast on children_cond, on which only the parent p waits.
Woken(p) == IF pc[p] = "waiting" THEN "checking" ELSE pc[p]

\* Mutant of LastOfDead: the last child always frees its parent's context.
LastChild(p) == nChildren[p] - 1 <= 0

\* The child that leaves is the last one of a thread that exited before.
LastOfDead(p) == ~isAlive[p] /\ nChildren[p] - 1 <= 0

\* The section on the children_mutex of the parent; a processor has none.
ExitParent(t) ==
  LET p == parent[t]
  IN  /\ pc[t] = "exiting"
      /\ IF p = None
         THEN /\ pc' = [pc EXCEPT ![t] = "own"]
              /\ UNCHANGED <<parent, nChildren>>
         ELSE /\ nChildren' = [nChildren EXCEPT ![p] = @ - 1]
              /\ pc' = [pc EXCEPT ![t] = IF LastOfDead(p) THEN "freeParent" ELSE "own",
                                  ![p] = Woken(p)]
              /\ parent' = [parent EXCEPT ![t] = IF LastOfDead(p) THEN p ELSE None]
      /\ UNCHANGED <<context, isProcessor, childrenMutex, isAlive, terminated, joinVars>>

\* Its mutex is destroyed and the context of the parent freed.
FreeParent(t) ==
  LET p == parent[t]
  IN  /\ pc[t] = "freeParent"
      /\ childrenMutex' = [childrenMutex EXCEPT ![p] = "destroyed"]
      /\ context' = [context EXCEPT ![p] = "freed"]
      /\ parent' = [parent EXCEPT ![t] = None]
      /\ pc' = [pc EXCEPT ![t] = "own"]
      /\ UNCHANGED <<isProcessor, nChildren, isAlive, terminated, joinVars>>

\* Mutant of MayFree: the thread frees its context whether it has children or not.
AlwaysFrees(t) == TRUE

\* The thread has no child any more.
MayFree(t) == childrenMutex[t] = "none" \/ nChildren[t] <= 0

\* The section on its own children_mutex: with children left it is marked dead.
ExitOwn(t) ==
  /\ pc[t] = "own"
  /\ isAlive' = [isAlive EXCEPT ![t] = MayFree(t)]
  /\ pc' = [pc EXCEPT ![t] = IF MayFree(t) THEN "free" ELSE "outlived"]
  /\ UNCHANGED <<context, isProcessor, parent, childrenMutex, nChildren, terminated, joinVars>>

\* The context is read once more, and freed with the mutex of the children.
FreeOwn(t) ==
  /\ pc[t] = "free"
  /\ childrenMutex' = [childrenMutex EXCEPT ![t] = "destroyed"]
  /\ context' = [context EXCEPT ![t] = "freed"]
  /\ pc' = [pc EXCEPT ![t] = "ended"]
  /\ UNCHANGED <<isProcessor, parent, nChildren, isAlive, terminated, joinVars>>

\* The context is read once more, and left to the last child.
LeaveContext(t) ==
  /\ pc[t] = "outlived"
  /\ pc' = [pc EXCEPT ![t] = "ended"]
  /\ UNCHANGED <<context, isProcessor, parent, childrenMutex, nChildren, isAlive, terminated, joinVars>>

-----------------------------------------------------------------------------
Init ==
  /\ pc = [t \in Threads |-> IF t = Main THEN "running" ELSE "unborn"]
  /\ context = [t \in Threads |-> IF t = Main THEN "allocated" ELSE "none"]
  /\ isProcessor = [t \in Threads |-> FALSE]
  /\ parent = [t \in Threads |-> None]
  /\ childrenMutex = [t \in Threads |-> "none"]
  /\ nChildren = [t \in Threads |-> 0]
  /\ isAlive = [t \in Threads |-> t = Main]
  /\ terminated = [t \in Threads |-> FALSE]
  /\ awaited = [t \in Threads |-> None]
  /\ timed = [t \in Threads |-> FALSE]

\* What the Eiffel code of the thread asks for.
Code(t) ==
  \/ \E c \in Threads, processor \in BOOLEAN : Launch(t, c, processor)
  \/ \E c \in Threads : LaunchFails(t, c)
  \/ \E c \in Threads, withTimeout \in BOOLEAN : Join(t, c, withTimeout)
  \/ JoinAll(t)
  \/ Terminate(t)

\* What the runtime does without being asked.
Runtime(t) ==
  \/ Start(t)
  \/ CheckJoin(t)
  \/ ExitParent(t)
  \/ FreeParent(t)
  \/ ExitOwn(t)
  \/ FreeOwn(t)
  \/ LeaveContext(t)

Next == \E t \in Threads : Code(t) \/ Runtime(t) \/ Timeout(t) \/ WaitRefused(t)

Spec == Init /\ [][Next]_vars

\* The scheduler runs every thread that can run; what the program asks for,
\* and whether its routines end, is its own business.
FairSpec == Spec /\ \A t \in Threads : WF_vars(Runtime(t))

-----------------------------------------------------------------------------
(***************************************************************************)
(* Properties.                                                             *)
(***************************************************************************)

TypeOK ==
  /\ pc \in [Threads -> PCs]
  /\ context \in [Threads -> {"none", "allocated", "freed"}]
  /\ isProcessor \in [Threads -> BOOLEAN]
  /\ parent \in [Threads -> Threads \union {None}]
  /\ childrenMutex \in [Threads -> {"none", "made", "destroyed"}]
  /\ nChildren \in [Threads -> Int]
  /\ isAlive \in [Threads -> BOOLEAN]
  /\ terminated \in [Threads -> BOOLEAN]
  /\ awaited \in [Threads -> Threads \union {None}]
  /\ timed \in [Threads -> BOOLEAN]

\* The contexts the next step of the thread t reads: its own until it ended,
\* and that of its parent while it starts and exits.
Read(t) ==
  (IF pc[t] \in {"unborn", "ended"} THEN {} ELSE {t}) \union
  (IF pc[t] \in {"starting", "exiting", "freeParent"} THEN {parent[t]} \ {None} ELSE {})

\* Threads read contexts that exist, and lock mutexes that exist, with two
\* exceptions: a thread that left its context to its children reads it once
\* more after it unlocked (wel_per_thread_data, is_scoop_processor), when the
\* last child may have freed it; and a SCOOP processor, which is not counted,
\* may start after its creator is gone.
DanglingOnlyWhenOutlived ==
  \A t \in Threads : \A u \in Read(t) :
    \/ context[u] = "allocated" /\ (u # t => childrenMutex[u] = "made")
    \/ pc[t] = "outlived" /\ u = t
    \/ pc[t] = "starting" /\ isProcessor[t]

\* Whoever comes last frees the context: that of a thread that ended stays
\* exactly as long as some child still has to leave or to free it.
LastOneFrees ==
  \A t \in Threads :
    pc[t] = "ended" =>
      (context[t] = "allocated" <=>
         \E c \in Threads : parent[c] = t /\ ~isProcessor[c])

\* A join without timeout returns when the routine of the thread is over, and
\* join_all when no child will use the context any more.
JoinsWait ==
  [][\A t \in Threads :
       pc[t] = "checking" /\ pc'[t] = "running" /\ ~timed[t] =>
         IF awaited[t] = None
         THEN \A c \in Threads : parent[c] = t => isProcessor[c]
         ELSE terminated[awaited[t]]]_vars

\* A join does not miss the end of the thread, and join_all not that of the
\* last child, however checks, waits and exits interleave.
JoinsReturn ==
  \A t \in Threads :
    pc[t] \in {"checking", "waiting"} /\ Over(t) ~> pc[t] = "running"

=============================================================================
