------------------------- MODULE WindowsCondition -------------------------
(***************************************************************************)
(* The condition variables of the Windows build (ge_thread.c), made of a   *)
(* semaphore, a critical section and three counters: how many threads      *)
(* wait, how many of them are to be woken, and how many times threads were *)
(* woken.  A thread that takes a token of the semaphore which was meant    *)
(* for threads that wait since longer puts it back and tries again.        *)
(*                                                                         *)
(* What is done inside the critical section is one step, and so is each    *)
(* operation on the semaphore.  The mutex of the caller, released during   *)
(* the wait, plays no role.                                                *)
(***************************************************************************)
EXTENDS Naturals

CONSTANTS
  Waiters,        \* the threads that wait
  Timed,          \* they wait with a timeout
  MaxWaits,       \* bound: how often each thread waits
  MaxBroadcasts   \* bound: how many broadcasts and signals are made

VARIABLES
  numWaiting,   \* num_waiting
  numWake,      \* num_wake
  generation,   \* generation
  semaphore,    \* the tokens in the semaphore
  pc,           \* where a waiter is
  gen,          \* l_generation of a waiter
  waits,        \* history: how many times a waiter has waited
  toPost,       \* l_num_wake of the broadcast that is being made
  broadcasts,   \* history: how many broadcasts and signals were made
  called        \* history: a broadcast was made since the waiter waits

vars == <<numWaiting, numWake, generation, semaphore, pc, gen, waits, toPost,
          broadcasts, called>>
condition == <<numWaiting, numWake, generation>>

-----------------------------------------------------------------------------

\* GE_unprotected_condition_variable_wait_with_timeout
StartWait(t) ==
  /\ pc[t] = "out" /\ waits[t] < MaxWaits
  /\ numWaiting' = numWaiting + 1
  /\ gen' = [gen EXCEPT ![t] = generation]
  /\ waits' = [waits EXCEPT ![t] = @ + 1]
  /\ called' = [called EXCEPT ![t] = FALSE]
  /\ pc' = [pc EXCEPT ![t] = "wait"]
  /\ UNCHANGED <<numWake, generation, semaphore, toPost, broadcasts>>

\* WaitForSingleObject: a token, if there is one ...
TakeToken(t) ==
  /\ pc[t] = "wait" /\ semaphore > 0
  /\ semaphore' = semaphore - 1
  /\ pc' = [pc EXCEPT ![t] = "token"]
  /\ UNCHANGED <<condition, gen, waits, toPost, broadcasts, called>>

\* ... or the timeout.
Timeout(t) ==
  /\ Timed /\ pc[t] = "wait" /\ semaphore = 0
  /\ pc' = [pc EXCEPT ![t] = "timeout"]
  /\ UNCHANGED <<condition, semaphore, gen, waits, toPost, broadcasts, called>>

\* After the timeout the thread does not wait any more.
LeaveTimedOut(t) ==
  /\ pc[t] = "timeout"
  /\ numWaiting' = numWaiting - 1
  /\ pc' = [pc EXCEPT ![t] = "out"]
  /\ UNCHANGED <<numWake, generation, semaphore, gen, waits, toPost, broadcasts, called>>

\* With a token: the thread was woken, or the token is for another one, or the
\* thread waits again.
CheckToken(t) ==
  /\ pc[t] = "token"
  /\ \/ /\ numWake > 0 /\ generation # gen[t]
        /\ numWake' = numWake - 1 /\ numWaiting' = numWaiting - 1
        /\ pc' = [pc EXCEPT ![t] = "out"]
     \/ /\ numWake > 0 /\ generation = gen[t]
        /\ pc' = [pc EXCEPT ![t] = "repost"]
        /\ UNCHANGED <<numWaiting, numWake>>
     \/ /\ numWake = 0
        /\ pc' = [pc EXCEPT ![t] = "wait"]
        /\ UNCHANGED <<numWaiting, numWake>>
  /\ UNCHANGED <<generation, semaphore, gen, waits, toPost, broadcasts, called>>

Repost(t) ==
  /\ pc[t] = "repost"
  /\ semaphore' = semaphore + 1
  /\ pc' = [pc EXCEPT ![t] = "wait"]
  /\ UNCHANGED <<condition, gen, waits, toPost, broadcasts, called>>

\* GE_unprotected_condition_variable_broadcast: the counters are set for all
\* threads that wait.
Broadcast ==
  /\ toPost = 0 /\ broadcasts < MaxBroadcasts
  /\ broadcasts' = broadcasts + 1
  /\ called' = [t \in Waiters |-> called[t] \/ pc[t] # "out"]
  /\ IF numWaiting > numWake
     THEN /\ toPost' = numWaiting - numWake
          /\ numWake' = numWaiting
          /\ generation' = generation + 1
     ELSE UNCHANGED <<toPost, numWake, generation>>
  /\ UNCHANGED <<numWaiting, semaphore, pc, gen, waits>>

\* GE_unprotected_condition_variable_signal, for one of them.
Signal ==
  /\ toPost = 0 /\ broadcasts < MaxBroadcasts
  /\ broadcasts' = broadcasts + 1
  /\ numWaiting > numWake
  /\ toPost' = 1
  /\ numWake' = numWake + 1
  /\ generation' = generation + 1
  /\ UNCHANGED <<numWaiting, semaphore, pc, gen, waits, called>>

\* A token is posted for each thread to be woken.
Post ==
  /\ toPost > 0
  /\ semaphore' = semaphore + 1
  /\ toPost' = toPost - 1
  /\ UNCHANGED <<condition, pc, gen, waits, broadcasts, called>>

-----------------------------------------------------------------------------
Init ==
  /\ numWaiting = 0 /\ numWake = 0 /\ generation = 0 /\ semaphore = 0
  /\ pc = [t \in Waiters |-> "out"]
  /\ gen = [t \in Waiters |-> 0]
  /\ waits = [t \in Waiters |-> 0]
  /\ toPost = 0 /\ broadcasts = 0
  /\ called = [t \in Waiters |-> FALSE]

Wait(t) == TakeToken(t) \/ LeaveTimedOut(t) \/ CheckToken(t) \/ Repost(t)

Next == Broadcast \/ Signal \/ Post \/ \E t \in Waiters : StartWait(t) \/ Timeout(t) \/ Wait(t)

Spec == Init /\ [][Next]_vars

\* The threads are scheduled, and one that waits for a token that is put back
\* again and again gets it.
FairSpec == Spec /\ WF_vars(Post) /\ \A t \in Waiters : SF_vars(Wait(t))

-----------------------------------------------------------------------------

\* "Unblock all threads blocked on condition variable": a thread that waits when
\* a broadcast is made goes on.
BroadcastUnblocks == \A t \in Waiters : called[t] ~> pc[t] = "out"
=============================================================================
