# A TLA+ model of the concurrent runtime of the Gobo Eiffel Compiler

Gobo is a set of Eiffel libraries and tools. Its compiler, `gec`, translates
Eiffel to C and links the result with a runtime written in C
(`src/tool/gec/backend/c/runtime`). The part of this repository where
correctness depends on interleavings nobody can enumerate in a test is that
runtime: `ge_scoop.c`, which implements SCOOP, Eiffel's concurrency model, and
`ge_thread.c`, the threads, joins and condition variables below it. In SCOOP,
objects live in *regions*, each with a *processor* (a thread), and a feature with
separate arguments gets exclusive access to the regions of all its arguments at
once. This project models these two files and the calls the generated code makes
to them, checks the models with TLC, and proves their safety properties with TLAPS.

## 1. Inventory

| Part | State | Operations | What makes it correct |
|---|---|---|---|
| Session queue of a region | `first_session`, `last_session`, `next`, `previous`, `keep_alive` | add last, move to first, remove | the list is the queue, whatever was promoted; `keep_alive` is set exactly while there are sessions |
| Submission | session count, `is_submitted`, queues of all callees of a multisession | `GE_add_scoop_session`, `GE_add_scoop_multisession` | all sessions of a multisession are queued in one atomic step as far as others can tell |
| Promotion | `is_running`, order of the queues | `GE_promote_scoop_session` | access to regions is exclusive, and granted to all regions of a multisession or to none |
| Processor | current session, condition variable of the region | `GE_scoop_processor_run`, `..._run_one_iteration` | serves everything, stops only when the whole system is done |
| Calls | `first_call`..`last_call`, `is_open`, condition variable of the session, `wait` of a synchronization | `GE_scoop_session_open/close/add_call/execute`, `GE_scoop_call_execute` | synchronous calls wait; nobody waits for ever; memory is freed once, by the right side |
| Exceptions in calls | `is_dirty`, `progagate_exception` of the region | in `call_execute`, `add_call`, `session_execute` | an exception reaches its own client, and no other |
| Impersonation | `is_impersonation_allowed` | the client executes the call itself | only when nothing of the session is under way |
| Lock passing | lists of locked sessions, `is_open`, `is_synchronized` | `GE_scoop_region_pass_locks/release_locks` | nested synchronous calls and callbacks give back exactly what they got; nobody waits for itself |
| Wait conditions | preconditions registered with a region | evaluate, register, notify, timed wait, retry | the body runs with the condition true; a condition that becomes true is looked at again |
| Passive regions | sessions without a processor | execution by clients, housekeeping by any thread | as for active regions |
| Region life cycle | `is_region_alive`, region identifiers | create, dispose, destroy | the processor of a collected region stops |
| Thread life cycle (`ge_thread.c`, `thread.e`) | contexts, `n_children`, `is_alive`, `terminated` | create, join, join_all, timed join, exit | contexts are freed once, by whoever comes last; joins wait and return |
| Condition variables of the Windows build | `num_waiting`, `num_wake`, `generation`, a semaphore | wait, signal, broadcast | a broadcast unblocks all threads that wait |
| Once features (`ge_once.c`) | tables per thread and process | create, share, grow | a once is executed once |

The parts of SCOOP interact through shared memory only. A client thread calls
`open` for every separate argument, `add_call` for every separate call and `close`
at the end of the feature; the first `add_call` submits the session (or all
sessions of the multisession) to the queues of the callees and wakes their
processors. A processor takes the first session of its queue, executes its calls
until the session is closed, removes and frees it, notifies clients whose wait
conditions failed, and decrements the global count of sessions; a multisession
must have been *promoted* first, by the processor of any of its regions. While it
executes a call a processor is itself a client of other regions, with the locks of
all the callers that wait for it. A passive region has no processor: its clients
execute its code, and every thread that submits, closes or finishes a session looks
after the queue. Four kinds of mutexes protect this: one per region, one per
session, one for all multisessions, one for the session count; each region and each
session has a condition variable. Processors are threads of the thread runtime, but
are not counted among the children of their creator.

The hard behaviours, each with the line where it bites, are the `hazards` of
`PROJECT.json`: the promotion looks at, locks and reorders queues of regions
whose processors are running; the processor drops the mutex of its region around
the promotion; sessions, preconditions and thread contexts are freed by one thread
while others hold pointers to them; the count of sessions is compared with zero by
one thread while another is about to increase it; flags of a region are read and
reset by clients; notifications are sent to clients that do not wait yet; timed
waits end while a wakeup is on its way.

## 2. Modules

| Module | Models |
|---|---|
| `SessionQueues` | The queue as a sequence: `AddLast`, `MoveToFirst`, `Without`; used by the modules with queues of sessions, and for the lists of preconditions. |
| `SessionList` | The doubly linked list of one region, one assignment of the code per conjunct, with the sequence as a history variable. |
| `ScoopSessions` | The scheduling core: clients, submission, promotion, processors, the session count, the end of the process. |
| `ExclusiveAccess` | The abstract specification: requests for sets of regions, granted at once, released region by region. |
| `ScoopCalls` | One supplier region and its clients: calls, synchronizations, exceptions, impersonation. |
| `ScoopLocks` | Chains of synchronous calls: the lists of locked sessions, passing and releasing them, callbacks. |
| `ScoopPreconditions` | Wait conditions: evaluation, registration, notification, timed wait, retry. |
| `ScoopPassive` | One passive region, executed and looked after by its clients. |
| `ThreadLifecycle` | Creation, joins and exit of threads, and who frees their contexts. |
| `WindowsCondition` | The condition variables that the Windows build makes of a semaphore. |
| `MCScoopSessions`, `MCScoopPreconditions` | Instances for TLC. |
| `*_proofs` | Theorems about `SessionList`, `ScoopSessions`, `ScoopCalls`, `ScoopLocks`, `ScoopPassive`, `ScoopPreconditions`, `ThreadLifecycle`. |
| `ScoopAccess_proofs` | The second part of the theorems about `ScoopSessions`: the refinement of `ExclusiveAccess`, sleeping, the end of the process, the order of sessions. |

The modules cut the runtime along its mutexes and data: each one keeps the
complete control of its part and treats the others as an environment that may do
anything they can do. `ScoopSessions` uses queues as sequences, which `SessionList`
justifies. `ScoopCalls`, `ScoopLocks` and `ScoopPreconditions` let sessions be
granted in any order, of which `ScoopSessions` says which orders happen. In
`ScoopSessions` a client opens no session on a region whose locks were passed to
it (`PassedTo`); `ScoopLocks` shows that the code finds the session of the caller
instead.

### ScoopSessions

One thread per region. `pc[t]` says where it is; the other functions on regions
are the local variables of the functions it is in (`base`, `sib`, `locks`,
`step`, `ready`, `scan` are `l_session`/`a_session`, `l_sibling`, `l_count`, `i`,
`l_ready` and the position of `l_session` in `GE_promote_scoop_session`). A
session is a number in order of allocation; its fields are functions on sessions.

Granularity: a step is a section of code during which no lock is waited for. The
mutexes of regions and the mutex on multisessions are held across several steps
and are variables (`regionLock`, `multiLock`); the mutexes of sessions and of the
count protect sections in which nothing else is locked, and such a section is
one step. The three loops of the promotion take one step per session of the ring,
because regions are unlocked inside the second and woken inside the third.

| Actions | Code |
|---|---|
| `OpenBlock`, `AddCall`, `CloseSession` | `GE_scoop_session_open/add_call/close` as generated code calls them |
| `CountSession`, `AppendSession` | `GE_add_scoop_session` of a session alone |
| `LockMultisessions`, `LockCallee`, `AppendSibling`, `WakeCallee` | `GE_add_scoop_multisession` |
| `SyncReturn` | the wait of `GE_scoop_session_add_call` |
| `Iterate`, `Recheck`, `Idle`, `Sleep`, `Timeout` | `GE_scoop_processor_run` and `..._one_iteration` |
| `NextCall`, `EndBody`, `EndSession` | `GE_scoop_session_execute`, `GE_scoop_call_execute` |
| `RemoveSession`, `DecrementCount`, `WakeMain` | `GE_remove_scoop_session`, `GE_decrement_scoop_sessions_count` |
| `Promote...` | `GE_promote_scoop_session` |
| `PromoteFault` | the undefined outcome of reading a freed session |

What a client does is free: it opens any of the lists of arguments in
`Blocks[t]`, logs up to `MaxCalls` calls of any kind in `CallKinds` in any of the
open sessions, and closes them. Reading a freed session is undefined behaviour, so
a step that does it may find the old contents or kill the process.

Simplifications: a feature opens its sessions in one step (nobody else can see
them yet); a client opens no second block inside a block; the extra first iteration
of `GE_scoop_processor_run`, which only differs by not looking at the count, is not
distinguished from the others; a synchronous call is logged as one call, the null
call that generated code sends first is in `ScoopCalls`; the session of a new
region's creation procedure, which the generated code marks running early, is an
ordinary session (it is the first of its queue and alone in its ring, for which
the flag makes no difference). Regions are active and are not collected.

### ScoopCalls

One supplier, any number of clients. The client side is the two halves of
`GE_scoop_session_add_call` (`AddCall`, `SubmitSession`; `AwaitCall`, `CallDone`,
`CheckOutcome`), opening, closing and impersonation; the supplier side is
`GE_scoop_session_execute` and `GE_scoop_call_execute`, with success and failure
of the feature. `isImpersonationAllowed` starts true and may be switched by any
feature of the supplier. The history variables `failed` and `raised` say which
exceptions the client has not seen yet.

Both waits may end by themselves (`SpuriousProcessorWakeup`,
`SpuriousClientWakeup`), as POSIX allows. That of the processor is in a loop; that of
the client is not (`ge_scoop.c:725`), so that `CallDone` frees the synchronization
and goes on without a look at the flag. Where the call was not executed by then, the
session is in `early`: `CallsAreAwaited`, that this does not happen, does not hold. The
model goes on with such clients: they log further calls, impersonate, close. It stops
at what has no defined outcome (`RunIntoUndefined`): the processor passes locks for,
or signals, a client that does not wait for this call any more, or executes a feature
while a client executes another one in its place. The properties are therefore of
two kinds. `SynchronousCallsWait` and `SignalIsExpected` are about each session that
is not in `early`, whatever happens in others, and the former says as well that nothing
undefined happens without an early return. `ExceptionsReachTheirClient` and
`DirtyCallsIgnored` hold while `early` is empty, since the flags of the region are shared
by all clients; `CleanBetweenSessions` and `FreedIsFinished` hold in any case.

### ScoopLocks

The regions that wait for each other through synchronous calls form a chain, with
one frame per call; `chain[p]` is the one that the processor of `p` started by an
asynchronous call. Frames count what they opened (`opened`), so that any mix of
features, inline separate instructions and exceptions closes what it opened and no
more. `BeginSync` is `GE_scoop_region_pass_locks`, `EndSync` is
`GE_scoop_region_release_locks`; both do to every session of the list what the code
does to `is_open` and `is_synchronized`. A call may be logged without waiting for it
(`MayBeAsync`) unless its callee waits for the caller or the caller has a lock on the
region of an argument, which the call would have to pass. As a history a frame keeps the list and
the counters of its caller, to which `CallsReturnLocks` compares what comes back.

### ScoopPreconditions

A client locks (`LockOuter`, the enclosing feature; `LockArguments`, the feature),
evaluates, and either executes the body, or closes silently, registers, waits and
starts over, or fails because it holds all regions of the precondition already
(`Fresh(c) = {}`). The processor side is the removal of a session in
`GE_remove_scoop_session`, which reads the list of preconditions under one mutex and
notifies after releasing it. The state of a supplier is one bit.

### ScoopPassive

Clients submit sessions, wait for their null call, execute calls themselves, close;
each of these runs the loop of `GE_unprotected_scoop_passive_region_wakeup`, one
step per section under the mutex. `GE_remove_scoop_session` does not look whether the
session is still in the list, and two threads may remove the same one. The list is
therefore `first`, `last`, `next` and `previous`, written by `SubmitSession` and
`Unlink` as the code does it and never reset in sessions that were removed; `queue` is
a history of what the list should be, and `removedTwice` says that a session was
removed which was not in it. A second removal before the session is freed is defined,
and what it does to the list is what happens here. A step that uses a freed session
(`UsesFreed`) goes on with the old contents and sets `execution` to `"undefined"`, or
kills the process.

### ThreadLifecycle and WindowsCondition

A thread creates others (`Launch`, `LaunchFails`), joins one or all of them, with or
without a timeout (`Join`, `JoinAll`, `CheckJoin`, `Timeout`), and exits
(`Terminate`, `ExitParent`, `FreeParent`, `ExitOwn`, `FreeOwn`, `LeaveContext`: the
sections of `GE_thread_exit` and what it does between them). `WaitRefused` is the
boundary of `GE_timeout_to_timespec`: a sum of exactly 1000000000 nanoseconds is
not carried (`ge_thread.c:843`), the wait is refused, and the timed join returns as
if the thread had terminated. The main thread does not exit in this way.

`WindowsCondition` has one step per critical section and per operation on the
semaphore of the condition variables in `ge_thread.c`.

## 3. Runs

| Run | Instance | Checks |
|---|---|---|
| `session_list` | five sessions | the links of the list are the queue, in both directions; `keep_alive` |
| `multisessions` | four regions; features of the main one use `<<a, b, c>>` or `<<a, b>>`, features of `a` use `<<b>>`; four sessions | exclusive and atomic access, the ring and the unchecked first session, the end of the process, where a wakeup can be lost |
| `liveness` | three regions; features of the main one use `<<a, b>>` or `<<b>>`; four sessions, fair, no timed wait | refinement of `ExclusiveAccess`, order of sessions with one argument, every submitted session is served, the process ends |
| `calls` | two clients, two sessions, two calls per session and the call proper after a null call, waits that end by themselves, fair | waits, exceptions, memory, nobody waits for ever |
| `locks` | three regions, four sessions, chains of four frames | locks return as they were, callbacks are recognized, no self-wait, one chain per region |
| `preconditions` | two regions; two clients that fill and empty one of them, one that holds one of its two arguments already, one that holds all, fair | the body meets its precondition, no freed registration, no idle wakeups, everybody finishes |
| `passive` | three clients, three sessions, three calls, fair | until a session is removed twice: exclusive execution, count, no removal under a client, everybody served |
| `threads` | four threads, fair | contexts, who frees them, joins wait and return |
| `dangling_sibling`, `lost_wakeup`, `passive_exclusion`, `windows_wait` | | what the documentation says and the code does not do, see below |

Bounds. The bounds (`Max...`, `Rounds`, and the sets of regions, clients and
threads) limit what the environment asks for, not what the runtime does. Four
sessions allow two multisessions in conflict, or a ring of three, the smallest in
which the search over siblings can stop with a sibling already locked, against a
competing session. In `liveness` there are two rings, or a ring between singletons: a
submission locks `a` before `b` and a promotion by the processor of `b` locks `b` before
`a`, promotions fail and are retried, and `b` sleeps over singletons that came during a
promotion; without the lock on multisessions around a promotion, or without the
wakeups of `WakeCallee`, the run fails. Its calls are asynchronous and its client is
alone; synchronous calls and a second client are in `multisessions`. One call per
session is enough for scheduling, since sessions
are scheduled and not calls; `calls` has two, and the call
proper of a synchronous one as a third, so that a failing asynchronous call can be
followed by an ignored one, with or without a client that waits for it. Chains of four frames
contain a callback of a callback; a frame opens a session once (`MaxOpens`), which
with the passing of locks already makes `is_open` greater than one. In
`preconditions` a notification can come before the wait, during the registration
with a second region and after a timeout. Three clients of a passive region are one
that runs, one that waits and one that looks after both; `passive_exclusion` needs a
fourth session, the one that is let in by mistake. Four threads are a thread
with a parent that it outlives, a child that outlives it and a brother.

Deadlock is checked in every passing run but `session_list` and `locks`. In the
first the bounded supply of sessions just ends. In the second two regions may ask
for each other's locks, which in SCOOP is a deadlock of the program and not of the
runtime; `NoSelfWait` says that one chain alone never causes it.

Fairness. `FairSpec` of `ScoopSessions`, `ScoopPassive` and of the clients of
`ScoopPreconditions` gives every thread strong fairness: the operating system runs
every thread, and a thread that asks for a mutex that is free again and again gets
it (the models have no queue of waiters). It also means that a feature ends, and
that a timed wait ends. Weak fairness of `ScoopCalls` and `ThreadLifecycle` is
enough there because a step once enabled stays enabled; in `ThreadLifecycle` only
the steps of the runtime are fair: nothing says that a program's routine ends, that
a thread joins, or that a timeout comes. `WindowsCondition` assumes that a thread
that waits for a token of a semaphore that is posted again and again gets one.
Waits that end by themselves are steps of their own in `ScoopCalls`, without fairness; no
liveness property relies on one. The waits of processors end by themselves only
where `TimedWait` says so.

Missed wakeups. A processor may go to sleep over a session that was added while it
promoted (`ge_scoop.c:1420-1424`): it looks at the first session only, and the
wakeup went to a thread that was not waiting. `SleepsOnlyOverMultisessions` says that
this happens around promotions and nowhere else. The timed wait of the build with the
Boehm collector (`TimedWait`) repairs it after two seconds, and would repair any other
missing wakeup as well; liveness is therefore checked without it. In `liveness`, with
one client, all sessions are served: a multisession is promoted sooner
or later by the region that was busy, which wakes the other one. With a client that has
called, in the busy region, the region that sleeps, this is not so (`lost_wakeup`). A
notification of a wait condition may come before the client waits; its wait is limited
to one second "to check that no event was missed", and `EverybodyFinishes` of
`ScoopPreconditions` depends on it.

### Disagreements between code and documentation

* `dangling_sibling`: the promotion reads `next_sibling_session` of sessions
  whose region it has unlocked; the processor of that region may have executed and
  freed the session already.
* `lost_wakeup`: M9EA says that atomic locking ensures that no deadlock can occur. The
  main region waits for `a` in a feature with arguments `a` and `b`; `b` cannot
  promote the multisession because `a` still executes an earlier call. When this call
  makes a synchronous call on `b` just after the promotion failed and before `b` has
  its mutex again, `b` sees the blocked multisession only and sleeps, `a` waits for `b`,
  and the main region for `a`. This is `test_two_separate_arguments_9` of M9EA with
  another timing. `NoDeadlock` is checked without the collector's timed wait.
* `passive_exclusion`: M9EA says that access to a region is exclusive. A thread that
  looks after a passive region has seen that a session is closed; the client removes the
  session, and before it frees it another session is added and runs; the thread removes
  the first session again, whose null links empty the list; the next session that is
  opened is the first one, and two clients execute code of the region. Everything up
  to this state is defined: no freed session has been used.
* `windows_wait`: a wait of the Windows condition variable that times out while a
  broadcast counts it leaves `num_wake` and a token behind. The next wait takes the
  token and posts it again for ever, and broadcasts have no effect any more. One
  waiter, two waits and two broadcasts are enough. Without timeouts
  (`Timed = FALSE`) TLC finds no such behaviour in this instance.

Three more properties that one would expect do not hold. They are stated in the modules,
with what remains true of them as properties of the runs.

* `CallsInOrder` of `ScoopSessions`, rule M9EA again: between two regions calls are
  applied in the order they are logged. The main region logs a call on `a`, in a feature
  with one argument, and closes its session; it is the first one of `a`, which has not
  started it. The main region then logs a call on `a` in a feature with arguments `a`
  and `b`. The processor of `b` promotes this multisession and moves its session on `a`
  in front of the one that waits there, since a promotion only respects a first session
  that is running (`ge_scoop.c:598`), and `a` applies the second call first. What
  remains is `SingletonsInOrder`.
* `CallsAreAwaited` of `ScoopCalls`: a synchronous call returns when it was executed. The
  wait is not in a loop (`ge_scoop.c:725`), and when it ends by itself the call
  returns at once. What remains is said above.
* `NoUseAfterFree` of `ScoopPassive`: the housekeeping takes the first session under the
  mutex and uses it after releasing the mutex (`ge_scoop.c:1514-1516`), when its client
  may close, remove and free it. What remains is `RemovedIsFinished`.

The passing runs keep these behaviours (but that of `windows_wait`, which is in no other
module, and the deadlock of `lost_wakeup`, which takes a second client and no timed wait:
`liveness` has one client, `multisessions` the timed wait). Some properties hold in
spite of them; those that do not say so: the ones of `ScoopPassive`
speak of the time before a session is removed twice (`removedTwice`), those of
`ScoopCalls` of sessions whose waits have not ended too early (`early`), and the
liveness properties of `ScoopSessions` of processes that do not die on a dangling session
(`crashed`).

`DanglingOnlyWhenOutlived` names two places in which a thread may read a context
that was freed, both reachable: a thread that leaves its context to its children
reads it once more after unlocking (`ge_thread.c:1794`, `1799`), when the last child
may have freed it; and a SCOOP processor, which its creator does not count, may
start after its creator is gone (`ge_thread.c:1346`).

## 4. Theorems

All hold for every value of the constants that satisfies the named assumptions of
the module: any set of regions, clients and threads, any number of sessions, calls
and frames. Every invariant and action property of the passing runs, and the
refinement, is a theorem.

`SessionList_proofs` proves, for any set of sessions, `ListTypeOK`,
`ListForwardLinks`, `ListBackwardLinks` and `ListKeptAlive`. The inductive invariant is the conjunction
of all properties of the module with the fact that sessions not submitted yet are
unlinked, not running and not in the list (`FreshSessions`). `OnlyFirstRunning` is
what makes the stale backward link harmless: a session is moved in front of another
only if that is not running, so the one link that may be stale is never followed by
a move; the removal of the first session repairs it. The assumption the module makes
of its environment, that a promoted session does not pass a running one (`MayPass`)
and that only the first, running session is removed, is `OnlyFirstRuns` of
`ScoopSessions`, a theorem as well.

`ScoopSessions_proofs` proves `SpecTypeOK` (every pointer the threads hold or the
queues contain leads to an allocated session, whose callee and ring are set),
`SpecFirstSessionRemains`, `SpecOnlyFirstRuns`, `SpecRingIsQueued` and
`SpecAtomicAccess`.

* `Inv` adds to the types `LocalsSet`, which says for each point of the code which
  local variables are set, and that the queue of a processor between its decision
  to promote and its second look at the queue is not empty: others only append to
  it or reorder it, and only the processor itself removes.
* `Excl`, on top of it, says who holds which mutex where. Sessions are in rings of
  consecutive numbers (`RingsOK`), so that the place of a sibling in a walk is its
  `Distance` from where the walk started. A client that submits a multisession holds
  the mutexes of the regions up to its place in the ring (`AdderOK`); a processor
  that promotes holds those of the siblings it has looked at, all of them with a first
  session that is not running, and while it marks, of those it has not marked yet
  (`PromoterOK`). `RingOK` says that the sessions of a multisession are submitted
  together and marked together, but while a thread is doing it under
  `GE_scoop_multisessions_mutex`. From this a session that is marked running is the
  first one of its queue (`QueueOK`), although the code marks siblings in queues of
  regions other than its own.

`ScoopAccess_proofs` is the second part about `ScoopSessions`, with four theorems,
each with an invariant of its own on top of `Excl`.

* `SpecGrantsExclusiveAccess`, the refinement. `Linked` is a fact about every state:
  the abstract request of a ring needs the regions of its sessions that are not freed
  once all are submitted, is granted when one is running, and holds a region when it is
  granted and needs it. A step that marks the first session of a ring is the grant of
  the request, the later marks are stutters; `Marks` says that these find the
  session in place. Submissions, removals and all other steps map to a request, a
  release or a stutter, one lemma each.
* `SpecSleepsOnlyOverMultisessions`. `Naps` extends the property to the points
  between the look at the queue and the wait, which are under the mutex of the region.
* `SpecExitIsFinal`. `Counts` says what `GE_unprotected_scoop_sessions_count` counts: the
  sessions in queues, the threads that have counted a session and not queued it, or
  removed it and not uncounted it, and the root creation procedure. A zero count
  therefore leaves nobody who could submit anything.
* `SpecSingletonsInOrder`. `Ledger` relates the calls logged, executed and waiting of
  a session, and says that a feature with one argument is closed when its client
  opens other sessions; `Lines` that two such sessions of a client are in their order in the
  queue, because the promotion stops its scan at a session with one argument.

`ScoopCalls_proofs` proves the six invariants of `ScoopCalls`. The invariant counts
`is_open` (`OpensOK`: once for the client, once more while locks are passed), says
that a synchronous call is the last one of its session and that its client waits for
it, from logging to the signal (`CallsOK`, `TakenOK`), that a client that was woken
finds the processor idle in its session (`WaitOK`), and that the two flags of the
region always tell about the session that is executed now (`DirtyOK`,
`PropagateOK`). The last one needs the second: a flag survives its session only if the
processor could leave it before the client read the flag, and it cannot, since the
session of a client that waits is open. The parts about waits are restricted to sessions
that are not in `early`, those about the flags to executions in which `early` is empty;
an early return leaves the parts about its own session and the flags, and no other.

`ScoopLocks_proofs` proves the four invariants of `ScoopLocks` and the action property
`LocksCallsReturnLocks`. The properties say little about the frames below the top, and
are far from inductive. `Stack` therefore says the same of every frame, with the list
and the counters its callee recorded in place of the current ones:

* `Account`: each session in the list of a frame is open once for each time the
  frame opened it, as often as it was for the caller, and once more if it was passed;
  it is synchronized once more than for the caller if it was synchronized already or
  is the session for the caller itself.
* `OnePerCallee`: a list has at most one session per callee, which is why opening a
  region finds the session of a caller.
* `SyncIsCallers`: the synchronized sessions are those for the frames below.
* `OwnDoings` and `Inherits`: what a frame opened, whom it calls, and that what it got
  from its caller contains what that got from its own.

`release_locks` undoes what `pass_locks` did because the account of the top frame,
with nothing opened, is that of its caller plus the passing. Between chains, `Lists`
and `Apart` keep the lists and the regions disjoint, and `Served` says that the
processor of a called region serves a session that the callers hold and in which no
asynchronous call is pending: this is why no other chain can begin in that region.

`ScoopPassive_proofs` proves the three invariants of `ScoopPassive`. One part of the
invariant holds in every state (`OwnOK`): the session of a client is its own, open and
not freed, and only closed sessions are removed. The rest (`Sound`) holds until a
session is removed that is not in the list. `ListOK` says that the links are the queue, in both
directions, and that sessions not submitted yet have none, so that a first removal
takes out its session and nothing else. The housekeeping reads a session outside of
the mutex, and the invariant says only what remains true of such a session: it was
marked running, which is never undone (`VisitOK`). That is enough, because the first
session is the only one in the queue that runs (`QueueOK`), and the session of a
client that waits or executes is open and in the queue (`ClientOK`): whatever another
thread removes, it is not this one. `Counted` says that the count is the length of the
queue and the number of threads between count and queue. The use of freed sessions,
which the model goes on from with the old contents, needs no exception of its own.

`ScoopPreconditions_proofs` proves four invariants for any regions, clients and arguments
(`ArgsAssumption`: what an enclosing feature has locked is among the arguments). The
invariant says for each point of the code of a client which regions it has locked
(`Held`) and that the processors that serve it are exactly those (`LocksMatch`), that a
feature closes only what it opened (`ClosesOwn`), and that only a client with freshly
locked arguments waits. The body of a feature cannot make the precondition of another
client's body false because the two would have the same region locked. For
`SpecNoFreedPrecondition`, `Lists` says which lists a client is in while it registers
(those it came to), waits (any of its own) and unregisters (those it has yet to come to).
For `SpecNoIdleWakeups`, `Answers` bounds the notifications of a client and those that are
still to come by the sessions that ended otherwise than by a wait condition.

`ThreadLifecycle_proofs` proves `SpecTypeOK`, `SpecDanglingOnlyWhenOutlived`,
`SpecLastOneFrees` and the action property `SpecJoinsWait` for any set of threads.
The core of the invariant is `Counts`: `n_children` is the cardinality of the set
of counted children that have not gone through the mutex of their parent; each set
is finite because children are added one by one. Around it, `ParentThere` (the
context of a parent is there for its children), `FreesAlone` (the child that frees a
context is the only one left, so that it is freed once) and `ContextThere` (a
thread that is gone leaves its context only to a child that will free it).

Only model-checked: liveness, which is out of the prover's reach (`SubmittedIsServed`,
`ProcessEnds`, `EverybodyFinishes` of `ScoopCalls` and of `ScoopPreconditions`,
`WaitersServed`, `JoinsReturn`), and the four runs that show a disagreement, among them
all of `WindowsCondition`.

## 5. Not modelled

* Once features (`ge_once.c`): tables of results, created and grown under the
  process-wide mutex. The next module of the plan.
* The life cycle of regions: when the collector calls `GE_scoop_region_dispose`
  depends on reachability in the whole heap; `keep_alive`, what it sees of the
  queue, is in `SessionList`.
* Multisessions that contain passive regions, `GE_scoop_session_add_running_call`
  and the creation call of a passive region, whose session is marked running
  without being queued (`et_c_generator.e:22776`).
* Semaphores, read-write locks, priorities and failing allocations of the thread
  runtime; POSIX primitives are taken to do what POSIX says.
* The compiler front end, the generators, the language server, and the text,
  structure and XML libraries: sequential code whose state is its input. What gec
  generates for separate calls is modelled as the client side of the SCOOP modules;
  the fifty thousand lines that print it are not.
* `gec_*.c` and `gec.h` of the bootstrap, more than nine tenths of the lines of C of
  the repository, are the compiler translated by itself, and the Boehm collector is
  vendored. The models therefore stand for a small share of all lines, and for most
  of the two files in which threads meet.

## 6. Plan

1. `OnceFeatures`: who executes a once, who waits, and how the tables grow.
2. Multisessions with passive regions, and disposal of regions.

## 7. Running

    tlc -workers 2 -config session_list.cfg SessionList
    tlc -workers 2 -config multisessions.cfg MCScoopSessions
    tlc -workers 2 -config liveness.cfg MCScoopSessions
    tlc -workers 2 -config calls.cfg ScoopCalls
    tlc -workers 2 -config locks.cfg ScoopLocks
    tlc -workers 2 -config preconditions.cfg MCScoopPreconditions
    tlc -workers 2 -config passive.cfg ScoopPassive
    tlc -workers 2 -config threads.cfg ThreadLifecycle
    tlapm SessionList_proofs.tla
    tlapm ScoopSessions_proofs.tla
    tlapm ScoopAccess_proofs.tla
    tlapm ScoopCalls_proofs.tla
    tlapm ScoopLocks_proofs.tla
    tlapm ScoopPassive_proofs.tla
    tlapm ScoopPreconditions_proofs.tla
    tlapm ThreadLifecycle_proofs.tla
