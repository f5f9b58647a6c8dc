---------------------------- MODULE ScoopLocks ----------------------------
(***************************************************************************)
(* Lock passing in the SCOOP runtime (ge_scoop.c).  Each region keeps the  *)
(* list of the sessions it has open (first_locked_session).  A synchronous *)
(* call hands the whole list over to the callee, which may use the locks   *)
(* of its callers and call them back; the return hands it back.  Counters  *)
(* in the sessions (is_open, is_synchronized) tell what belongs to whom.   *)
(*                                                                         *)
(* The regions that wait for each other through synchronous calls form a   *)
(* chain.  It starts with an asynchronous call (or the root creation       *)
(* procedure) executed by a processor, and has one frame per call.  The    *)
(* code of a frame runs on the processor of its region or, under           *)
(* impersonation, on the one of its caller: the lists and the counters are *)
(* changed in the same way.  Only one thread of a chain runs, and lists    *)
(* and counters are only touched by the chain they belong to, so that a    *)
(* call of the runtime is one step.                                        *)
(*                                                                         *)
(* A list is only ever searched for the session of a given callee, and is  *)
(* a set here.  Separate arguments are opened one after the other, and the *)
(* order in which they are closed again differs between a feature, inline  *)
(* separate instructions and an exception: a frame counts what it opened   *)
(* and may close it in any order.                                          *)
(*                                                                         *)
(* The order in which a region serves its submitted sessions is the        *)
(* subject of ScoopSessions: any order is allowed here.                    *)
(***************************************************************************)
EXTENDS Integers, Sequences

CONSTANTS
  Regions,      \* the active SCOOP regions
  Main,         \* the region of the root object
  MaxSessions,  \* bound: how many sessions are ever allocated
  MaxFrames,    \* bound: how many synchronous calls are nested
  MaxOpens,     \* bound: how often a frame has a session open
  MaxCalls,     \* bound: how many asynchronous calls are pending in a session
  None          \* the null pointer

ASSUME MainAssumption == Main \in Regions
ASSUME BoundsAssumption ==
  MaxSessions \in Nat /\ MaxFrames \in Nat /\ MaxOpens \in Nat /\ MaxCalls \in Nat
ASSUME NoneAssumption == None \notin Regions /\ None \notin Nat

Sessions == 1..MaxSessions

VARIABLES
  \* sessions (struct GE_scoop_session_struct)
  allocated,    \* number of sessions allocated so far
  freed,        \* the sessions whose memory was given back
  callee,       \* the region the session is for
  isOpen,       \* is_open
  isSync,       \* is_synchronized
  isSubmitted,  \* is_submitted
  pending,      \* number of asynchronous calls logged and not yet executed
  \* regions (struct GE_scoop_region_struct)
  locked,       \* first_locked_session, next_locked_session: the open sessions
  serving,      \* the session the processor of the region executes
  \* call chains
  chain         \* chain[r]: the frames of the chain that the processor of r started

sessionVars == <<allocated, freed, callee, isOpen, isSync, isSubmitted, pending>>
vars == <<sessionVars, locked, serving, chain>>

\* A frame: its region, how often it has each session open, the session it
\* calls synchronously and, as a history, the sessions its caller had open when
\* it made the call, with their is_open and is_synchronized.
NewFrame(r, held) ==
  [region |-> r, opened |-> [s \in Sessions |-> 0], target |-> None,
   held |-> held,
   open |-> [s \in Sessions |-> IF s \in held THEN isOpen[s] ELSE 0],
   sync |-> [s \in Sessions |-> IF s \in held THEN isSync[s] ELSE 0]]

\* The frame of the chain of p whose code runs.
Top(p) == chain[p][Len(chain[p])]

\* The chain of p once its top frame is f.
WithTop(p, f) == [chain EXCEPT ![p] = [@ EXCEPT ![Len(@)] = f]]

\* The code of the chain of p runs: it does not wait for a call.
Runs(p) == chain[p] # << >> /\ Top(p).target = None

\* The top frame has opened nothing, or has closed it again.
NothingOpened(p) == \A s \in Sessions : Top(p).opened[s] = 0

-----------------------------------------------------------------------------
(***************************************************************************)
(* Opening and closing sessions.                                           *)
(***************************************************************************)

\* Mutant of LocksOn: the sessions that are open already are not searched.
NoLocksOn(a, r) == {}

\* The sessions that the region a has open for the region r.
LocksOn(a, r) == {s \in locked[a] : callee[s] = r}

\* GE_scoop_session_open by the region a: the session for r it has already, or
\* a new one.
SessionFor(a, r) ==
  IF LocksOn(a, r) # {} THEN CHOOSE s \in LocksOn(a, r) : TRUE ELSE allocated + 1

\* GE_new_scoop_session, when SessionFor(a, r) is a new session.
NewSession(s, r) ==
  /\ s <= MaxSessions
  /\ allocated' = IF s > allocated THEN s ELSE allocated
  /\ callee' = [callee EXCEPT ![s] = r]

\* The code of the top frame opens a separate argument of the region r: features
\* with several of them open one after the other.  (When some of them were open
\* before, the caller then waits until all their sessions run:
\* GE_scoop_session_add_running_call, which is left out.)
OpenArgument(p, r) ==
  LET f == Top(p)
      s == SessionFor(f.region, r)
  IN  /\ Runs(p) /\ r # f.region
      /\ NewSession(s, r)
      /\ f.opened[s] < MaxOpens
      /\ isOpen' = [isOpen EXCEPT ![s] = @ + 1]
      /\ locked' = [locked EXCEPT ![f.region] = @ \union {s}]
      /\ chain' = WithTop(p, [f EXCEPT !.opened[s] = @ + 1])
      /\ UNCHANGED <<freed, isSync, isSubmitted, pending, serving>>

\* Mutant of Closed: a session is closed for good the first time.
ClosedAtOnce(ss) == {s \in ss : isOpen[s] > 0}

\* The sessions of ss that leave the list of their caller when each is closed.
Closed(ss) == {s \in ss : isOpen[s] = 1}

\* GE_scoop_session_close of each session in ss; a session that was never
\* submitted is freed.
Close(ss) ==
  /\ isOpen' = [s \in Sessions |->
                  IF s \in ss /\ isOpen[s] > 0 THEN isOpen[s] - 1 ELSE isOpen[s]]
  /\ freed' = freed \union {s \in Closed(ss) : ~isSubmitted[s]}

\* A feature, or an inline separate instruction, ends by itself or by an
\* exception.
CloseArgument(p) ==
  LET f == Top(p)
  IN  /\ Runs(p)
      /\ \E s \in Sessions :
           /\ f.opened[s] > 0
           /\ Close({s})
           /\ locked' = [locked EXCEPT ![f.region] = @ \ Closed({s})]
           /\ chain' = WithTop(p, [f EXCEPT !.opened[s] = @ - 1])
      /\ UNCHANGED <<allocated, callee, isSync, isSubmitted, pending, serving>>

-----------------------------------------------------------------------------
(***************************************************************************)
(* Calls on the separate arguments.                                        *)
(***************************************************************************)

\* GE_scoop_region_has_lock_on.
HasLockOn(a, r) == r = a \/ LocksOn(a, r) # {}

\* Mutant of MayBeAsync: a callback is not told from another call.
AlwaysAsync(p, s, args) == \A r \in args : ~HasLockOn(Top(p).region, r)

\* A call of a command on the session s, with objects of the regions args as
\* arguments, is logged and not waited for: the callee, which is not passive,
\* does not wait for the caller, and the caller has no lock to pass for one of
\* the arguments.  Otherwise the call is synchronous.
MayBeAsync(p, s, args) ==
  isSync[s] = 0 /\ \A r \in args : ~HasLockOn(Top(p).region, r)

AsyncCall(p) ==
  /\ Runs(p)
  /\ \E s \in Sessions, args \in SUBSET Regions :
       /\ Top(p).opened[s] > 0 /\ MayBeAsync(p, s, args) /\ pending[s] < MaxCalls
       /\ pending' = [pending EXCEPT ![s] = @ + 1]
       /\ isSubmitted' = [isSubmitted EXCEPT ![s] = TRUE]
  /\ UNCHANGED <<allocated, freed, callee, isOpen, isSync, locked, serving, chain>>

\* A synchronous call: a null call, or the call itself, is logged, unless the
\* callee waits for the caller already (a callback).
SyncCall(p) ==
  LET f == Top(p)
  IN  /\ Runs(p) /\ Len(chain[p]) < MaxFrames
      /\ \E s \in Sessions :
           /\ f.opened[s] > 0
           /\ isSubmitted' = [isSubmitted EXCEPT ![s] = @ \/ isSync[s] = 0]
           /\ chain' = WithTop(p, [f EXCEPT !.target = s])
      /\ UNCHANGED <<allocated, freed, callee, isOpen, isSync, pending, locked,
                     serving>>

\* The callee is ready for the synchronous call of the session s: it waits for
\* the caller, or it has executed the calls logged before.
Ready(s) ==
  \/ isSync[s] > 0
  \/ serving[callee[s]] = s /\ pending[s] = 0 /\ chain[callee[s]] = << >>

\* Mutant of SyncAfterPass: the callers of the caller are not counted again.
SyncOfCallerOnly(s, held, own) == isSync[s] + (IF s = own THEN 1 ELSE 0)

\* is_synchronized of s once the sessions held were passed, own: the one for
\* the caller.
SyncAfterPass(s, held, own) ==
  isSync[s] + (IF s = own \/ (s \in held /\ isSync[s] > 0) THEN 1 ELSE 0)

\* Mutant of ListsAfterPass: the caller keeps its list.
ListsAfterPassShared(a, r, ss) == [locked EXCEPT ![r] = ss]

\* The lists once the region a has passed the sessions ss to r.
ListsAfterPass(a, r, ss) == [locked EXCEPT ![a] = {}, ![r] = ss]

\* GE_scoop_region_pass_locks, and the execution of the call starts.
BeginSync(p) ==
  LET f == Top(p)
      a == f.region
      held == locked[a]
      own == SessionFor(a, a)
  IN  /\ chain[p] # << >> /\ f.target # None /\ Ready(f.target)
      /\ NewSession(own, a)
      /\ isOpen' = [s \in Sessions |->
                      IF s \in held \union {own} THEN isOpen[s] + 1 ELSE isOpen[s]]
      /\ isSync' = [s \in Sessions |-> SyncAfterPass(s, held, own)]
      /\ locked' = ListsAfterPass(a, callee[f.target], held \union {own})
      /\ chain' = [chain EXCEPT ![p] = Append(@, NewFrame(callee[f.target], held))]
      /\ UNCHANGED <<freed, isSubmitted, pending, serving>>

\* is_synchronized of s once the sessions ss were released.
SyncAfterRelease(s, ss) ==
  IF s \in ss /\ isSync[s] > 0 THEN isSync[s] - 1 ELSE isSync[s]

\* The call ends, by itself or by an exception: GE_scoop_region_release_locks.
EndSync(p) ==
  LET r == Top(p).region
      n == Len(chain[p])
      a == chain[p][n-1].region
      ss == locked[r]
  IN  /\ Runs(p) /\ n > 1 /\ NothingOpened(p)
      /\ isSync' = [s \in Sessions |-> SyncAfterRelease(s, ss)]
      /\ Close(ss)
      /\ locked' = [locked EXCEPT ![r] = {}, ![a] = ss \ Closed(ss)]
      /\ chain' = [chain EXCEPT ![p] =
                     [i \in 1..(n-1) |->
                        IF i = n - 1 THEN [@[i] EXCEPT !.target = None] ELSE @[i]]]
      /\ UNCHANGED <<allocated, callee, isSubmitted, pending, serving>>

-----------------------------------------------------------------------------
(***************************************************************************)
(* The processor of the region r.                                          *)
(***************************************************************************)

\* It starts a session; one of a region that executes the root creation
\* procedure does not.
Serve(r) ==
  /\ serving[r] = None /\ chain[r] = << >>
  /\ \E s \in (1..allocated) \ freed :
       /\ callee[s] = r /\ isSubmitted[s]
       /\ serving' = [serving EXCEPT ![r] = s]
  /\ UNCHANGED <<sessionVars, locked, chain>>

\* It takes an asynchronous call.  A processor that is impersonated waits for
\* calls of its session: nothing here keeps it from taking one.
BeginAsync(r) ==
  /\ chain[r] = << >> /\ serving[r] # None /\ pending[serving[r]] > 0
  /\ pending' = [pending EXCEPT ![serving[r]] = @ - 1]
  /\ chain' = [chain EXCEPT ![r] = <<NewFrame(r, {})>>]
  /\ UNCHANGED <<allocated, freed, callee, isOpen, isSync, isSubmitted, locked,
                 serving>>

\* The asynchronous call, or the root creation procedure, ends.
EndAsync(r) ==
  /\ Runs(r) /\ Len(chain[r]) = 1 /\ NothingOpened(r)
  /\ chain' = [chain EXCEPT ![r] = << >>]
  /\ UNCHANGED <<sessionVars, locked, serving>>

\* The session is not open any more and has no calls: it is removed and freed.
EndSession(r) ==
  LET s == serving[r]
  IN  /\ s # None /\ chain[r] = << >> /\ pending[s] = 0 /\ isOpen[s] = 0
      /\ serving' = [serving EXCEPT ![r] = None]
      /\ freed' = freed \union {s}
      /\ UNCHANGED <<allocated, callee, isOpen, isSync, isSubmitted, pending,
                     locked, chain>>

-----------------------------------------------------------------------------

Init ==
  /\ allocated = 0 /\ freed = {}
  /\ callee = [s \in Sessions |-> None]
  /\ isOpen = [s \in Sessions |-> 0]
  /\ isSync = [s \in Sessions |-> 0]
  /\ isSubmitted = [s \in Sessions |-> FALSE]
  /\ pending = [s \in Sessions |-> 0]
  /\ locked = [r \in Regions |-> {}]
  /\ serving = [r \in Regions |-> None]
  /\ chain = [r \in Regions |-> IF r = Main THEN <<NewFrame(r, {})>> ELSE << >>]

Code(p) ==
  \/ \E r \in Regions : OpenArgument(p, r)
  \/ CloseArgument(p) \/ AsyncCall(p) \/ SyncCall(p) \/ BeginSync(p) \/ EndSync(p)

Processor(r) == Serve(r) \/ BeginAsync(r) \/ EndAsync(r) \/ EndSession(r)

Next == \E r \in Regions : Code(r) \/ Processor(r)

Spec == Init /\ [][Next]_vars

-----------------------------------------------------------------------------
(***************************************************************************)
(* Properties.                                                             *)
(***************************************************************************)

\* The regions of the frames of the chain of p, and of those below the top.
Members(p) == {chain[p][i].region : i \in 1..Len(chain[p])}
Callers(p) == {chain[p][i].region : i \in 1..(Len(chain[p]) - 1)}

Frames ==
  [region : Regions, opened : [Sessions -> Nat], target : Sessions \union {None},
   held : SUBSET Sessions, open : [Sessions -> Nat], sync : [Sessions -> Nat]]

\* The variables stay in their domains: is_open and is_synchronized, which are
\* unsigned, never wrap, and the lists hold allocated sessions.
TypeOK ==
  /\ allocated \in 0..MaxSessions
  /\ freed \subseteq 1..allocated
  /\ callee \in [Sessions -> Regions \union {None}]
  /\ isOpen \in [Sessions -> Nat] /\ isSync \in [Sessions -> Nat]
  /\ isSubmitted \in [Sessions -> BOOLEAN] /\ pending \in [Sessions -> Nat]
  /\ locked \in [Regions -> SUBSET (1..allocated)]
  /\ serving \in [Regions -> (1..allocated) \union {None}]
  /\ chain \in [Regions -> Seq(Frames)]

\* The code of a region is executed by one chain of calls at a time, although
\* the thread that executes it may be the one of a caller while its own
\* processor waits for calls of the same session.
OneChainPerRegion ==
  \A p, q \in Regions : p # q => Members(p) \cap Members(q) = {}

\* The region whose code runs finds, among its open sessions, each region that
\* waits for it marked as synchronized, and no other: a callback is executed at
\* once, and a region that does not wait is never impersonated as if it did.
CallbacksRecognized ==
  \A p \in Regions : chain[p] # << >> =>
     {callee[s] : s \in {x \in locked[Top(p).region] : isSync[x] > 0}} = Callers(p)

\* A session is open exactly as long as it is in the list of the region whose
\* code runs in some chain: none is left open, forgotten or freed in a list by
\* the calls, callbacks and exceptions that pass and release the locks.
OpenIsLocked ==
  /\ \A s \in Sessions : isOpen[s] > 0 =>
       s \notin freed /\ \E r \in Regions : s \in locked[r]
  /\ \A r \in Regions, s \in Sessions : s \in locked[r] =>
       /\ isOpen[s] > 0
       /\ \E p \in Regions : chain[p] # << >> /\ Top(p).region = r

\* No chain waits for itself: the region it calls synchronously is none that
\* waits for the call, nor one it has locked by another session.
NoSelfWait ==
  \A p \in Regions :
     chain[p] # << >> /\ Top(p).target # None /\ isSync[Top(p).target] = 0 =>
       LET s == Top(p).target
       IN  /\ callee[s] \notin Members(p)
           /\ \A x \in locked[Top(p).region] \ {s} : callee[x] # callee[s]

\* A synchronous call returns with the locks of its caller exactly as they were
\* when it was made: the same sessions, each open as often, and synchronized
\* with the same callers.
ReturnsLocks(p) ==
  LET f == Top(p)
      a == chain[p][Len(chain[p]) - 1].region
  IN  /\ locked'[a] = f.held
      /\ \A s \in f.held : isOpen'[s] = f.open[s] /\ isSync'[s] = f.sync[s]

CallsReturnLocks == [][\A p \in Regions : EndSync(p) => ReturnsLocks(p)]_vars
=============================================================================
