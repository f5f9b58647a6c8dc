------------------------ MODULE ScoopPassive_proofs ------------------------
(***************************************************************************)
(* Mutual exclusion in a passive region, and what the housekeeping by      *)
(* passing threads may remove, for every number of clients, sessions and   *)
(* calls, up to the second removal of one session; what holds after it as  *)
(* well is in TypeOK and OwnOK.  Checked with TLAPS.                       *)
(***************************************************************************)
EXTENDS ScoopPassive, FiniteSetTheorems, TLAPS

-----------------------------------------------------------------------------
(***************************************************************************)
(* Session queues.                                                         *)
(***************************************************************************)

\* No session occurs twice in q.
Distinct(q) == \A i, j \in 1..Len(q) : q[i] = q[j] => i = j

\* The position of a session in a queue without duplicates.
LEMMA PositionIs ==
  ASSUME NEW S, NEW q \in Seq(S), Distinct(q), NEW p \in 1..Len(q)
  PROVE  Position(q, q[p]) = p
BY DEF Position, Distinct

\* Removing the first session leaves the rest in place.
LEMMA WithoutFirstIs ==
  ASSUME NEW S, NEW q \in Seq(S), Distinct(q), q # << >>
  PROVE  LET w == Without(q, q[1])
         IN  /\ w \in Seq(S)
             /\ Len(w) = Len(q) - 1
             /\ \A i \in 1..Len(w) : w[i] = q[i+1]
             /\ Distinct(w)
<1> DEFINE w == Without(q, q[1])
<1>0. 1 \in 1..Len(q)
  OBVIOUS
<1>1. w = [i \in 1..(Len(q) - 1) |-> q[i+1]]
  BY <1>0, PositionIs DEF Without
<1>2. w \in Seq(S) /\ Len(w) = Len(q) - 1 /\ \A i \in 1..Len(w) : w[i] = q[i+1]
  BY <1>0, <1>1
<1> QED
  BY <1>2 DEF Distinct

\* What appending a session that is not in the queue does.
LEMMA AddLastIs ==
  ASSUME NEW S, NEW q \in Seq(S), Distinct(q), NEW s \in S,
         \A i \in 1..Len(q) : q[i] # s
  PROVE  LET m == AddLast(q, s)
         IN  /\ m \in Seq(S)
             /\ Len(m) = Len(q) + 1
             /\ m[Len(m)] = s
             /\ \A i \in 1..Len(q) : m[i] = q[i]
             /\ Distinct(m)
<1> DEFINE m == AddLast(q, s)
<1>1. m \in Seq(S) /\ Len(m) = Len(q) + 1 /\ m[Len(m)] = s
  BY DEF AddLast
<1>2. \A i \in 1..Len(q) : m[i] = q[i]
  BY DEF AddLast
<1>3. Distinct(m)
  BY <1>1, <1>2 DEF Distinct
<1> QED
  BY <1>1, <1>2, <1>3

-----------------------------------------------------------------------------

\* Where a client has its session open: in its feature, or in the housekeeping
\* on its way to wait for a null call.
HousePCs == {"relock", "scan", "execute", "check", "leave", "unlink", "free"}
Active(t) == \/ pc[t] \in {"open", "count", "submit", "await", "body"}
             \/ pc[t] \in HousePCs /\ after[t] = "await"

\* The session of a client is its own, open and not freed, and only closed
\* sessions are removed: this holds whatever became of the list.
OwnOK(t) ==
  /\ Active(t) => mine[t] # None
  /\ \A u \in Clients : mine[u] # None /\ mine[t] = mine[u] => t = u
  /\ mine[t] # None => isOpen[mine[t]] /\ mine[t] \notin freed
  /\ pc[t] \in {"unlink", "free"} => ~isOpen[visited[t]]

\* The queue holds submitted sessions, once each; only the first one runs.
QueueOK ==
  /\ Distinct(queue)
  /\ \A i \in 1..Len(queue) : isSubmitted[queue[i]]
  /\ \A i \in 1..Len(queue) : isRunning[queue[i]] => i = 1
  /\ \A s \in Sessions : isRunning[s] => isSubmitted[s]
  /\ \A s \in Sessions : isSubmitted[s] => s <= allocated

\* The linked list is the queue, in both directions.
ListOK ==
  /\ queue = << >> => first = None /\ last = None
  /\ queue # << >> => first = queue[1] /\ last = queue[Len(queue)]
  /\ \A i \in 1..Len(queue) :
       /\ next[queue[i]] = IF i = Len(queue) THEN None ELSE queue[i+1]
       /\ previous[queue[i]] = IF i = 1 THEN None ELSE queue[i-1]
  /\ \A s \in Sessions : ~isSubmitted[s] => next[s] = None /\ previous[s] = None

\* The session of a client stays in the queue once it is submitted; it runs when
\* its client goes on without waiting.
ClientOK(t) ==
  mine[t] # None =>
    /\ isSubmitted[mine[t]] => InQueue(mine[t])
    /\ pc[t] # "open" => awaited[t] \/ isRunning[mine[t]]
    /\ pc[t] = "open" /\ isSubmitted[mine[t]] => isRunning[mine[t]]
    /\ pc[t] = "body" => isRunning[mine[t]]
    /\ pc[t] \in {"count", "submit"} => ~isSubmitted[mine[t]]

\* The housekeeping looks at sessions that run.
Visiting == {"execute", "check", "unlink", "free"}
VisitOK(t) == pc[t] \in Visiting => isRunning[visited[t]]

\* The threads between the count and the queue, on the way in and out.
Between == {t \in Clients : pc[t] \in {"submit", "free"}}
Counted == IsFiniteSet(Between) /\ count = Len(queue) + Cardinality(Between)

\* What holds until a session is removed a second time.
Sound == /\ QueueOK /\ ListOK /\ Counted
         /\ \A t \in Clients : ClientOK(t) /\ VisitOK(t)

\* The inductive invariant.
Inv == /\ TypeOK
       /\ \A t \in Clients : OwnOK(t)
       /\ ~removedTwice => Sound

\* The process goes on in one way or another.
GoesOn == execution' \in {"defined", "undefined", "dead"}

\* What the invariant says of pointers.
LEMMA WherePointersLead ==
  ASSUME Inv
  PROVE  /\ 1..allocated \subseteq Sessions
         /\ \A t \in Clients : mine[t] # None => mine[t] \in 1..allocated
         /\ \A t \in Clients : pc[t] \in Visiting => visited[t] \in 1..allocated
         /\ \A i \in 1..Len(queue) : queue[i] \in 1..allocated
         /\ \A p \in Pointers : p # None => p \in 1..allocated
<1>1. 1..allocated \subseteq Sessions
  BY BoundsAssumption DEF Inv, TypeOK, Sessions
<1>2. \A t \in Clients : mine[t] # None => mine[t] \in 1..allocated
  BY DEF Inv, TypeOK, Pointers
<1>3. \A t \in Clients : pc[t] \in Visiting => visited[t] \in 1..allocated
  BY DEF Inv, TypeOK, Pointers, Visiting
<1>4. queue \in Seq(1..allocated)
  BY DEF Inv, TypeOK
<1>5. ASSUME NEW S, NEW q \in Seq(S) PROVE \A i \in 1..Len(q) : q[i] \in S
  BY <1>5
<1>6. \A i \in 1..Len(queue) : queue[i] \in 1..allocated
  BY <1>4, <1>5
<1> QED
  BY <1>1, <1>2, <1>3, <1>6 DEF Pointers

\* A step that moves no thread in or out of Between.
LEMMA CountedKept ==
  ASSUME Counted, count' = count, Len(queue') = Len(queue),
         \A u \in Clients : pc'[u] \in {"submit", "free"} <=> pc[u] \in {"submit", "free"}
  PROVE  Counted'
<1>1. Between' = Between
  BY DEF Between
<1> QED
  BY <1>1 DEF Counted

\* A thread enters Between.
LEMMA CountedIn ==
  ASSUME Counted, NEW t \in Clients, pc[t] \notin {"submit", "free"},
         pc'[t] \in {"submit", "free"},
         \A u \in Clients \ {t} : pc'[u] = pc[u],
         Len(queue) \in Nat, Len(queue') \in Nat, count \in Nat, count' \in Nat,
         count' - Len(queue') = count - Len(queue) + 1
  PROVE  Counted'
<1>1. Between' = Between \union {t} /\ t \notin Between
  BY DEF Between
<1>2. IsFiniteSet(Between') /\ Cardinality(Between') = Cardinality(Between) + 1
  BY <1>1, FS_AddElement DEF Counted
<1>3. Cardinality(Between) \in Nat
  BY FS_CardinalityType DEF Counted
<1> QED
  BY <1>2, <1>3 DEF Counted

\* A thread leaves Between.
LEMMA CountedOut ==
  ASSUME Counted, NEW t \in Clients, pc[t] \in {"submit", "free"},
         pc'[t] \notin {"submit", "free"},
         \A u \in Clients \ {t} : pc'[u] = pc[u],
         Len(queue) \in Nat, Len(queue') \in Nat, count \in Nat, count' \in Nat,
         count > 0 => count' - Len(queue') = count - Len(queue) - 1
  PROVE  Counted'
<1>1. Between' = Between \ {t} /\ t \in Between
  BY DEF Between
<1>2. IsFiniteSet(Between') /\ Cardinality(Between') = Cardinality(Between) - 1
  BY <1>1, FS_RemoveElement DEF Counted
<1>3. Cardinality(Between) \in Nat /\ Cardinality(Between') \in Nat
  BY <1>2, FS_CardinalityType DEF Counted
<1> QED
  BY <1>2, <1>3 DEF Counted

\* A feature opens its session.
LEMMA OpenSessionInv ==
  ASSUME Inv, GoesOn, NEW t \in Clients, OpenSession(t)
  PROVE  Inv'
<1> USE NoneAssumption, BoundsAssumption DEF OpenSession, Goto, GoesOn, listVars
<1>a. /\ allocated' = allocated + 1 /\ allocated' \in Sessions
      /\ allocated \in Nat /\ 1..allocated \subseteq 1..allocated'
  BY DEF Inv, TypeOK, Sessions
<1>n. /\ \A u \in Clients : mine[u] # allocated'
      /\ allocated' \notin freed
  BY <1>a, WherePointersLead DEF Inv, TypeOK
<1>m. mine'[t] = allocated' /\ \A v \in Clients \ {t} : mine'[v] = mine[v]
  BY DEF Inv, TypeOK
<1>1. TypeOK'
  <2>1. queue' \in Seq(1..allocated')
    <3>1. queue' = queue /\ queue \in Seq(1..allocated)
      BY DEF Inv, TypeOK
    <3>2. ASSUME NEW S, NEW T, S \subseteq T, NEW q \in Seq(S) PROVE q \in Seq(T)
      BY <3>2
    <3>3. QED
      BY <1>a, <3>1, <3>2
  <2>2. Pointers \subseteq Pointers'
    BY <1>a DEF Pointers
  <2>3. /\ first' \in Pointers' /\ last' \in Pointers'
        /\ next' \in [Sessions -> Pointers'] /\ previous' \in [Sessions -> Pointers']
        /\ visited' \in [Clients -> Pointers'] /\ removedTwice' \in BOOLEAN
    BY <2>2 DEF Inv, TypeOK
  <2>4. mine' \in [Clients -> Pointers']
    BY <1>a, <2>2 DEF Inv, TypeOK, Pointers
  <2> QED
    BY <1>a, <1>m, <2>1, <2>3, <2>4 DEF Inv, TypeOK, PCs
<1>2. ASSUME NEW u \in Clients PROVE OwnOK(u)'
  <2>1. CASE u = t
    BY <1>a, <1>n, <1>m, <2>1 DEF Inv, TypeOK, OwnOK, Active
  <2>2. CASE u # t
    <3>1. mine[u] # None => isOpen'[mine[u]] = isOpen[mine[u]]
      BY <1>n, WherePointersLead DEF Inv, TypeOK
    <3>2. pc[u] \in {"unlink", "free"} => visited[u] \in 1..allocated
      BY WherePointersLead DEF Visiting
    <3>3. pc[u] \in {"unlink", "free"} => ~isOpen'[visited[u]]
      BY <1>a, <3>2, WherePointersLead DEF Inv, TypeOK, OwnOK
    <3>4. pc'[u] = pc[u]
      BY <2>2 DEF Inv, TypeOK
    <3> QED
      BY <1>n, <1>m, <2>2, <3>1, <3>3, <3>4 DEF Inv, OwnOK, Active
  <2> QED
    BY <2>1, <2>2
<1>3. ASSUME ~removedTwice PROVE Sound'
  <2> USE <1>3
  <2>n. ~isSubmitted[allocated'] /\ ~isRunning[allocated']
    BY <1>a DEF Inv, Sound, QueueOK
  <2>1. QueueOK'
    BY <1>a DEF Inv, Sound, QueueOK, TypeOK
  <2>2. ListOK'
    BY DEF Inv, Sound, ListOK
  <2>3. Counted'
    BY CountedKept DEF Inv, TypeOK, Sound
  <2>4. ASSUME NEW u \in Clients PROVE ClientOK(u)'
    BY <1>a, <1>m, <2>n DEF Inv, TypeOK, Sound, ClientOK, InQueue
  <2>5. ASSUME NEW u \in Clients PROVE VisitOK(u)'
    BY DEF Inv, TypeOK, Sound, VisitOK, Visiting
  <2> QED
    BY <2>1, <2>2, <2>3, <2>4, <2>5 DEF Sound
<1> QED
  BY <1>1, <1>2, <1>3 DEF Inv

\* A step of the thread t that changes neither sessions nor the list.
LEMMA MoveInv ==
  ASSUME Inv, GoesOn, NEW t \in Clients,
         UNCHANGED <<sessionVars, listVars, count, mine, after, awaited>>,
         mutex' \in Clients \union {None}, visited' \in [Clients -> Pointers],
         pc' \in [Clients -> PCs], \A u \in Clients \ {t} : pc'[u] = pc[u] /\ visited'[u] = visited[u],
         pc[t] \notin {"submit", "free"}, pc'[t] \notin {"submit", "free"},
         pc'[t] \in Visiting => pc[t] \in Visiting /\ visited'[t] = visited[t],
         pc'[t] = "unlink" => ~isOpen[visited'[t]],
         Active(t)' => Active(t),
         ~removedTwice /\ mine[t] # None /\ pc'[t] \in {"open", "body"} => isRunning[mine[t]],
         pc[t] = "open" => pc'[t] = "open" \/ mine[t] = None,
         pc'[t] # "count"
  PROVE  Inv'
<1> USE DEF sessionVars, listVars, GoesOn
<1>1. TypeOK'
  <2>1. \A u \in Clients :
          /\ pc'[u] \in {"open", "count", "submit", "await", "body"} => mine'[u] # None
          /\ pc'[u] \in Visiting => visited'[u] # None
    BY DEF Inv, TypeOK, OwnOK, Active, Visiting
  <2>2. Pointers' = Pointers
    BY DEF Pointers
  <2> QED
    BY <2>1, <2>2 DEF Inv, TypeOK, Visiting
<1>2. ASSUME NEW u \in Clients PROVE OwnOK(u)'
  <2>1. CASE u = t
    BY <2>1 DEF Inv, OwnOK, Active
  <2>2. CASE u # t
    BY <2>2 DEF Inv, OwnOK, Active
  <2> QED
    BY <2>1, <2>2
<1>3. ASSUME ~removedTwice PROVE Sound'
  <2> USE <1>3
  <2>1. QueueOK' /\ ListOK'
    BY DEF Inv, Sound, QueueOK, ListOK
  <2>2. Counted'
    BY CountedKept DEF Inv, Sound
  <2>3. ASSUME NEW u \in Clients PROVE ClientOK(u)'
    <3>1. CASE u = t
      BY <3>1 DEF Inv, Sound, ClientOK, InQueue
    <3>2. CASE u # t
      BY <3>2 DEF Inv, Sound, ClientOK, InQueue
    <3> QED
      BY <3>1, <3>2
  <2>4. ASSUME NEW u \in Clients PROVE VisitOK(u)'
    BY DEF Inv, Sound, VisitOK
  <2> QED
    BY <2>1, <2>2, <2>3, <2>4 DEF Sound
<1> QED
  BY <1>1, <1>2, <1>3 DEF Inv

\* A client makes a call: when its session was submitted, it runs.
LEMMA CallInv ==
  ASSUME Inv, GoesOn, NEW t \in Clients, Call(t)
  PROVE  Inv'
<1> USE DEF GoesOn
<1> DEFINE s == mine[t]
<1>s. s \in 1..allocated /\ s \in Sessions /\ pc[t] = "open" /\ made' \in 0..MaxCalls
  BY WherePointersLead, BoundsAssumption DEF Call, Inv, TypeOK
<1>0. made' = made + 1 /\ UNCHANGED <<allocated, freed, isOpen, isSubmitted, isRunning,
                                      first, last, next, previous, queue, removedTwice,
                                      mutex, count, mine, visited>>
  BY DEF Call, listVars
<1>p. /\ pc' \in [Clients -> PCs] /\ \A u \in Clients \ {t} : pc'[u] = pc[u]
      /\ pc'[t] \in {"count", "relock", "body"}
      /\ pc'[t] = "body" => isRunning[s]
      /\ pc'[t] # "body" => awaited'[t] /\ ~isRunning[s]
      /\ pc'[t] = "count" => ~isSubmitted[s]
      /\ pc'[t] = "relock" => isSubmitted[s]
      /\ after' \in [Clients -> {"out", "await"}]
      /\ \A u \in Clients \ {t} : after'[u] = after[u] /\ awaited'[u] = awaited[u]
  BY <1>s DEF Call, NullCallNeeded, Goto, Inv, TypeOK, PCs
<1>b. awaited' \in [Clients -> BOOLEAN] /\ nullCall' \in [Sessions -> BOOLEAN]
  BY <1>s DEF Call, Inv, TypeOK
<1>1. TypeOK'
  <2>1. \A u \in Clients :
          /\ pc'[u] \in {"open", "count", "submit", "await", "body"} => mine'[u] # None
          /\ pc'[u] \in {"execute", "check", "unlink", "free"} => visited'[u] # None
    BY <1>0, <1>p, <1>s DEF Inv, TypeOK
  <2>2. Pointers' = Pointers
    BY <1>0 DEF Pointers
  <2> QED
    BY <2>1, <2>2, <1>0, <1>s, <1>p, <1>b DEF Inv, TypeOK
<1>2. ASSUME NEW u \in Clients PROVE OwnOK(u)'
  <2>1. CASE u = t
    BY <2>1, <1>0, <1>p, <1>s DEF Inv, OwnOK, Active
  <2>2. CASE u # t
    BY <2>2, <1>0, <1>p, <1>s DEF Inv, OwnOK, Active
  <2> QED
    BY <2>1, <2>2
<1>3. ASSUME ~removedTwice PROVE Sound'
  <2> USE <1>3
  <2>r. isSubmitted[s] => isRunning[s]
    BY <1>s DEF Inv, Sound, TypeOK, ClientOK
  <2>1. QueueOK' /\ ListOK'
    BY <1>0 DEF Inv, Sound, QueueOK, ListOK
  <2>2. Counted'
    BY <1>0, <1>p, <1>s, CountedKept DEF Inv, Sound
  <2>3. ASSUME NEW u \in Clients PROVE ClientOK(u)'
    <3>1. CASE u = t
      BY <3>1, <2>r, <1>0, <1>p, <1>s DEF Inv, Sound, ClientOK, InQueue
    <3>2. CASE u # t
      BY <3>2, <1>0, <1>p, <1>s DEF Inv, Sound, ClientOK, InQueue
    <3> QED
      BY <3>1, <3>2
  <2>4. ASSUME NEW u \in Clients PROVE VisitOK(u)'
    BY <1>0, <1>p DEF Inv, Sound, VisitOK, Visiting
  <2> QED
    BY <2>1, <2>2, <2>3, <2>4 DEF Sound
<1> QED
  BY <1>0, <1>1, <1>2, <1>3 DEF Inv

\* A session is counted.
LEMMA CountSessionInv ==
  ASSUME Inv, GoesOn, NEW t \in Clients, CountSession(t)
  PROVE  Inv'
<1> USE DEF CountSession, Goto, sessionVars, listVars, GoesOn
<1>p. /\ pc' \in [Clients -> PCs] /\ \A u \in Clients \ {t} : pc'[u] = pc[u]
      /\ pc[t] = "count" /\ pc'[t] = "submit" /\ count' = count + 1 /\ count \in Nat
      /\ queue \in Seq(1..allocated)
  BY DEF Inv, TypeOK, PCs
<1>1. TypeOK'
  BY <1>p DEF Inv, TypeOK, Pointers
<1>2. ASSUME NEW u \in Clients PROVE OwnOK(u)'
  BY <1>p DEF Inv, OwnOK, Active
<1>3. ASSUME ~removedTwice PROVE Sound'
  <2> USE <1>3
  <2>1. QueueOK' /\ ListOK'
    BY DEF Inv, Sound, QueueOK, ListOK
  <2>2. Counted'
    BY <1>p, CountedIn DEF Inv, Sound
  <2>3. ASSUME NEW u \in Clients PROVE ClientOK(u)' /\ VisitOK(u)'
    BY <1>p DEF Inv, Sound, ClientOK, InQueue, VisitOK, Visiting
  <2> QED
    BY <2>1, <2>2, <2>3 DEF Sound
<1> QED
  BY <1>1, <1>2, <1>3 DEF Inv

\* A session is queued, behind the last one.
LEMMA SubmitSessionInv ==
  ASSUME Inv, GoesOn, NEW t \in Clients, SubmitSession(t)
  PROVE  Inv'
<1> USE DEF GoesOn
<1> DEFINE s == mine[t]
<1>s. s \in 1..allocated /\ s \in Sessions /\ pc[t] = "submit" /\ isOpen[s]
  BY WherePointersLead DEF SubmitSession, Inv, TypeOK, OwnOK
<1>0. /\ UNCHANGED <<allocated, freed, isOpen, isRunning, nullCall, made, removedTwice,
                     count, mine, after, visited, awaited>>
      /\ last' = s
  BY DEF SubmitSession
<1>p. /\ pc' \in [Clients -> PCs] /\ \A u \in Clients \ {t} : pc'[u] = pc[u]
      /\ pc'[t] = "scan" /\ mutex' = t
      /\ isSubmitted' \in [Sessions -> BOOLEAN] /\ isSubmitted'[s]
      /\ \A x \in Sessions \ {s} : isSubmitted'[x] = isSubmitted[x]
  BY <1>s DEF SubmitSession, Goto, Inv, TypeOK, PCs
<1>l. /\ first' \in Pointers /\ last' \in Pointers
      /\ next' \in [Sessions -> Pointers] /\ previous' \in [Sessions -> Pointers]
  BY <1>s DEF SubmitSession, Inv, TypeOK, Pointers
<1>a. queue' = AddLast(queue, s) /\ queue \in Seq(1..allocated)
  BY DEF SubmitSession, Inv, TypeOK
<1>1. TypeOK'
  <2>1. \A u \in Clients :
          /\ pc'[u] \in {"open", "count", "submit", "await", "body"} => mine'[u] # None
          /\ pc'[u] \in {"execute", "check", "unlink", "free"} => visited'[u] # None
    BY <1>0, <1>p DEF Inv, TypeOK
  <2>2. Pointers' = Pointers
    BY <1>0 DEF Pointers
  <2>3. queue' \in Seq(1..allocated)
    BY <1>a, <1>s DEF AddLast
  <2> QED
    BY <2>1, <2>2, <2>3, <1>0, <1>p, <1>l DEF Inv, TypeOK
<1>2. ASSUME NEW u \in Clients PROVE OwnOK(u)'
  <2>1. CASE u = t
    BY <2>1, <1>0, <1>p, <1>s DEF Inv, OwnOK, Active
  <2>2. CASE u # t
    BY <2>2, <1>0, <1>p, <1>s DEF Inv, OwnOK, Active
  <2> QED
    BY <2>1, <2>2
<1>3. ASSUME ~removedTwice PROVE Sound'
  <2> USE <1>3
  <2>s. ~isSubmitted[s] /\ ~isRunning[s] /\ awaited[t] /\ next[s] = None
    <3>1. ~isSubmitted[s] /\ (awaited[t] \/ isRunning[s])
      BY <1>s, NoneAssumption DEF Inv, Sound, TypeOK, ClientOK
    <3> QED
      BY <3>1, <1>s DEF Inv, Sound, QueueOK, ListOK
  <2>n. \A i \in 1..Len(queue) : queue[i] # s
    BY <2>s DEF Inv, Sound, QueueOK
  <2>q. /\ queue' \in Seq(1..allocated) /\ Len(queue') = Len(queue) + 1
        /\ Len(queue) \in Nat
        /\ queue'[Len(queue')] = s
        /\ \A i \in 1..Len(queue) : queue'[i] = queue[i]
        /\ Distinct(queue')
    <3> DEFINE S == 1..allocated
    <3>1. queue \in Seq(S) /\ s \in S /\ Distinct(queue) /\ queue' = AddLast(queue, s)
      BY <1>s, <1>a DEF Inv, Sound, QueueOK
    <3>2. Len(queue) \in Nat
      BY <3>1
    <3> HIDE DEF s, S
    <3>3. /\ queue' \in Seq(S) /\ Len(queue') = Len(queue) + 1 /\ queue'[Len(queue')] = s
          /\ \A i \in 1..Len(queue) : queue'[i] = queue[i]
          /\ Distinct(queue')
      BY <2>n, <3>1, AddLastIs
    <3> QED
      BY <3>2, <3>3 DEF S
  <2>1. QueueOK'
    <3>1. ASSUME NEW i \in 1..Len(queue')
          PROVE  isSubmitted'[queue'[i]] /\ (isRunning'[queue'[i]] => i = 1)
      <4>1. CASE i = Len(queue')
        BY <4>1, <1>0, <1>p, <2>q, <2>s
      <4>2. CASE i \in 1..Len(queue)
        <5>1. queue'[i] = queue[i] /\ queue[i] \in Sessions
          BY <4>2, <2>q, WherePointersLead
        <5> QED
          BY <4>2, <5>1, <1>0, <1>p DEF Inv, Sound, QueueOK
      <4> QED
        BY <4>1, <4>2, <2>q
    <3> QED
      BY <3>1, <1>0, <1>p, <2>q, <1>s DEF Inv, Sound, QueueOK
  <2>2. ListOK'
    <3>1. CASE queue = << >>
      <4>1. first' = s /\ next' = next /\ previous' = previous
        BY <3>1 DEF SubmitSession, Inv, Sound, ListOK
      <4>2. Len(queue') = 1 /\ queue' # << >> /\ previous[s] = None
        BY <3>1, <2>q, <2>s, <1>s DEF Inv, Sound, ListOK
      <4> QED
        BY <4>1, <4>2, <2>q, <2>s, <1>0, <1>p DEF Inv, Sound, ListOK
    <3>2. CASE queue # << >>
      <4> DEFINE n == Len(queue)
      <4>1. n \in Nat \ {0} /\ last = queue[n] /\ n \in 1..Len(queue)
        BY <3>2, <1>a, <2>q DEF Inv, Sound, ListOK
      <4>2. last # None /\ last \in Sessions /\ last # s
        BY <4>1, <2>n, WherePointersLead, NoneAssumption
      <4>3. /\ first' = first /\ next' = [next EXCEPT ![last] = s]
            /\ previous' = [previous EXCEPT ![s] = last]
        BY <4>2 DEF SubmitSession
      <4>4. /\ next'[last] = s /\ previous'[s] = last
            /\ \A x \in Sessions \ {last} : next'[x] = next[x]
            /\ \A x \in Sessions \ {s} : previous'[x] = previous[x]
        BY <4>2, <4>3, <1>s DEF Inv, TypeOK
      <4>5. first' = queue'[1] /\ queue' # << >> /\ Len(queue') = n + 1
        BY <3>2, <4>1, <4>3, <2>q DEF Inv, Sound, ListOK
      <4>6. ASSUME NEW i \in 1..(n + 1)
            PROVE  /\ next'[queue'[i]] = IF i = n + 1 THEN None ELSE queue'[i+1]
                   /\ previous'[queue'[i]] = IF i = 1 THEN None ELSE queue'[i-1]
        <5>1. CASE i = n + 1
          BY <5>1, <4>1, <4>2, <4>4, <2>q, <2>s, <1>s
        <5>2. CASE i \in 1..n
          <6>1. queue'[i] = queue[i] /\ queue[i] \in Sessions /\ queue[i] # s
            BY <5>2, <2>q, <2>n, WherePointersLead
          <6>2. previous'[queue'[i]] = IF i = 1 THEN None ELSE queue'[i-1]
            <7>1. previous'[queue'[i]] = IF i = 1 THEN None ELSE queue[i-1]
              BY <5>2, <6>1, <4>4 DEF Inv, Sound, ListOK
            <7> QED
              BY <7>1, <5>2, <4>1, <2>q
          <6>3. CASE i = n
            BY <6>1, <6>2, <6>3, <4>1, <4>4, <2>q
          <6>4. CASE i # n
            <7>1. queue[i] # last
              BY <5>2, <6>4, <4>1 DEF Inv, Sound, QueueOK, Distinct
            <7>2. next'[queue'[i]] = queue[i+1]
              BY <5>2, <6>1, <6>4, <7>1, <4>4 DEF Inv, Sound, ListOK
            <7> QED
              BY <5>2, <6>2, <6>4, <7>2, <4>1, <2>q
          <6> QED
            BY <6>3, <6>4
        <5> QED
          BY <5>1, <5>2, <4>1
      <4>7. \A x \in Sessions : ~isSubmitted'[x] => next'[x] = None /\ previous'[x] = None
        <5>1. isSubmitted[last]
          BY <4>1 DEF Inv, Sound, QueueOK
        <5>2. isSubmitted'[last]
          BY <5>1, <4>2, <1>p
        <5> QED
          BY <5>2, <4>4, <1>p DEF Inv, Sound, ListOK
      <4> QED
        BY <4>1, <4>5, <4>6, <4>7, <2>q, <1>0 DEF ListOK
    <3> QED
      BY <3>1, <3>2
  <2>3. Counted'
    <3>1. count > 0 => count' - Len(queue') = count - Len(queue) - 1
      BY <1>0, <2>q DEF Inv, TypeOK
    <3> QED
      <4>1. /\ Len(queue) \in Nat /\ Len(queue') \in Nat
            /\ count \in Nat /\ count' \in Nat /\ Counted
        BY <1>0, <2>q DEF Inv, Sound, TypeOK
      <4> QED
        BY <3>1, <4>1, <1>p, <1>s, CountedOut
  <2>4. ASSUME NEW u \in Clients PROVE ClientOK(u)'
    <3>0. \A x : InQueue(x) => InQueue(x)'
      BY <2>q DEF InQueue
    <3>1. CASE u = t
      <4>1. InQueue(s)'
        BY <1>0, <2>q DEF InQueue
      <4> QED
        BY <3>1, <4>1, <1>0, <1>p, <1>s, <2>s DEF ClientOK
    <3>2. CASE u # t
      <4>1. mine[u] # None => mine[u] # s /\ mine[u] \in Sessions
        BY <3>2, <1>s, WherePointersLead DEF Inv, OwnOK
      <4>2. InQueue(mine[u]) => InQueue(mine[u])'
        BY <1>0, <3>0
      <4> QED
        BY <3>2, <4>1, <4>2, <1>0, <1>p DEF Inv, Sound, ClientOK
    <3> QED
      BY <3>1, <3>2
  <2>5. ASSUME NEW u \in Clients PROVE VisitOK(u)'
    BY <1>0, <1>p DEF Inv, Sound, VisitOK, Visiting
  <2> QED
    BY <2>1, <2>2, <2>3, <2>4, <2>5 DEF Sound
<1> QED
  BY <1>0, <1>1, <1>2, <1>3 DEF Inv

\* A client whose null call was executed executes its call.
LEMMA NullCallDoneInv ==
  ASSUME Inv, GoesOn, NEW t \in Clients, NullCallDone(t)
  PROVE  Inv'
<1>1. /\ pc' \in [Clients -> PCs] /\ \A u \in Clients \ {t} : pc'[u] = pc[u]
      /\ pc[t] = "await" /\ pc'[t] = "body" /\ ~awaited[t]
      /\ mutex \in Clients \union {None} /\ visited \in [Clients -> Pointers]
      /\ UNCHANGED <<sessionVars, listVars, mutex, count, mine, after, visited, awaited>>
  BY DEF NullCallDone, Goto, Inv, TypeOK, PCs
<1>2. ~removedTwice /\ mine[t] # None => isRunning[mine[t]]
  BY <1>1 DEF Inv, Sound, ClientOK
<1>3. Active(t)
  BY <1>1 DEF Active
<1> QED
  BY <1>1, <1>2, <1>3, MoveInv DEF Visiting

\* A call ends.
LEMMA EndCallInv ==
  ASSUME Inv, GoesOn, NEW t \in Clients, EndCall(t)
  PROVE  Inv'
<1>1. /\ pc' \in [Clients -> PCs] /\ \A u \in Clients \ {t} : pc'[u] = pc[u]
      /\ pc[t] = "body" /\ pc'[t] = "open"
      /\ mutex \in Clients \union {None} /\ visited \in [Clients -> Pointers]
      /\ UNCHANGED <<sessionVars, listVars, mutex, count, mine, after, visited, awaited>>
  BY DEF EndCall, Goto, Inv, TypeOK, PCs
<1>2. ~removedTwice /\ mine[t] # None => isRunning[mine[t]]
  BY <1>1 DEF Inv, Sound, ClientOK
<1>3. Active(t)
  BY <1>1 DEF Active
<1> QED
  BY <1>1, <1>2, <1>3, MoveInv DEF Visiting

\* A client closes its session: if it was submitted, it runs.
LEMMA CloseSessionInv ==
  ASSUME Inv, GoesOn, NEW t \in Clients, CloseSession(t)
  PROVE  Inv'
<1> USE DEF GoesOn
<1> DEFINE s == mine[t]
<1>s. /\ s \in 1..allocated /\ s \in Sessions /\ pc[t] = "open"
      /\ \A u \in Clients \ {t} : mine[u] # s
      /\ 1..allocated \subseteq Sessions
  BY WherePointersLead DEF CloseSession, Inv, TypeOK, OwnOK
<1>0. /\ UNCHANGED <<allocated, isSubmitted, isRunning, nullCall, made, first, last,
                     next, previous, queue, removedTwice, mutex, count, awaited>>
      /\ isOpen' = [isOpen EXCEPT ![s] = FALSE]
      /\ mine' = [mine EXCEPT ![t] = None]
  BY DEF CloseSession, listVars
<1>o. /\ isOpen' \in [Sessions -> BOOLEAN] /\ ~isOpen'[s]
      /\ \A x \in Sessions \ {s} : isOpen'[x] = isOpen[x]
  BY <1>0, <1>s DEF Inv, TypeOK
<1>m. /\ mine' \in [Clients -> Pointers] /\ mine'[t] = None
      /\ \A u \in Clients \ {t} : mine'[u] = mine[u]
  BY <1>0 DEF Inv, TypeOK, Pointers
<1>p. /\ pc' \in [Clients -> PCs] /\ \A u \in Clients \ {t} : pc'[u] = pc[u]
      /\ pc'[t] \in {"relock", "unlink", "out"}
      /\ pc'[t] = "unlink" => isSubmitted[s] /\ visited'[t] = s
      /\ pc'[t] # "out" => after'[t] = "out"
      /\ after' \in [Clients -> {"out", "await"}]
      /\ visited' \in [Clients -> Pointers]
      /\ \A u \in Clients \ {t} : after'[u] = after[u] /\ visited'[u] = visited[u]
      /\ freed \subseteq freed' /\ freed' \subseteq freed \union {s}
  BY <1>s DEF CloseSession, Goto, Inv, TypeOK, PCs, Pointers
<1>1. TypeOK'
  <2>1. \A u \in Clients :
          /\ pc'[u] \in {"open", "count", "submit", "await", "body"} => mine'[u] # None
          /\ pc'[u] \in {"execute", "check", "unlink", "free"} => visited'[u] # None
    BY <1>0, <1>p, <1>m, <1>s DEF CloseSession, Inv, TypeOK
  <2>2. freed' \subseteq 1..allocated'
    BY <1>0, <1>p, <1>s DEF Inv, TypeOK
  <2>3. Pointers' = Pointers
    BY <1>0 DEF Pointers
  <2> QED
    BY <2>1, <2>2, <2>3, <1>0, <1>p, <1>o, <1>m DEF Inv, TypeOK
<1>2. ASSUME NEW u \in Clients PROVE OwnOK(u)'
  <2>1. CASE u = t
    BY <2>1, <1>p, <1>m, <1>o DEF OwnOK, Active, HousePCs
  <2>2. CASE u # t
    <3>1. mine[u] # s /\ (mine[u] # None => mine[u] \in Sessions)
      BY <2>2, <1>s, WherePointersLead
    <3>2. mine[u] # None => isOpen'[mine[u]] = isOpen[mine[u]]
      BY <3>1, <1>o
    <3>3. pc[u] \in {"unlink", "free"} => visited[u] \in Sessions
      BY WherePointersLead DEF Visiting
    <3>4. pc[u] \in {"unlink", "free"} => ~isOpen'[visited[u]]
      BY <3>3, <1>o DEF Inv, OwnOK
    <3> QED
      BY <2>2, <3>1, <3>2, <3>4, <1>0, <1>p, <1>m DEF Inv, OwnOK, Active
  <2> QED
    BY <2>1, <2>2
<1>3. ASSUME ~removedTwice PROVE Sound'
  <2> USE <1>3
  <2>r. isSubmitted[s] => isRunning[s]
    BY <1>s, NoneAssumption DEF Inv, Sound, TypeOK, ClientOK
  <2>1. QueueOK' /\ ListOK'
    BY <1>0 DEF Inv, Sound, QueueOK, ListOK
  <2>2. Counted'
    BY <1>0, <1>p, <1>s, CountedKept DEF Inv, Sound
  <2>3. ASSUME NEW u \in Clients PROVE ClientOK(u)'
    BY <1>0, <1>p, <1>m DEF Inv, Sound, ClientOK, InQueue
  <2>4. ASSUME NEW u \in Clients PROVE VisitOK(u)'
    BY <2>r, <1>0, <1>p, <1>s DEF Inv, Sound, VisitOK, Visiting
  <2> QED
    BY <2>1, <2>2, <2>3, <2>4 DEF Sound
<1> QED
  BY <1>0, <1>1, <1>2, <1>3 DEF Inv

\* The steps of the housekeeping that only move on.
LEMMA RelockInv ==
  ASSUME Inv, GoesOn, NEW t \in Clients, Relock(t) \/ CheckOpen(t) \/ LeaveLoop(t)
  PROVE  Inv'
<1>1. /\ pc' \in [Clients -> PCs] /\ \A u \in Clients \ {t} : pc'[u] = pc[u] /\ visited'[u] = visited[u]
      /\ mutex' \in Clients \union {None}
      /\ visited' \in [Clients -> Pointers]
      /\ UNCHANGED <<sessionVars, listVars, count, mine, after, awaited>>
  BY DEF Relock, CheckOpen, LeaveLoop, Goto, Inv, TypeOK, PCs, Pointers
<1>2. /\ pc[t] \in {"relock", "check", "leave"}
      /\ pc'[t] \in {"scan", "unlink", "leave", "out", "await"}
      /\ pc'[t] = "unlink" => pc[t] = "check" /\ ~isOpen[visited[t]] /\ visited'[t] = visited[t]
      /\ pc'[t] \in {"out", "await"} => pc'[t] = after[t]
  BY DEF Relock, CheckOpen, LeaveLoop, Goto, Inv, TypeOK, PCs, Finished
<1>3. Active(t)' => Active(t)
  BY <1>1, <1>2 DEF Active, HousePCs
<1> QED
  BY <1>1, <1>2, <1>3, MoveInv DEF Visiting

\* The first session is marked as the one that runs.
LEMMA ScanInv ==
  ASSUME Inv, GoesOn, NEW t \in Clients, Scan(t)
  PROVE  Inv'
<1> USE DEF GoesOn
<1>1. CASE first = None
  <2>1. /\ pc' \in [Clients -> PCs] /\ \A u \in Clients \ {t} : pc'[u] = pc[u]
        /\ pc[t] = "scan" /\ pc'[t] = after[t] /\ after[t] \in {"out", "await"}
        /\ mutex' \in Clients \union {None} /\ visited \in [Clients -> Pointers]
        /\ UNCHANGED <<sessionVars, listVars, count, mine, after, visited, awaited>>
    BY <1>1 DEF Scan, Goto, Inv, TypeOK, PCs, sessionVars
  <2>2. Active(t)' => Active(t)
    BY <2>1 DEF Active, HousePCs
  <2> QED
    BY <2>1, <2>2, MoveInv DEF Visiting
<1>2. CASE first # None
  <2>h. first \in 1..allocated /\ first \in Sessions
    BY <1>2, WherePointersLead DEF Inv, TypeOK
  <2>0. UNCHANGED <<allocated, freed, isOpen, isSubmitted, nullCall, made, first, last,
                    next, previous, queue, removedTwice, count, mine, after, awaited>>
    BY DEF Scan, listVars
  <2>s. /\ pc[t] = "scan" /\ mutex' = None /\ isRunning' = [isRunning EXCEPT ![first] = TRUE]
        /\ visited' = [visited EXCEPT ![t] = first] /\ pc' = [pc EXCEPT ![t] = "execute"]
    BY <1>2 DEF Scan, Goto
  <2>p. /\ pc' \in [Clients -> PCs] /\ \A u \in Clients \ {t} : pc'[u] = pc[u]
        /\ pc[t] = "scan" /\ pc'[t] = "execute" /\ mutex' = None
        /\ visited' \in [Clients -> Pointers] /\ visited'[t] = first
        /\ \A u \in Clients \ {t} : visited'[u] = visited[u]
        /\ isRunning' \in [Sessions -> BOOLEAN] /\ isRunning'[first]
        /\ \A x \in Sessions \ {first} : isRunning'[x] = isRunning[x]
    BY <2>s, <2>h DEF Inv, TypeOK, PCs, Pointers
  <2>1. TypeOK'
    <3>1. \A u \in Clients :
            /\ pc'[u] \in {"open", "count", "submit", "await", "body"} => mine'[u] # None
            /\ pc'[u] \in {"execute", "check", "unlink", "free"} => visited'[u] # None
      BY <1>2, <2>0, <2>p DEF Inv, TypeOK
    <3>2. Pointers' = Pointers
      BY <2>0 DEF Pointers
    <3> QED
      BY <3>1, <3>2, <2>0, <2>p DEF Inv, TypeOK
  <2>2. ASSUME NEW u \in Clients PROVE OwnOK(u)'
    <3>1. CASE u = t
      BY <3>1, <2>0, <2>p DEF Inv, OwnOK, Active, HousePCs
    <3>2. CASE u # t
      BY <3>2, <2>0, <2>p DEF Inv, OwnOK, Active
    <3> QED
      BY <3>1, <3>2
  <2>3. ASSUME ~removedTwice PROVE Sound'
    <3> USE <2>3
    <3>q. /\ queue \in Seq(1..allocated) /\ queue # << >>
          /\ 1 \in 1..Len(queue) /\ first = queue[1] /\ isSubmitted[first]
      <4>1. queue \in Seq(1..allocated) /\ queue # << >> /\ first = queue[1]
        BY <1>2 DEF Inv, Sound, ListOK, TypeOK
      <4>2. 1 \in 1..Len(queue)
        BY <4>1
      <4> QED
        BY <4>1, <4>2 DEF Inv, Sound, QueueOK
    <3>1. QueueOK'
      <4>1. ASSUME NEW i \in 1..Len(queue), isRunning'[queue[i]] PROVE i = 1
        <5>1. CASE queue[i] = first
          BY <5>1, <3>q DEF Inv, Sound, QueueOK, Distinct
        <5>2. CASE queue[i] # first
          <6>1. queue[i] \in Sessions
            BY WherePointersLead
          <6> QED
            BY <4>1, <5>2, <6>1, <2>p DEF Inv, Sound, QueueOK
        <5> QED
          BY <5>1, <5>2
      <4>2. \A x \in Sessions : isRunning'[x] => isSubmitted[x]
        BY <2>p, <2>h, <3>q DEF Inv, Sound, QueueOK
      <4> QED
        BY <4>1, <4>2, <2>0 DEF Inv, Sound, QueueOK
    <3>2. ListOK'
      BY <2>0 DEF Inv, Sound, ListOK
    <3>3. Counted'
      BY <2>0, <2>p, CountedKept DEF Inv, Sound
    <3>r. \A x \in Sessions : isRunning[x] => isRunning'[x]
      BY <2>p
    <3>4. ASSUME NEW u \in Clients PROVE ClientOK(u)'
      <4>1. mine[u] # None => mine[u] \in Sessions
        BY WherePointersLead
      <4> QED
        BY <4>1, <3>r, <2>0, <2>p DEF Inv, Sound, ClientOK, InQueue
    <3>5. ASSUME NEW u \in Clients PROVE VisitOK(u)'
      <4>1. pc[u] \in Visiting => visited[u] \in Sessions
        BY WherePointersLead
      <4> QED
        BY <4>1, <3>r, <2>0, <2>p DEF Inv, Sound, VisitOK
    <3> QED
      BY <3>1, <3>2, <3>3, <3>4, <3>5 DEF Sound
  <2> QED
    BY <2>0, <2>1, <2>2, <2>3 DEF Inv
<1> QED
  BY <1>1, <1>2

\* The null call of the visited session is executed.
LEMMA ExecuteInv ==
  ASSUME Inv, GoesOn, NEW t \in Clients, Execute(t)
  PROVE  Inv'
<1> USE DEF GoesOn
<1> DEFINE s == visited[t]
<1>s. s \in 1..allocated /\ s \in Sessions /\ pc[t] = "execute"
  BY WherePointersLead DEF Execute, Visiting
<1>1. CASE ~nullCall[s]
  <2>1. /\ pc' \in [Clients -> PCs] /\ \A u \in Clients \ {t} : pc'[u] = pc[u]
        /\ pc[t] = "execute" /\ pc'[t] = "check"
        /\ mutex \in Clients \union {None} /\ visited \in [Clients -> Pointers]
        /\ UNCHANGED <<sessionVars, listVars, mutex, count, mine, after, visited, awaited>>
    BY <1>1 DEF Execute, Goto, Inv, TypeOK, PCs, sessionVars
  <2>2. Active(t)' => Active(t)
    BY <2>1 DEF Active, HousePCs
  <2> QED
    BY <2>1, <2>2, MoveInv DEF Visiting
<1>2. CASE nullCall[s]
  <2>0. /\ UNCHANGED <<allocated, freed, isOpen, isSubmitted, isRunning, made, first, last,
                       next, previous, queue, removedTwice, mutex, count, mine, after,
                       visited, pc>>
        /\ nullCall' \in [Sessions -> BOOLEAN]
        /\ awaited' = [c \in Clients |-> awaited[c] /\ mine[c] # s]
    BY <1>2, <1>s DEF Execute, Inv, TypeOK, listVars
  <2>1. TypeOK'
    <3>1. awaited' \in [Clients -> BOOLEAN] /\ Pointers' = Pointers
      BY <2>0 DEF Inv, TypeOK, Pointers
    <3> QED
      BY <3>1, <2>0 DEF Inv, TypeOK
  <2>2. ASSUME NEW u \in Clients PROVE OwnOK(u)'
    BY <2>0 DEF Inv, OwnOK, Active
  <2>3. ASSUME ~removedTwice PROVE Sound'
    <3> USE <2>3
    <3>1. QueueOK' /\ ListOK'
      BY <2>0 DEF Inv, Sound, QueueOK, ListOK
    <3>2. Counted'
      BY <2>0, CountedKept DEF Inv, Sound
    <3>3. ASSUME NEW u \in Clients PROVE ClientOK(u)' /\ VisitOK(u)'
      <4>1. isRunning[s]
        BY <1>s DEF Inv, Sound, VisitOK, Visiting
      <4>2. awaited[u] => awaited'[u] \/ isRunning[mine[u]]
        BY <2>0, <4>1
      <4> QED
        BY <4>2, <2>0 DEF Inv, Sound, ClientOK, InQueue, VisitOK
    <3> QED
      BY <3>1, <3>2, <3>3 DEF Sound
  <2> QED
    BY <2>0, <2>1, <2>2, <2>3 DEF Inv
<1> QED
  BY <1>1, <1>2

\* A closed session is unlinked.  When it is in the queue it is the first one,
\* and the rest of the list stays as it is; when it is not, it is removed a
\* second time.
LEMMA UnlinkInv ==
  ASSUME Inv, GoesOn, NEW t \in Clients, Unlink(t)
  PROVE  Inv'
<1> USE DEF GoesOn
<1> DEFINE s == visited[t]
           S == 1..allocated
<1>0. UNCHANGED <<allocated, freed, isOpen, isSubmitted, isRunning, nullCall, made,
                  mutex, count, mine, after, visited, awaited>>
  BY DEF Unlink, sessionVars
<1>s. /\ s \in S /\ s \in Sessions /\ s # None /\ ~isOpen[s] /\ pc[t] = "unlink"
      /\ queue \in Seq(S)
  BY WherePointersLead DEF Unlink, Inv, OwnOK, TypeOK, Visiting
<1>p. /\ pc' \in [Clients -> PCs] /\ \A u \in Clients \ {t} : pc'[u] = pc[u]
      /\ pc'[t] = "free"
  BY DEF Unlink, Goto, Inv, TypeOK, PCs
<1>l. /\ first' \in Pointers /\ last' \in Pointers
      /\ next' \in [Sessions -> Pointers] /\ previous' \in [Sessions -> Pointers]
  <2>1. next[s] \in Pointers /\ previous[s] \in Pointers
    BY <1>s DEF Inv, TypeOK
  <2> QED
    BY <2>1 DEF Unlink, Inv, TypeOK
<1>q. /\ removedTwice' \in BOOLEAN /\ (removedTwice => removedTwice')
      /\ ~removedTwice' => InQueue(s) /\ queue' = Without(queue, s)
      /\ ~InQueue(s) => queue' = queue
      /\ InQueue(s) => queue' = Without(queue, s)
  BY DEF Unlink, Inv, TypeOK
<1>1. TypeOK'
  <2>1. \A u \in Clients :
          /\ pc'[u] \in {"open", "count", "submit", "await", "body"} => mine'[u] # None
          /\ pc'[u] \in {"execute", "check", "unlink", "free"} => visited'[u] # None
    BY <1>0, <1>p, <1>s DEF Inv, TypeOK
  <2>2. Pointers' = Pointers
    BY <1>0 DEF Pointers
  <2>3. queue' \in Seq(S)
    <3>1. ASSUME InQueue(s) PROVE queue' \in Seq(S)
      <4>1. PICK i \in 1..Len(queue) : queue[i] = s
        BY <3>1 DEF InQueue
      <4>2. queue' = Without(queue, s)
        BY <3>1, <1>q
      <4> HIDE DEF S, s
      <4> QED
        BY <4>1, <4>2, <1>s DEF Without
    <3> QED
      BY <3>1, <1>q, <1>s
  <2> QED
    BY <2>1, <2>2, <2>3, <1>0, <1>p, <1>l, <1>q DEF Inv, TypeOK
<1>2. ASSUME NEW u \in Clients PROVE OwnOK(u)'
  <2>1. CASE u = t
    BY <2>1, <1>0, <1>p, <1>s DEF Inv, OwnOK, Active, HousePCs
  <2>2. CASE u # t
    BY <2>2, <1>0, <1>p DEF Inv, OwnOK, Active
  <2> QED
    BY <2>1, <2>2
<1>3. ASSUME ~removedTwice' PROVE Sound'
  <2> USE <1>3
  <2>n. ~removedTwice /\ Sound /\ Distinct(queue) /\ isRunning[s]
    BY <1>q, <1>s DEF Inv, Sound, VisitOK, Visiting, QueueOK
  <2>f. queue # << >> /\ s = queue[1] /\ queue' = Without(queue, queue[1])
        /\ Len(queue) \in Nat \ {0}
    <3>1. PICK i \in 1..Len(queue) : queue[i] = s
      BY <1>q DEF InQueue
    <3>2. i = 1
      BY <3>1, <2>n DEF Sound, QueueOK
    <3> QED
      BY <3>1, <3>2, <1>q, <1>s
  <2>q. /\ queue' \in Seq(S) /\ Len(queue') = Len(queue) - 1
        /\ \A i \in 1..Len(queue') : queue'[i] = queue[i+1]
        /\ Distinct(queue')
    <3> HIDE DEF s, S
    <3> QED
      BY <1>s, <2>n, <2>f, WithoutFirstIs
  <2>1. QueueOK'
    <3>1. ASSUME NEW i \in 1..Len(queue')
          PROVE  isSubmitted[queue'[i]] /\ ~isRunning[queue'[i]]
      <4>1. i + 1 \in 2..Len(queue) /\ queue'[i] = queue[i+1]
        BY <2>q, <2>f
      <4> QED
        BY <4>1, <2>n, <2>f DEF Sound, QueueOK
    <3> QED
      BY <3>1, <1>0, <2>n, <2>q DEF Sound, QueueOK
  <2>2. ListOK'
    <3> DEFINE n == Len(queue)
    <3>1. /\ previous[s] = None /\ first' = next[s] /\ next' = next
          /\ next[s] = IF n = 1 THEN None ELSE queue[2]
      <4>1. 1 \in 1..n
        BY <2>f
      <4>2. previous[s] = None /\ next[s] = IF n = 1 THEN None ELSE queue[2]
        <5>1. /\ next[queue[1]] = IF 1 = Len(queue) THEN None ELSE queue[1+1]
              /\ previous[queue[1]] = None
          BY <4>1, <2>n DEF Sound, ListOK
        <5> QED
          BY <5>1, <2>f
      <4> QED
        BY <4>2 DEF Unlink
    <3>2. CASE n = 1
      <4>1. first' = None /\ last' = None /\ previous' = previous
        BY <3>1, <3>2 DEF Unlink
      <4>2. queue' = << >> /\ Len(queue') = 0
        BY <3>2, <2>q
      <4> QED
        BY <4>1, <4>2, <3>1, <1>0, <2>n DEF Sound, ListOK
    <3>3. CASE n # 1
      <4>1. n \in Nat /\ n > 1 /\ queue[2] \in S /\ queue[2] \in Sessions /\ queue[2] # None
        <5>1. n \in Nat /\ n > 1 /\ 2 \in 1..Len(queue)
          <6>1. Len(queue) \in Nat \ {0} /\ Len(queue) # 1
            BY <3>3, <2>f
          <6>2. \A m \in Nat \ {0} : m # 1 => m > 1 /\ 2 \in 1..m
            OBVIOUS
          <6> QED
            BY <6>1, <6>2
        <5>2. queue[2] \in S /\ queue[2] \in Sessions
          BY <5>1, WherePointersLead
        <5>3. queue[2] \in Nat
          BY <5>2, BoundsAssumption DEF Sessions
        <5> QED
          BY <5>1, <5>2, <5>3, NoneAssumption
      <4>2. /\ first' = queue[2] /\ last' = last /\ last = queue[n]
            /\ previous' = [previous EXCEPT ![queue[2]] = None]
        BY <3>1, <3>3, <4>1, <2>f, <2>n DEF Unlink, Sound, ListOK
      <4>3. /\ previous'[queue[2]] = None
            /\ \A x \in Sessions \ {queue[2]} : previous'[x] = previous[x]
        BY <4>1, <4>2 DEF Inv, TypeOK
      <4>4. /\ Len(queue') = n - 1 /\ n - 1 \in Nat /\ queue' # << >>
            /\ first' = queue'[1] /\ last' = queue'[n-1]
        BY <4>1, <4>2, <2>q
      <4>5. ASSUME NEW i \in 1..(n - 1)
            PROVE  /\ next'[queue'[i]] = IF i = n - 1 THEN None ELSE queue'[i+1]
                   /\ previous'[queue'[i]] = IF i = 1 THEN None ELSE queue'[i-1]
        <5>1. i + 1 \in 2..n /\ queue'[i] = queue[i+1] /\ i + 1 \in 1..Len(queue)
          BY <4>1, <4>4, <2>q
        <5>2. next[queue[i+1]] = IF i + 1 = n THEN None ELSE queue[i+2]
          BY <5>1, <2>n DEF Sound, ListOK
        <5>3. next'[queue'[i]] = IF i = n - 1 THEN None ELSE queue'[i+1]
          BY <5>1, <5>2, <3>1, <4>1, <4>4, <2>q
        <5>4. CASE i = 1
          BY <5>1, <5>3, <5>4, <4>3
        <5>5. CASE i # 1
          <6>1. queue[i+1] # queue[2] /\ queue[i+1] \in Sessions
            BY <5>1, <5>5, <4>1, <2>n, WherePointersLead DEF Distinct
          <6>2. previous[queue[i+1]] = queue[i]
            BY <5>1, <2>n DEF Sound, ListOK
          <6>3. queue[i] = queue'[i-1]
            BY <5>5, <4>1, <4>4, <2>q
          <6> QED
            BY <5>1, <5>3, <5>5, <6>1, <6>2, <6>3, <4>3
        <5> QED
          BY <5>4, <5>5
      <4>6. \A x \in Sessions : ~isSubmitted'[x] => next'[x] = None /\ previous'[x] = None
        BY <1>0, <3>1, <4>3, <2>n DEF Sound, ListOK
      <4> QED
        BY <4>4, <4>5, <4>6 DEF ListOK
    <3> QED
      BY <3>2, <3>3
  <2>3. Counted'
    <3>1. /\ Len(queue) \in Nat /\ Len(queue') \in Nat
          /\ count' - Len(queue') = count - Len(queue) + 1 /\ count \in Nat /\ count' \in Nat
          /\ Counted
      BY <1>0, <2>n, <2>f, <2>q DEF Inv, Sound, TypeOK
    <3> QED
      BY <3>1, <1>p, <1>s, CountedIn
  <2>4. ASSUME NEW u \in Clients PROVE ClientOK(u)'
    <3>1. mine[u] # None /\ isSubmitted[mine[u]] => InQueue(mine[u])'
      <4> SUFFICES ASSUME mine[u] # None, isSubmitted[mine[u]] PROVE InQueue(mine[u])'
        OBVIOUS
      <4>1. PICK i \in 1..Len(queue) : queue[i] = mine[u]
        BY <2>n DEF Sound, ClientOK, InQueue
      <4>2. mine[u] # s
        BY <1>s DEF Inv, OwnOK
      <4>3. i - 1 \in 1..Len(queue') /\ queue'[i-1] = mine[u]
        BY <4>1, <4>2, <2>f, <2>q
      <4> QED
        BY <4>3, <1>0 DEF InQueue
    <3> QED
      BY <3>1, <1>0, <1>p, <1>s, <2>n DEF Sound, ClientOK
  <2>5. ASSUME NEW u \in Clients PROVE VisitOK(u)'
    BY <1>0, <1>p, <1>s, <2>n DEF Sound, VisitOK, Visiting
  <2> QED
    BY <2>1, <2>2, <2>3, <2>4, <2>5 DEF Sound
<1> QED
  BY <1>1, <1>2, <1>3 DEF Inv

\* A removed session is freed: it is closed, so no client has it.
LEMMA FreeInv ==
  ASSUME Inv, GoesOn, NEW t \in Clients, Free(t)
  PROVE  Inv'
<1> USE DEF GoesOn
<1> DEFINE s == visited[t]
<1>0. UNCHANGED <<allocated, isOpen, isSubmitted, isRunning, nullCall, made, first, last,
                  next, previous, queue, removedTwice, mutex, mine, after, awaited>>
  BY DEF Free, listVars
<1>s. s \in 1..allocated /\ ~isOpen[s] /\ pc[t] = "free" /\ freed' = freed \union {s}
  BY WherePointersLead DEF Free, Inv, OwnOK, Visiting
<1>p. /\ pc' \in [Clients -> PCs] /\ \A u \in Clients \ {t} : pc'[u] = pc[u]
      /\ pc'[t] = "relock"
      /\ visited' \in [Clients -> Pointers]
      /\ \A u \in Clients \ {t} : visited'[u] = visited[u]
      /\ count \in Nat /\ count' \in Nat /\ (count > 0 => count' = count - 1)
      /\ queue \in Seq(1..allocated)
  BY DEF Free, AfterRemoval, Goto, Inv, TypeOK, PCs, Pointers
<1>1. TypeOK'
  <2>1. \A u \in Clients :
          /\ pc'[u] \in {"open", "count", "submit", "await", "body"} => mine'[u] # None
          /\ pc'[u] \in {"execute", "check", "unlink", "free"} => visited'[u] # None
    BY <1>0, <1>p, <1>s DEF Inv, TypeOK
  <2>2. Pointers' = Pointers
    BY <1>0 DEF Pointers
  <2> QED
    BY <2>1, <2>2, <1>0, <1>p, <1>s DEF Inv, TypeOK
<1>2. ASSUME NEW u \in Clients PROVE OwnOK(u)'
  <2>1. mine[u] # None => mine[u] # s
    BY <1>s DEF Inv, OwnOK
  <2>2. CASE u = t
    BY <2>1, <2>2, <1>0, <1>p, <1>s DEF Inv, OwnOK, Active, HousePCs
  <2>3. CASE u # t
    BY <2>1, <2>3, <1>0, <1>p, <1>s DEF Inv, OwnOK, Active
  <2> QED
    BY <2>2, <2>3
<1>3. ASSUME ~removedTwice PROVE Sound'
  <2> USE <1>3
  <2>1. QueueOK' /\ ListOK'
    BY <1>0 DEF Inv, Sound, QueueOK, ListOK
  <2>2. Counted'
    <3>1. /\ Len(queue) \in Nat /\ Len(queue') = Len(queue)
          /\ Counted /\ count \in Nat /\ count' \in Nat
      BY <1>0, <1>p DEF Inv, Sound
    <3>2. count > 0 => count' - Len(queue') = count - Len(queue) - 1
      BY <3>1, <1>p
    <3> QED
      BY <3>1, <3>2, <1>p, <1>s, CountedOut
  <2>3. ASSUME NEW u \in Clients PROVE ClientOK(u)' /\ VisitOK(u)'
    <3>1. CASE u = t
      BY <3>1, <1>0, <1>p, <1>s DEF Inv, Sound, ClientOK, InQueue, VisitOK, Visiting
    <3>2. CASE u # t
      BY <3>2, <1>0, <1>p DEF Inv, Sound, ClientOK, InQueue, VisitOK
    <3> QED
      BY <3>1, <3>2
  <2> QED
    BY <2>1, <2>2, <2>3 DEF Sound
<1> QED
  BY <1>0, <1>1, <1>2, <1>3 DEF Inv

\* Nothing else changes when the process dies.
LEMMA DieInv ==
  ASSUME Inv, NEW t \in Clients, Die(t)
  PROVE  Inv'
<1> USE DEF Die, sessionVars, listVars, clientVars
<1>1. TypeOK'
  BY DEF Inv, TypeOK, Pointers
<1>2. \A u \in Clients : OwnOK(u)'
  BY DEF Inv, OwnOK, Active
<1>3. ASSUME ~removedTwice PROVE Sound'
  <2> USE <1>3
  <2>1. QueueOK' /\ ListOK'
    BY DEF Inv, Sound, QueueOK, ListOK
  <2>2. Counted'
    BY CountedKept DEF Inv, Sound
  <2>3. \A u \in Clients : ClientOK(u)' /\ VisitOK(u)'
    BY DEF Inv, Sound, ClientOK, VisitOK, InQueue
  <2> QED
    BY <2>1, <2>2, <2>3 DEF Sound
<1> QED
  BY <1>1, <1>2, <1>3 DEF Inv

\* Nothing happens.
LEMMA StutterInv == Inv /\ UNCHANGED vars => Inv'
<1> SUFFICES ASSUME Inv, UNCHANGED vars PROVE Inv'
  OBVIOUS
<1> USE DEF vars, sessionVars, listVars, clientVars
<1>1. TypeOK'
  BY DEF Inv, TypeOK, Pointers
<1>2. \A u \in Clients : OwnOK(u)'
  BY DEF Inv, OwnOK, Active
<1>3. ASSUME ~removedTwice PROVE Sound'
  <2> USE <1>3
  <2>1. QueueOK' /\ ListOK'
    BY DEF Inv, Sound, QueueOK, ListOK
  <2>2. Counted'
    BY CountedKept DEF Inv, Sound
  <2>3. \A u \in Clients : ClientOK(u)' /\ VisitOK(u)'
    BY DEF Inv, Sound, ClientOK, VisitOK, InQueue
  <2> QED
    BY <2>1, <2>2, <2>3 DEF Sound
<1> QED
  BY <1>1, <1>2, <1>3 DEF Inv

\* It holds at first.
LEMMA InitInv == Init => Inv
<1> SUFFICES ASSUME Init PROVE Inv
  OBVIOUS
<1> USE BoundsAssumption DEF Init
<1>1. TypeOK
  <2>1. queue \in Seq(1..allocated)
    OBVIOUS
  <2>2. freed \subseteq 1..allocated /\ allocated \in 0..MaxSessions
    OBVIOUS
  <2>3. /\ isOpen \in [Sessions -> BOOLEAN] /\ isSubmitted \in [Sessions -> BOOLEAN]
        /\ isRunning \in [Sessions -> BOOLEAN] /\ nullCall \in [Sessions -> BOOLEAN]
        /\ awaited \in [Clients -> BOOLEAN] /\ removedTwice \in BOOLEAN
        /\ execution \in {"defined", "undefined", "dead"}
    OBVIOUS
  <2>4. /\ mine \in [Clients -> Pointers] /\ visited \in [Clients -> Pointers]
        /\ next \in [Sessions -> Pointers] /\ previous \in [Sessions -> Pointers]
        /\ first \in Pointers /\ last \in Pointers
        /\ after \in [Clients -> {"out", "await"}]
        /\ pc \in [Clients -> PCs]
    BY DEF PCs, Pointers
  <2>5. made \in 0..MaxCalls /\ mutex \in Clients \union {None} /\ count \in Nat
    OBVIOUS
  <2>6. \A t \in Clients : pc[t] = "out"
    OBVIOUS
  <2> QED
    BY <2>1, <2>2, <2>3, <2>4, <2>5, <2>6 DEF TypeOK
<1>2. \A t \in Clients : OwnOK(t)
  BY DEF OwnOK, Active, HousePCs
<1>3. Sound
  <2>1. QueueOK /\ ListOK
    BY DEF QueueOK, ListOK, Distinct
  <2>2. Counted
    <3>1. Between = {}
      BY DEF Between
    <3> QED
      BY <3>1, FS_EmptySet DEF Counted
  <2>3. \A t \in Clients : ClientOK(t) /\ VisitOK(t)
    BY DEF ClientOK, VisitOK, Visiting
  <2> QED
    BY <2>1, <2>2, <2>3 DEF Sound
<1> QED
  BY <1>1, <1>2, <1>3 DEF Inv

\* It is an invariant.
LEMMA SpecInv == Spec => []Inv
<1>1. Inv /\ [Next]_vars => Inv'
  <2> SUFFICES ASSUME Inv, [Next]_vars PROVE Inv'
    OBVIOUS
  <2>1. ASSUME NEW t \in Clients, Thread(t) PROVE Inv'
    <3>1. CASE Die(t)
      BY <3>1, DieInv
    <3>2. CASE Step(t) /\ execution' = IF UsesFreed(t) THEN "undefined" ELSE execution
      <4>1. GoesOn
        BY <3>2 DEF GoesOn, Inv, TypeOK
      <4> QED
        BY <3>2, <4>1, OpenSessionInv, CallInv, CountSessionInv, SubmitSessionInv,
           NullCallDoneInv, EndCallInv, CloseSessionInv, RelockInv, ScanInv,
           ExecuteInv, UnlinkInv, FreeInv DEF Step, Housekeeping
    <3> QED
      BY <2>1, <3>1, <3>2 DEF Thread
  <2> QED
    BY <2>1, StutterInv DEF Next, Finish
<1> QED
  BY <1>1, InitInv, PTL DEF Spec

\* The variables of the passive region, its list, its sessions and its clients
\* stay in their domains, whatever removals do to the list: no null session is
\* used.
THEOREM PassiveTypeOK == Spec => []TypeOK
<1>1. Inv => TypeOK
  BY DEF Inv
<1> QED
  BY <1>1, SpecInv, PTL

\* Whichever threads do the housekeeping, two clients never execute code of the
\* passive region at the same time as long as no session was removed twice: a
\* client that executes a call has the first session of the list.
THEOREM PassiveExclusiveBodies == Spec => []ExclusiveBodies
<1>1. Inv => ExclusiveBodies
  <2> SUFFICES ASSUME Inv, ~removedTwice, NEW t \in Clients, NEW u \in Clients,
                      pc[t] = "body", pc[u] = "body"
               PROVE  t = u
    BY DEF ExclusiveBodies, OneBody
  <2>1. ASSUME NEW v \in Clients, pc[v] = "body"
        PROVE  mine[v] # None /\ queue[1] = mine[v]
    <3>1. mine[v] # None /\ isRunning[mine[v]]
      BY <2>1 DEF Inv, Sound, TypeOK, ClientOK
    <3>2. mine[v] \in Sessions /\ isSubmitted[mine[v]]
      BY <3>1, WherePointersLead DEF Inv, Sound, QueueOK
    <3>3. PICK i \in 1..Len(queue) : queue[i] = mine[v]
      BY <3>1, <3>2 DEF Inv, Sound, ClientOK, InQueue
    <3> QED
      BY <3>1, <3>3 DEF Inv, Sound, QueueOK
  <2>2. mine[t] = mine[u] /\ mine[u] # None
    BY <2>1
  <2> QED
    BY <2>2 DEF Inv, OwnOK
<1> QED
  BY <1>1, SpecInv, PTL

\* The session count covers every queued session as long as none was removed
\* twice: it is the length of the queue and the number of threads that have
\* counted a session they have not queued yet, or removed one they have not
\* uncounted yet.
THEOREM PassiveQueuedIsCounted == Spec => []QueuedIsCounted
<1>1. Inv => QueuedIsCounted
  <2> SUFFICES ASSUME Inv, ~removedTwice PROVE Len(queue) <= count
    BY DEF QueuedIsCounted
  <2>1. Cardinality(Between) \in Nat /\ count = Len(queue) + Cardinality(Between)
    BY FS_CardinalityType DEF Inv, Sound, Counted
  <2>2. queue \in Seq(1..allocated)
    BY DEF Inv, TypeOK
  <2>3. Len(queue) \in Nat
    BY <2>2
  <2> QED
    BY <2>1, <2>3
<1> QED
  BY <1>1, SpecInv, PTL

\* Whoever removes sessions, the session of a client that waits or executes is
\* open and not freed, always; once it was submitted the links lead to it, until
\* a session is removed twice.
THEOREM PassiveRemovedIsFinished == Spec => []RemovedIsFinished
<1>1. Inv => RemovedIsFinished
  <2> SUFFICES ASSUME Inv, NEW t \in Clients,
                      pc[t] \in {"count", "submit", "await", "body"}
               PROVE  /\ mine[t] \notin freed /\ isOpen[mine[t]]
                      /\ isSubmitted[mine[t]] /\ ~removedTwice => InList(mine[t])
    BY DEF RemovedIsFinished
  <2>1. mine[t] # None
    BY DEF Inv, TypeOK
  <2>2. mine[t] \notin freed /\ isOpen[mine[t]]
    BY <2>1 DEF Inv, OwnOK
  <2>3. ASSUME isSubmitted[mine[t]], ~removedTwice PROVE InList(mine[t])
    <3>1. PICK i \in 1..Len(queue) : queue[i] = mine[t]
      BY <2>1, <2>3 DEF Inv, Sound, ClientOK, InQueue
    <3>2. queue \in Seq(1..allocated)
      BY DEF Inv, TypeOK
    <3>3. queue # << >> /\ i \in Nat /\ i <= Len(queue) /\ Len(queue) \in Nat
      BY <3>1, <3>2
    <3>4. first = queue[1]
      BY <2>3, <3>3 DEF Inv, Sound, ListOK
    <3>5. ASSUME NEW j \in 1..(i - 1) PROVE next[queue[j]] = queue[j+1]
      BY <2>3, <3>3 DEF Inv, Sound, ListOK
    <3> QED
      BY <3>1, <3>4, <3>5 DEF InList
  <2> QED
    BY <2>2, <2>3
<1> QED
  BY <1>1, SpecInv, PTL
=============================================================================
