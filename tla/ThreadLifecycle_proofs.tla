----------------------- MODULE ThreadLifecycle_proofs -----------------------
(***************************************************************************)
(* Theorems about ThreadLifecycle, for any set of threads: who may use a   *)
(* context, who frees it, and what a join waits for.  They all rest on the *)
(* fact that n_children is the number of children that still have to go    *)
(* through the section on the mutex of their parent.                       *)
(***************************************************************************)
EXTENDS ThreadLifecycle, FiniteSetTheorems, TLAPS

\* The children of the thread t that are counted and have not left.
Kids(t) == {c \in Threads : parent[c] = t /\ ~isProcessor[c] /\ pc[c] # "freeParent"}

Counts(t) == IsFiniteSet(Kids(t)) /\ nChildren[t] = Cardinality(Kids(t))

\* A thread in one of these places uses its own context.
Live == {"starting", "running", "checking", "waiting", "exiting", "freeParent",
         "own", "free"}

\* A thread that was not created has no parent, and a thread knows its parent
\* until it exits.
ParentKnown(c) ==
  /\ pc[c] = "unborn" => parent[c] = None /\ ~isProcessor[c]
  /\ parent[c] # None =>
       /\ pc[c] \in {"starting", "running", "checking", "waiting", "exiting", "freeParent"}
       /\ parent[c] # c /\ pc[parent[c]] # "unborn"
  /\ isProcessor[c] /\ pc[c] # "starting" => parent[c] = None

\* The context of the parent is there as long as the child may use it.
ParentThere(c) ==
  parent[c] # None /\ ~isProcessor[c] =>
    context[parent[c]] = "allocated" /\ childrenMutex[parent[c]] = "made"

\* The child that frees the context of its parent is the only one left.
FreesAlone(c) ==
  pc[c] = "freeParent" =>
    /\ parent[c] # None /\ ~isProcessor[c]
    /\ ~isAlive[parent[c]] /\ Kids(parent[c]) = {}
    /\ \A d \in Threads : pc[d] = "freeParent" /\ parent[d] = parent[c] => d = c

\* The context of a thread that is gone, or going, is there for a child.
ContextThere(t) ==
  /\ pc[t] \in Live => context[t] = "allocated"
  /\ ~isAlive[t] => pc[t] \in {"unborn", "outlived", "ended"}
  /\ pc[t] = "free" => Kids(t) = {}
  /\ pc[t] \in {"outlived", "ended"} /\ isAlive[t] => context[t] # "allocated"
  /\ pc[t] \in {"outlived", "ended"} /\ context[t] = "allocated" =>
       \E c \in Threads : parent[c] = t /\ ~isProcessor[c]

Types ==
  /\ pc \in [Threads -> PCs]
  /\ context \in [Threads -> {"none", "allocated", "freed"}]
  /\ isProcessor \in [Threads -> BOOLEAN]
  /\ parent \in [Threads -> Threads \union {None}]
  /\ childrenMutex \in [Threads -> {"none", "made", "destroyed"}]
  /\ nChildren \in [Threads -> Int]
  /\ isAlive \in [Threads -> BOOLEAN]

\* The inductive invariant.
Inv ==
  /\ Types
  /\ \A t \in Threads :
       Counts(t) /\ ParentKnown(t) /\ ParentThere(t) /\ FreesAlone(t) /\ ContextThere(t)

-----------------------------------------------------------------------------

\* An assignment to one element of a function keeps its type.
LEMMA ExceptType ==
  ASSUME NEW S, NEW T, NEW f \in [S -> T], NEW x \in S, NEW v \in T
  PROVE  [f EXCEPT ![x] = v] \in [S -> T]
  OBVIOUS

\* At the start the main thread is alone.
LEMMA InitInv == Init => Inv
<1> SUFFICES ASSUME Init PROVE Inv
  OBVIOUS
<1>1. Types
  BY ThreadsAssumption DEF Init, Types, PCs
<1>2. ASSUME NEW t \in Threads PROVE Kids(t) = {}
  BY <1>2, NoneAssumption DEF Init, Kids
<1>3. ASSUME NEW t \in Threads PROVE Counts(t)
  BY <1>2, <1>3, FS_EmptySet DEF Init, Counts
<1>4. ASSUME NEW t \in Threads
      PROVE ParentKnown(t) /\ ParentThere(t) /\ FreesAlone(t) /\ ContextThere(t)
  BY <1>2, <1>4 DEF Init, ParentKnown, ParentThere, FreesAlone, ContextThere, Live
<1>5. QED
  BY <1>1, <1>3, <1>4 DEF Inv

\* The new child is counted, unless it is a processor.
LEMMA LaunchInv ==
  ASSUME Inv, NEW t \in Threads, NEW c \in Threads, NEW processor \in BOOLEAN,
         Launch(t, c, processor)
  PROVE  Inv'
<1>1. Types /\ t # c /\ ParentKnown(c) /\ t # None /\ c # None
  BY NoneAssumption DEF Inv, Launch
<1>2. Types'
  <2>1. isProcessor' \in [Threads -> BOOLEAN] /\ isAlive' \in [Threads -> BOOLEAN]
    BY <1>1, ExceptType DEF Launch, Types
  <2>2. QED
    BY <1>1, <2>1 DEF Launch, Types, PCs, Counted
<1>3. ASSUME NEW u \in Threads
      PROVE Kids(u)' = IF u = t /\ ~processor THEN Kids(t) \union {c} ELSE Kids(u)
  <2>1. u # None
    BY NoneAssumption
  <2>2. \A x \in Threads \ {c} : /\ parent'[x] = parent[x] /\ pc'[x] = pc[x]
                              /\ isProcessor'[x] = isProcessor[x]
    BY <1>1 DEF Launch, Types
  <2>3. parent'[c] = t /\ isProcessor'[c] = processor /\ pc'[c] = "starting" /\ parent[c] = None
    BY <1>1 DEF Launch, Types, ParentKnown
  <2>4. QED
    BY <1>1, <2>1, <2>2, <2>3 DEF Kids
<1>4. c \notin Kids(t)
  BY <1>1 DEF Kids, ParentKnown, Launch
<1>5. ASSUME NEW u \in Threads PROVE Counts(u)'
  <2>1. Counts(u)
    BY DEF Inv
  <2>2. CASE u = t /\ ~processor
    <3>1. IsFiniteSet(Kids(u)) /\ nChildren[u] = Cardinality(Kids(u))
      BY <2>1 DEF Counts
    <3>2. IsFiniteSet(Kids(u) \union {c}) /\ Cardinality(Kids(u) \union {c}) = Cardinality(Kids(u)) + 1
      BY <1>4, <2>2, <3>1, FS_AddElement
    <3>3. nChildren'[u] = nChildren[u] + 1
      BY <1>1, <2>2 DEF Launch, Counted, Types
    <3>4. Kids(u)' = Kids(u) \union {c}
      BY <1>3, <2>2
    <3>5. QED
      BY <3>1, <3>2, <3>3, <3>4 DEF Counts
  <2>3. CASE ~(u = t /\ ~processor)
    <3>1. Kids(u)' = Kids(u)
      BY <1>3, <2>3
    <3>2. nChildren'[u] = nChildren[u]
      BY <1>1, <2>3 DEF Launch, Counted, Types
    <3>3. QED
      BY <2>1, <3>1, <3>2 DEF Counts
  <2>4. QED
    BY <2>2, <2>3
<1>6. ASSUME NEW u \in Threads PROVE ParentKnown(u)'
  <2>1. ParentKnown(u)
    BY DEF Inv
  <2>2. QED
    BY <1>1, <2>1 DEF Launch, ParentKnown, Types
<1>7. ASSUME NEW u \in Threads PROVE ParentThere(u)'
  <2>1. ParentThere(u) /\ ParentKnown(u) /\ ContextThere(t)
    BY DEF Inv
  <2>2. QED
    BY <1>1, <2>1 DEF Launch, ParentThere, ParentKnown, ContextThere, Live, Types
<1>8. ASSUME NEW u \in Threads PROVE FreesAlone(u)'
  <2>1. FreesAlone(u) /\ ParentKnown(u) /\ ContextThere(t)
    BY DEF Inv
  <2>2. SUFFICES ASSUME pc'[u] = "freeParent" PROVE FreesAlone(u)'
    BY DEF FreesAlone
  <2>3. u # c /\ pc[u] = "freeParent" /\ parent'[u] = parent[u] /\ isProcessor'[u] = isProcessor[u]
    BY <1>1, <2>2 DEF Launch, Types
  <2>4. parent[u] \in Threads /\ parent[u] # c /\ parent[u] # t /\ ~isAlive'[parent[u]]
    BY <1>1, <2>1, <2>3 DEF FreesAlone, ParentKnown, ContextThere, Launch, Types
  <2>5. Kids(parent[u])' = {}
    BY <1>3, <2>1, <2>3, <2>4 DEF FreesAlone
  <2>6. \A d \in Threads : pc'[d] = "freeParent" => pc[d] = "freeParent" /\ parent'[d] = parent[d]
    BY <1>1 DEF Launch, Types
  <2>7. QED
    BY <2>1, <2>3, <2>4, <2>5, <2>6 DEF FreesAlone
<1>9. ASSUME NEW u \in Threads PROVE ContextThere(u)'
  <2>1. ContextThere(u)
    BY DEF Inv
  <2>2. CASE u = c
    BY <1>1, <2>2 DEF Launch, ContextThere, Live, Types
  <2>3. CASE u # c
    <3>1. /\ pc'[u] = pc[u] /\ context'[u] = context[u] /\ isAlive'[u] = isAlive[u]
      BY <1>1, <2>3 DEF Launch, Types
    <3>2. pc[u] \in {"free", "outlived", "ended"} => u # t
      BY DEF Launch
    <3>3. ASSUME NEW x \in Threads, parent[x] = u, ~isProcessor[x]
          PROVE parent'[x] = u /\ ~isProcessor'[x]
      BY <1>1, <3>3, NoneAssumption DEF Launch, Types, ParentKnown
    <3>4. QED
      BY <1>3, <2>1, <3>1, <3>2, <3>3 DEF ContextThere
  <2>4. QED
    BY <2>2, <2>3
<1>10. QED
  BY <1>2, <1>5, <1>6, <1>7, <1>8, <1>9 DEF Inv

\* The steps that only move a thread between places in which it uses its own
\* context and knows its parent, and leave the contexts alone.
Quiet(t) ==
  \/ \E c \in Threads, withTimeout \in BOOLEAN : Join(t, c, withTimeout)
  \/ JoinAll(t) \/ Terminate(t) \/ CheckJoin(t) \/ Timeout(t) \/ WaitRefused(t)

Busy == {"running", "checking", "waiting", "exiting"}

\* They keep the invariant.
LEMMA QuietInv ==
  ASSUME Inv, NEW t \in Threads, Quiet(t) PROVE Inv'
<1>1. Types
  BY DEF Inv
<1>2. /\ UNCHANGED <<context, isProcessor, parent, childrenMutex, nChildren, isAlive>>
      /\ pc[t] \in Busy /\ pc'[t] \in Busy
      /\ pc' = [pc EXCEPT ![t] = pc'[t]]
  BY <1>1 DEF Quiet, Join, JoinAll, Terminate, CheckJoin, Timeout, WaitRefused, Return,
              Types, Busy
<1>4. Types'
  BY <1>1, <1>2 DEF Types, PCs, Busy
<1>5. ASSUME NEW u \in Threads PROVE Kids(u)' = Kids(u)
  BY <1>1, <1>2 DEF Kids, Busy, Types
<1>6. ASSUME NEW u \in Threads PROVE Counts(u)' /\ ParentKnown(u)' /\ ParentThere(u)'
  <2>1. Counts(u) /\ ParentKnown(u) /\ ParentThere(u)
    BY DEF Inv
  <2>2. QED
    BY <1>1, <1>2, <1>5, <2>1 DEF Counts, ParentKnown, ParentThere, Busy, Types
<1>7. ASSUME NEW u \in Threads PROVE FreesAlone(u)'
  <2>1. FreesAlone(u)
    BY DEF Inv
  <2>2. \A d \in Threads : pc'[d] = "freeParent" <=> pc[d] = "freeParent"
    BY <1>1, <1>2 DEF Busy, Types
  <2>3. pc[u] = "freeParent" => Kids(parent[u])' = Kids(parent[u])
    BY <1>1, <1>2, <1>5, <2>1 DEF FreesAlone, Types
  <2>4. QED
    BY <1>2, <2>1, <2>2, <2>3 DEF FreesAlone
<1>8. ASSUME NEW u \in Threads PROVE ContextThere(u)'
  <2>1. ContextThere(u) /\ ContextThere(t)
    BY DEF Inv
  <2>2. QED
    BY <1>1, <1>2, <1>5, <2>1 DEF ContextThere, Live, Busy, Types
<1>9. QED
  BY <1>4, <1>6, <1>7, <1>8 DEF Inv

\* The mutex that is made for a child that does not start is the first one.
LEMMA LaunchFailsInv ==
  ASSUME Inv, NEW t \in Threads, NEW c \in Threads, LaunchFails(t, c) PROVE Inv'
<1>1. Types
  BY DEF Inv
<1>2. Types'
  BY <1>1 DEF LaunchFails, Types
<1>3. ASSUME NEW u \in Threads PROVE Kids(u)' = Kids(u)
  BY DEF LaunchFails, Kids
<1>4. ASSUME NEW u \in Threads PROVE ParentThere(u)'
  <2>1. ParentThere(u)
    BY DEF Inv
  <2>2. QED
    BY <1>1, <2>1 DEF LaunchFails, ParentThere, Types
<1>5. ASSUME NEW u \in Threads
      PROVE Counts(u)' /\ ParentKnown(u)' /\ FreesAlone(u)' /\ ContextThere(u)'
  <2>1. Counts(u) /\ ParentKnown(u) /\ FreesAlone(u) /\ ContextThere(u)
    BY DEF Inv
  <2>2. pc[u] = "freeParent" => Kids(parent[u])' = Kids(parent[u])
    BY DEF LaunchFails, Kids
  <2>3. QED
    BY <1>3, <2>1, <2>2 DEF LaunchFails, Counts, ParentKnown, FreesAlone, ContextThere
<1>6. QED
  BY <1>2, <1>4, <1>5 DEF Inv

\* A processor that forgets its parent was not one of its children.
LEMMA StartInv ==
  ASSUME Inv, NEW c \in Threads, Start(c) PROVE Inv'
<1>1. Types
  BY DEF Inv
<1>2. Types'
  BY <1>1 DEF Start, Types, PCs
<1>3. /\ UNCHANGED <<context, isProcessor, childrenMutex, nChildren, isAlive>>
      /\ pc[c] = "starting" /\ pc'[c] = "running"
      /\ \A x \in Threads \ {c} : pc'[x] = pc[x] /\ parent'[x] = parent[x]
      /\ parent'[c] = IF isProcessor[c] THEN None ELSE parent[c]
  BY <1>1 DEF Start, Types
<1>4. ASSUME NEW u \in Threads PROVE Kids(u)' = Kids(u)
  BY <1>3, NoneAssumption DEF Kids
<1>5. ASSUME NEW u \in Threads PROVE Counts(u)' /\ ParentKnown(u)' /\ ParentThere(u)'
  <2>1. Counts(u) /\ ParentKnown(u) /\ ParentThere(u)
    BY DEF Inv
  <2>2. parent'[u] # None => parent'[u] = parent[u] /\ parent[u] \in Threads
    BY <1>1, <1>3 DEF Types
  <2>3. Counts(u)' /\ ParentThere(u)'
    BY <1>3, <1>4, <2>1, <2>2 DEF Counts, ParentThere
  <2>4. ParentKnown(u)'
    BY <1>3, <2>1, <2>2 DEF ParentKnown
  <2>5. QED
    BY <2>3, <2>4
<1>6. ASSUME NEW u \in Threads PROVE FreesAlone(u)'
  <2>1. FreesAlone(u)
    BY DEF Inv
  <2>2. \A d \in Threads : pc'[d] = "freeParent" => pc[d] = "freeParent" /\ parent'[d] = parent[d]
    BY <1>3
  <2>3. pc'[u] = "freeParent" => Kids(parent[u])' = {}
    BY <1>1, <1>4, <2>1, <2>2 DEF FreesAlone, Types
  <2>4. QED
    BY <1>3, <2>1, <2>2, <2>3 DEF FreesAlone
<1>7. ASSUME NEW u \in Threads PROVE ContextThere(u)'
  <2>1. ContextThere(u)
    BY DEF Inv
  <2>2. ASSUME NEW x \in Threads, parent[x] = u, ~isProcessor[x]
        PROVE parent'[x] = u /\ ~isProcessor'[x]
    BY <1>3, <2>2
  <2>3. QED
    BY <1>3, <1>4, <2>1, <2>2 DEF ContextThere, Live
<1>8. QED
  BY <1>2, <1>5, <1>6, <1>7 DEF Inv

\* The child that leaves is counted off; the last one of a parent that is gone
\* keeps its pointer to it.
LEMMA ExitParentInv ==
  ASSUME Inv, NEW t \in Threads, ExitParent(t) PROVE Inv'
<1>1. Types
  BY DEF Inv
<1>2. CASE parent[t] = None
  <2>1. /\ UNCHANGED <<context, isProcessor, childrenMutex, nChildren, isAlive, parent>>
        /\ pc[t] = "exiting" /\ pc'[t] = "own"
        /\ \A x \in Threads \ {t} : pc'[x] = pc[x]
    BY <1>1, <1>2 DEF ExitParent, Types
  <2>2. Types'
    BY <1>1, <1>2 DEF ExitParent, Types, PCs
  <2>3. ASSUME NEW u \in Threads PROVE Kids(u)' = Kids(u)
    BY <2>1 DEF Kids
  <2>4. ASSUME NEW u \in Threads
        PROVE Counts(u)' /\ ParentKnown(u)' /\ ParentThere(u)' /\ FreesAlone(u)'
    <3>1. Counts(u) /\ ParentKnown(u) /\ ParentThere(u) /\ FreesAlone(u)
      BY DEF Inv
    <3>2. Counts(u)' /\ ParentKnown(u)' /\ ParentThere(u)'
      BY <1>1, <1>2, <2>1, <2>3, <3>1 DEF Counts, ParentKnown, ParentThere, Types
    <3>3. pc'[u] = "freeParent" => Kids(parent[u])' = {}
      BY <1>1, <2>1, <2>3, <3>1 DEF FreesAlone, Types
    <3>4. FreesAlone(u)'
      BY <2>1, <3>1, <3>3 DEF FreesAlone
    <3>5. QED
      BY <3>2, <3>4
  <2>5. ASSUME NEW u \in Threads PROVE ContextThere(u)'
    <3>1. ContextThere(u)
      BY DEF Inv
    <3>2. QED
      BY <2>1, <2>3, <3>1 DEF ContextThere, Live
  <2>6. QED
    BY <2>2, <2>4, <2>5 DEF Inv
<1>3. CASE parent[t] # None
  <2> DEFINE p == parent[t]
  <2>1. /\ p \in Threads /\ p # t /\ pc[t] = "exiting" /\ ~isProcessor[t]
        /\ context[p] = "allocated" /\ t \in Kids(p)
    BY <1>1, <1>3 DEF ExitParent, Types, Inv, ParentKnown, ParentThere, Kids
  <2>2. /\ UNCHANGED <<context, isProcessor, childrenMutex, isAlive>>
        /\ nChildren' = [nChildren EXCEPT ![p] = @ - 1]
        /\ pc'[t] = IF LastOfDead(p) THEN "freeParent" ELSE "own"
        /\ pc'[p] = Woken(p)
        /\ \A x \in Threads \ {t, p} : pc'[x] = pc[x]
        /\ parent'[t] = IF LastOfDead(p) THEN p ELSE None
        /\ \A x \in Threads \ {t} : parent'[x] = parent[x]
    BY <1>1, <1>3, <2>1 DEF ExitParent, Types
  <2>3. pc'[p] = pc[p] \/ (pc[p] = "waiting" /\ pc'[p] = "checking")
    BY <2>2 DEF Woken
  <2>4. Types'
    <3>1. Woken(p) \in PCs
      BY <1>1, <2>1 DEF Types, Woken, PCs
    <3>2. QED
      BY <1>1, <1>3, <2>1, <3>1 DEF ExitParent, Types, PCs
  <2>5. ASSUME NEW u \in Threads
        PROVE Kids(u)' = IF u = p THEN Kids(p) \ {t} ELSE Kids(u)
    BY <2>1, <2>2, <2>3, NoneAssumption DEF Kids
  <2>6. Counts(p)
    BY <2>1 DEF Inv
  <2>7. /\ IsFiniteSet(Kids(p) \ {t}) /\ IsFiniteSet(Kids(p))
        /\ Cardinality(Kids(p) \ {t}) = nChildren[p] - 1
    BY <2>1, <2>6, FS_RemoveElement DEF Counts
  <2>8. LastOfDead(p) <=> ~isAlive[p] /\ Kids(p) \ {t} = {}
    <3>1. nChildren[p] - 1 \in Nat
      BY <2>7, FS_CardinalityType
    <3>2. nChildren[p] - 1 <= 0 <=> Kids(p) \ {t} = {}
      BY <2>7, <3>1, FS_EmptySet
    <3>3. QED
      BY <3>2 DEF LastOfDead
  <2>9. ASSUME NEW d \in Threads, pc[d] = "freeParent" PROVE parent[d] # p
    BY <2>1, <2>9 DEF Inv, FreesAlone
  <2>10. ASSUME NEW u \in Threads PROVE Counts(u)'
    <3>1. CASE u = p
      BY <1>1, <2>1, <2>2, <2>5, <2>7, <3>1 DEF Counts, Types
    <3>2. CASE u # p
      <4>1. Counts(u)
        BY DEF Inv
      <4>2. QED
        BY <1>1, <2>1, <2>2, <2>5, <3>2, <4>1 DEF Counts, Types
    <3>3. QED
      BY <3>1, <3>2
  <2>11. ASSUME NEW u \in Threads PROVE ParentKnown(u)' /\ ParentThere(u)'
    <3>1. ParentKnown(u) /\ ParentThere(u)
      BY DEF Inv
    <3>2. parent'[u] # None => parent'[u] = parent[u] /\ parent[u] \in Threads
      BY <1>1, <2>1, <2>2 DEF Types
    <3>3. \A x \in Threads : pc[x] # "unborn" => pc'[x] # "unborn"
      BY <2>1, <2>2, <2>3
    <3>4. ParentThere(u)'
      BY <2>2, <3>1, <3>2 DEF ParentThere
    <3>5. ParentKnown(u)'
      BY <2>1, <2>2, <2>3, <3>1, <3>2, <3>3 DEF ParentKnown
    <3>6. QED
      BY <3>4, <3>5
  <2>12. ASSUME NEW u \in Threads PROVE FreesAlone(u)'
    <3>1. FreesAlone(u)
      BY DEF Inv
    <3>2. SUFFICES ASSUME pc'[u] = "freeParent" PROVE FreesAlone(u)'
      BY DEF FreesAlone
    <3>3. CASE u = t
      <4>1. LastOfDead(p) /\ parent'[u] = p /\ ~isProcessor'[u] /\ ~isAlive'[p]
        BY <2>1, <2>2, <2>8, <3>2, <3>3
      <4>2. Kids(parent[u])' = {}
        BY <2>1, <2>5, <2>8, <4>1
      <4>3. ASSUME NEW d \in Threads, pc'[d] = "freeParent", parent'[d] = p PROVE d = t
        BY <2>1, <2>2, <2>3, <2>9, <4>3
      <4>4. QED
        BY <1>3, <3>3, <4>1, <4>2, <4>3 DEF FreesAlone
    <3>4. CASE u # t
      <4>1. pc[u] = "freeParent" /\ parent'[u] = parent[u] /\ parent[u] # p
        BY <2>1, <2>2, <2>3, <2>9, <3>2, <3>4
      <4>2. parent[u] \in Threads
        BY <1>1, <3>1, <4>1 DEF FreesAlone, Types
      <4>3. Kids(parent[u])' = {}
        BY <2>5, <3>1, <4>1, <4>2 DEF FreesAlone
      <4>4. ASSUME NEW d \in Threads, pc'[d] = "freeParent", parent'[d] = parent[u] PROVE d = u
        <5>1. d # t
          BY <2>1, <2>2, <4>1, <4>2, <4>4, NoneAssumption
        <5>2. pc[d] = "freeParent" /\ parent[d] = parent[u]
          BY <2>1, <2>2, <2>3, <4>4, <5>1
        <5>3. QED
          BY <3>1, <4>1, <5>2 DEF FreesAlone
      <4>5. QED
        BY <2>2, <3>1, <4>1, <4>3, <4>4 DEF FreesAlone
    <3>5. QED
      BY <3>3, <3>4
  <2>13. ASSUME NEW u \in Threads PROVE ContextThere(u)'
    <3>1. ContextThere(u)
      BY DEF Inv
    <3>2. CASE u = t
      <4>1. pc'[t] \in {"freeParent", "own"} /\ isAlive'[t] = isAlive[t] /\ context'[t] = context[t]
        BY <2>2
      <4>2. QED
        BY <2>1, <3>1, <3>2, <4>1 DEF ContextThere, Live
    <3>3. CASE u = p
      <4>1. isAlive'[p] = isAlive[p] /\ context'[p] = context[p]
        BY <2>2
      <4>2. pc'[p] # "free"
        BY <2>1, <2>3, <3>1, <3>3 DEF ContextThere
      <4>3. ASSUME pc'[p] \in {"outlived", "ended"}
            PROVE \E c \in Threads : parent'[c] = p /\ ~isProcessor'[c]
        <5>1. ~isAlive[p]
          BY <2>1, <2>3, <3>1, <3>3, <4>3 DEF ContextThere
        <5>2. CASE LastOfDead(p)
          BY <2>1, <2>2, <5>2
        <5>3. CASE ~LastOfDead(p)
          <6>1. PICK x \in Kids(p) : x # t
            BY <2>8, <5>1, <5>3
          <6>2. QED
            BY <2>2, <6>1 DEF Kids
        <5>4. QED
          BY <5>2, <5>3
      <4>4. QED
        BY <2>1, <2>3, <3>1, <3>3, <4>1, <4>2, <4>3 DEF ContextThere, Live
    <3>4. CASE u # t /\ u # p
      <4>1. pc'[u] = pc[u] /\ isAlive'[u] = isAlive[u] /\ context'[u] = context[u] /\ Kids(u)' = Kids(u)
        BY <2>2, <2>5, <3>4
      <4>2. ASSUME NEW x \in Threads, parent[x] = u, ~isProcessor[x]
            PROVE parent'[x] = u /\ ~isProcessor'[x]
        BY <2>2, <3>4, <4>2
      <4>3. QED
        BY <3>1, <4>1, <4>2 DEF ContextThere
    <3>5. QED
      BY <3>2, <3>3, <3>4
  <2>14. QED
    BY <2>4, <2>10, <2>11, <2>12, <2>13 DEF Inv
<1>4. QED
  BY <1>2, <1>3

\* The last child of a thread that is gone frees the context nobody else uses.
LEMMA FreeParentInv ==
  ASSUME Inv, NEW t \in Threads, FreeParent(t) PROVE Inv'
<1> DEFINE p == parent[t]
<1>1. Types /\ FreesAlone(t) /\ ParentKnown(t)
  BY DEF Inv
<1>2. /\ p \in Threads /\ p # t /\ pc[t] = "freeParent" /\ ~isProcessor[t]
      /\ ~isAlive[p] /\ Kids(p) = {} /\ pc[p] # "unborn"
  BY <1>1 DEF FreeParent, FreesAlone, ParentKnown, Types
<1>3. pc[p] \in {"outlived", "ended"}
  BY <1>2 DEF Inv, ContextThere
<1>4. /\ UNCHANGED <<isProcessor, nChildren, isAlive>>
      /\ pc'[t] = "own" /\ \A x \in Threads \ {t} : pc'[x] = pc[x]
      /\ parent'[t] = None /\ \A x \in Threads \ {t} : parent'[x] = parent[x]
      /\ context'[p] = "freed" /\ \A x \in Threads \ {p} : context'[x] = context[x]
      /\ \A x \in Threads \ {p} : childrenMutex'[x] = childrenMutex[x]
  BY <1>1, <1>2 DEF FreeParent, Types
<1>5. Types'
  BY <1>1, <1>2 DEF FreeParent, Types, PCs
<1>6. ASSUME NEW u \in Threads PROVE Kids(u)' = Kids(u)
  BY <1>2, <1>4, NoneAssumption DEF Kids
<1>7. ASSUME NEW x \in Threads, x # t, ~isProcessor[x] PROVE parent[x] # p
  <2>1. x \notin Kids(p)
    BY <1>2
  <2>2. pc[x] = "freeParent" => parent[x] # p
    BY <1>1, <1>2, <1>7 DEF FreesAlone
  <2>3. QED
    BY <1>7, <2>1, <2>2 DEF Kids
<1>8. ASSUME NEW u \in Threads PROVE Counts(u)' /\ ParentKnown(u)' /\ ParentThere(u)'
  <2>1. Counts(u) /\ ParentKnown(u) /\ ParentThere(u)
    BY DEF Inv
  <2>2. parent'[u] # None => u # t /\ parent'[u] = parent[u] /\ parent[u] \in Threads
    BY <1>1, <1>4 DEF Types
  <2>3. Counts(u)'
    BY <1>4, <1>6, <2>1 DEF Counts
  <2>4. ParentThere(u)'
    BY <1>4, <1>7, <2>1, <2>2 DEF ParentThere
  <2>5. ParentKnown(u)'
    BY <1>4, <2>1, <2>2 DEF ParentKnown
  <2>6. QED
    BY <2>3, <2>4, <2>5
<1>9. ASSUME NEW u \in Threads PROVE FreesAlone(u)'
  <2>1. FreesAlone(u)
    BY DEF Inv
  <2>2. \A d \in Threads : pc'[d] = "freeParent" => pc[d] = "freeParent" /\ parent'[d] = parent[d]
    BY <1>4
  <2>3. pc'[u] = "freeParent" => Kids(parent[u])' = {}
    BY <1>1, <1>6, <2>1, <2>2 DEF FreesAlone, Types
  <2>4. QED
    BY <1>4, <2>1, <2>2, <2>3 DEF FreesAlone
<1>10. ASSUME NEW u \in Threads PROVE ContextThere(u)'
  <2>1. ContextThere(u)
    BY DEF Inv
  <2>2. CASE u = t
    BY <1>2, <1>4, <2>1, <2>2 DEF ContextThere, Live
  <2>3. CASE u = p
    BY <1>2, <1>3, <1>4, <2>1, <2>3 DEF ContextThere, Live
  <2>4. CASE u # t /\ u # p
    <3>1. pc'[u] = pc[u] /\ isAlive'[u] = isAlive[u] /\ context'[u] = context[u] /\ Kids(u)' = Kids(u)
      BY <1>4, <1>6, <2>4
    <3>2. ASSUME NEW x \in Threads, parent[x] = u, ~isProcessor[x]
          PROVE parent'[x] = u /\ ~isProcessor'[x]
      BY <1>4, <2>4, <3>2
    <3>3. QED
      BY <2>1, <3>1, <3>2 DEF ContextThere
  <2>5. QED
    BY <2>2, <2>3, <2>4
<1>11. QED
  BY <1>5, <1>8, <1>9, <1>10 DEF Inv

\* A thread is marked dead exactly when children are left.
LEMMA ExitOwnInv ==
  ASSUME Inv, NEW t \in Threads, ExitOwn(t) PROVE Inv'
<1>1. Types /\ ContextThere(t) /\ Counts(t)
  BY DEF Inv
<1>2. MayFree(t) <=> Kids(t) = {}
  <2>1. nChildren[t] <= 0 <=> Kids(t) = {}
    <3>1. nChildren[t] \in Nat /\ (nChildren[t] = 0 <=> Kids(t) = {})
      BY <1>1, FS_CardinalityType, FS_EmptySet DEF Counts
    <3>2. QED
      BY <3>1
  <2>2. childrenMutex[t] = "none" => Kids(t) = {}
    BY NoneAssumption DEF Inv, ParentThere, Kids
  <2>3. QED
    BY <2>1, <2>2 DEF MayFree
<1>3. /\ UNCHANGED <<context, isProcessor, parent, childrenMutex, nChildren>>
      /\ pc[t] = "own" /\ pc'[t] = (IF MayFree(t) THEN "free" ELSE "outlived")
      /\ \A x \in Threads \ {t} : pc'[x] = pc[x] /\ isAlive'[x] = isAlive[x]
  BY <1>1 DEF ExitOwn, Types
<1>4. (isAlive'[t] <=> MayFree(t)) /\ isAlive' \in [Threads -> BOOLEAN]
  <2>1. MayFree(t) \in BOOLEAN
    BY DEF MayFree
  <2>2. QED
    BY <1>1, <2>1, ExceptType DEF ExitOwn, Types
<1>5. Types'
  BY <1>1, <1>3, <1>4 DEF ExitOwn, Types, PCs
<1>6. ASSUME NEW u \in Threads PROVE Kids(u)' = Kids(u)
  BY <1>3 DEF Kids
<1>7. ASSUME NEW u \in Threads PROVE Counts(u)' /\ ParentKnown(u)' /\ ParentThere(u)'
  <2>1. Counts(u) /\ ParentKnown(u) /\ ParentThere(u)
    BY DEF Inv
  <2>2. parent[u] # None => parent[u] \in Threads
    BY <1>1 DEF Types
  <2>3. Counts(u)' /\ ParentThere(u)'
    BY <1>3, <1>6, <2>1 DEF Counts, ParentThere
  <2>4. ParentKnown(u)'
    BY <1>3, <2>1, <2>2 DEF ParentKnown
  <2>5. QED
    BY <2>3, <2>4
<1>8. ASSUME NEW u \in Threads PROVE FreesAlone(u)'
  <2>1. FreesAlone(u)
    BY DEF Inv
  <2>2. SUFFICES ASSUME pc'[u] = "freeParent" PROVE FreesAlone(u)'
    BY DEF FreesAlone
  <2>3. pc[u] = "freeParent" /\ parent[u] \in Threads /\ parent[u] # t
    BY <1>1, <1>3, <2>1, <2>2 DEF FreesAlone, ContextThere, Types
  <2>4. Kids(parent[u])' = {} /\ ~isAlive'[parent[u]]
    BY <1>3, <1>6, <2>1, <2>3 DEF FreesAlone
  <2>5. \A d \in Threads : pc'[d] = "freeParent" => pc[d] = "freeParent"
    BY <1>3
  <2>6. QED
    BY <1>3, <2>1, <2>3, <2>4, <2>5 DEF FreesAlone
<1>9. ASSUME NEW u \in Threads PROVE ContextThere(u)'
  <2>1. ContextThere(u)
    BY DEF Inv
  <2>2. CASE u = t
    <3>1. CASE MayFree(t)
      BY <1>1, <1>2, <1>3, <1>4, <1>6, <2>2, <3>1 DEF ContextThere, Live
    <3>2. CASE ~MayFree(t)
      <4>1. \E c \in Threads : parent'[c] = t /\ ~isProcessor'[c]
        BY <1>2, <1>3, <3>2 DEF Kids
      <4>2. QED
        BY <1>1, <1>3, <1>4, <2>2, <3>2, <4>1 DEF ContextThere, Live
    <3>3. QED
      BY <3>1, <3>2
  <2>3. CASE u # t
    BY <1>3, <1>6, <2>1, <2>3 DEF ContextThere
  <2>4. QED
    BY <2>2, <2>3
<1>10. QED
  BY <1>5, <1>7, <1>8, <1>9 DEF Inv

\* A thread frees its own context when no child is left.
LEMMA FreeOwnInv ==
  ASSUME Inv, NEW t \in Threads, FreeOwn(t) PROVE Inv'
<1>1. Types /\ ContextThere(t)
  BY DEF Inv
<1>2. pc[t] = "free" /\ Kids(t) = {} /\ isAlive[t]
  BY <1>1 DEF FreeOwn, ContextThere
<1>3. /\ UNCHANGED <<isProcessor, parent, nChildren, isAlive>>
      /\ pc'[t] = "ended" /\ context'[t] = "freed"
      /\ \A x \in Threads \ {t} : /\ pc'[x] = pc[x] /\ context'[x] = context[x]
                                  /\ childrenMutex'[x] = childrenMutex[x]
  BY <1>1 DEF FreeOwn, Types
<1>4. Types'
  BY <1>1 DEF FreeOwn, Types, PCs
<1>5. ASSUME NEW u \in Threads PROVE Kids(u)' = Kids(u)
  BY <1>2, <1>3 DEF Kids
<1>6. ASSUME NEW x \in Threads, ~isProcessor[x] PROVE parent[x] # t
  <2>1. x \notin Kids(t) /\ FreesAlone(x)
    BY <1>2 DEF Inv
  <2>2. QED
    BY <1>2, <1>6, <2>1 DEF FreesAlone, Kids
<1>7. ASSUME NEW u \in Threads PROVE Counts(u)' /\ ParentKnown(u)' /\ ParentThere(u)'
  <2>1. Counts(u) /\ ParentKnown(u) /\ ParentThere(u)
    BY DEF Inv
  <2>2. parent[u] # None => parent[u] \in Threads
    BY <1>1 DEF Types
  <2>3. Counts(u)'
    BY <1>3, <1>5, <2>1 DEF Counts
  <2>4. ParentThere(u)'
    BY <1>3, <1>6, <2>1, <2>2 DEF ParentThere
  <2>5. ParentKnown(u)'
    BY <1>2, <1>3, <2>1, <2>2 DEF ParentKnown
  <2>6. QED
    BY <2>3, <2>4, <2>5
<1>8. ASSUME NEW u \in Threads PROVE FreesAlone(u)'
  <2>1. FreesAlone(u)
    BY DEF Inv
  <2>2. \A d \in Threads : pc'[d] = "freeParent" => pc[d] = "freeParent"
    BY <1>3
  <2>3. pc'[u] = "freeParent" => Kids(parent[u])' = {}
    BY <1>1, <1>3, <1>5, <2>1, <2>2 DEF FreesAlone, Types
  <2>4. QED
    BY <1>3, <2>1, <2>2, <2>3 DEF FreesAlone
<1>9. ASSUME NEW u \in Threads PROVE ContextThere(u)'
  <2>1. ContextThere(u)
    BY DEF Inv
  <2>2. CASE u = t
    BY <1>2, <1>3, <2>1, <2>2 DEF ContextThere, Live
  <2>3. CASE u # t
    BY <1>3, <1>5, <2>1, <2>3 DEF ContextThere
  <2>4. QED
    BY <2>2, <2>3
<1>10. QED
  BY <1>4, <1>7, <1>8, <1>9 DEF Inv

\* A thread that leaves its context behind changes nothing else.
LEMMA LeaveContextInv ==
  ASSUME Inv, NEW t \in Threads, LeaveContext(t) PROVE Inv'
<1>1. Types
  BY DEF Inv
<1>2. /\ UNCHANGED <<context, isProcessor, parent, childrenMutex, nChildren, isAlive>>
      /\ pc[t] = "outlived" /\ pc'[t] = "ended"
      /\ \A x \in Threads \ {t} : pc'[x] = pc[x]
  BY <1>1 DEF LeaveContext, Types
<1>3. Types'
  BY <1>1 DEF LeaveContext, Types, PCs
<1>4. ASSUME NEW u \in Threads PROVE Kids(u)' = Kids(u)
  BY <1>2 DEF Kids
<1>5. ASSUME NEW u \in Threads PROVE Counts(u)' /\ ParentKnown(u)' /\ ParentThere(u)'
  <2>1. Counts(u) /\ ParentKnown(u) /\ ParentThere(u)
    BY DEF Inv
  <2>2. parent[u] # None => parent[u] \in Threads
    BY <1>1 DEF Types
  <2>3. Counts(u)' /\ ParentThere(u)'
    BY <1>2, <1>4, <2>1 DEF Counts, ParentThere
  <2>4. ParentKnown(u)'
    BY <1>2, <2>1, <2>2 DEF ParentKnown
  <2>5. QED
    BY <2>3, <2>4
<1>6. ASSUME NEW u \in Threads PROVE FreesAlone(u)'
  <2>1. FreesAlone(u)
    BY DEF Inv
  <2>2. \A d \in Threads : pc'[d] = "freeParent" => pc[d] = "freeParent"
    BY <1>2
  <2>3. pc'[u] = "freeParent" => Kids(parent[u])' = {}
    BY <1>1, <1>2, <1>4, <2>1, <2>2 DEF FreesAlone, Types
  <2>4. QED
    BY <1>2, <2>1, <2>2, <2>3 DEF FreesAlone
<1>7. ASSUME NEW u \in Threads PROVE ContextThere(u)'
  <2>1. ContextThere(u)
    BY DEF Inv
  <2>2. QED
    BY <1>2, <1>4, <2>1 DEF ContextThere, Live
<1>8. QED
  BY <1>3, <1>5, <1>6, <1>7 DEF Inv

-----------------------------------------------------------------------------

\* Every step preserves the invariant.
LEMMA NextInv == Inv /\ [Next]_vars => Inv'
<1> SUFFICES ASSUME Inv, [Next]_vars PROVE Inv'
  OBVIOUS
<1>1. CASE UNCHANGED vars
  <2>1. \A t \in Threads : Kids(t)' = Kids(t)
    BY <1>1 DEF vars, Kids
  <2>2. Types'
    BY <1>1 DEF vars, Inv, Types
  <2>3. ASSUME NEW t \in Threads
        PROVE /\ Counts(t)' /\ ParentKnown(t)' /\ ParentThere(t)'
              /\ FreesAlone(t)' /\ ContextThere(t)'
    <3>1. Counts(t) /\ ParentKnown(t) /\ ParentThere(t) /\ FreesAlone(t) /\ ContextThere(t)
      BY DEF Inv
    <3>2. pc[t] = "freeParent" => Kids(parent[t])' = Kids(parent[t])
      BY <1>1 DEF vars, Kids
    <3>3. QED
      BY <1>1, <2>1, <3>1, <3>2
      DEF vars, Counts, ParentKnown, ParentThere, FreesAlone, ContextThere
  <2>4. QED
    BY <2>2, <2>3 DEF Inv
<1>2. CASE Next
  <2>1. PICK t \in Threads : Code(t) \/ Runtime(t) \/ Timeout(t) \/ WaitRefused(t)
    BY <1>2 DEF Next
  <2>2. \/ Quiet(t)
        \/ \E c \in Threads, processor \in BOOLEAN : Launch(t, c, processor)
        \/ \E c \in Threads : LaunchFails(t, c)
        \/ Start(t) \/ ExitParent(t) \/ FreeParent(t) \/ ExitOwn(t) \/ FreeOwn(t)
        \/ LeaveContext(t)
    BY <2>1 DEF Code, Runtime, Quiet
  <2>3. QED
    BY <2>2, QuietInv, LaunchInv, LaunchFailsInv, StartInv, ExitParentInv, FreeParentInv,
       ExitOwnInv, FreeOwnInv, LeaveContextInv
<1>3. QED
  BY <1>1, <1>2

\* The invariant holds in every state of the specification.
LEMMA SpecInv == Spec => []Inv
  BY InitInv, NextInv, PTL DEF Spec

\* The variables stay in their domains.
THEOREM SpecTypeOK == Spec => []TypeOK
<1>1. Init => TypeOK
  BY ThreadsAssumption DEF Init, TypeOK, PCs
<1>2. ASSUME Inv', TypeOK, [Next]_vars PROVE TypeOK'
  <2> DEFINE Locals == /\ terminated \in [Threads -> BOOLEAN] /\ timed \in [Threads -> BOOLEAN]
                       /\ awaited \in [Threads -> Threads \union {None}]
  <2>1. Locals
    BY <1>2 DEF TypeOK
  <2>2. ASSUME NEW t \in Threads, Return(t), UNCHANGED terminated PROVE Locals'
    BY <2>1, <2>2, ExceptType DEF Return
  <2>3. ASSUME NEW t \in Threads, NEW c \in Threads, NEW b \in BOOLEAN, Join(t, c, b)
        PROVE Locals'
    BY <2>1, <2>3, ExceptType DEF Join
  <2>4. ASSUME NEW t \in Threads, JoinAll(t) PROVE Locals'
    BY <2>1, <2>4, ExceptType DEF JoinAll
  <2>5. ASSUME NEW t \in Threads, Terminate(t) PROVE Locals'
    <3>1. (~isProcessor[t]) \in BOOLEAN
      OBVIOUS
    <3>2. QED
      BY <2>1, <2>5, <3>1, ExceptType DEF Terminate, joinVars
  <2>6. ASSUME UNCHANGED <<terminated, joinVars>> PROVE Locals'
    BY <2>1, <2>6 DEF joinVars
  <2>7. Locals'
    <3>1. CASE UNCHANGED vars
      BY <2>1, <3>1 DEF vars
    <3>2. CASE Next
      <4>1. PICK t \in Threads : Code(t) \/ Runtime(t) \/ Timeout(t) \/ WaitRefused(t)
        BY <3>2 DEF Next
      <4>2. CASE Timeout(t) \/ WaitRefused(t) \/ CheckJoin(t)
        BY <2>2, <2>6, <4>2 DEF Timeout, WaitRefused, CheckJoin
      <4>3. CASE \/ \E c \in Threads, processor \in BOOLEAN : Launch(t, c, processor)
                 \/ \E c \in Threads : LaunchFails(t, c)
                 \/ Start(t) \/ ExitParent(t) \/ FreeParent(t) \/ ExitOwn(t) \/ FreeOwn(t)
                 \/ LeaveContext(t)
        BY <2>6, <4>3 DEF Launch, LaunchFails, Start, ExitParent, FreeParent, ExitOwn,
                          FreeOwn, LeaveContext
      <4>4. QED
        BY <2>3, <2>4, <2>5, <4>1, <4>2, <4>3 DEF Code, Runtime
    <3>3. QED
      BY <1>2, <3>1, <3>2
  <2>8. QED
    BY <1>2, <2>7 DEF Inv, Types, TypeOK
<1>3. QED
  BY <1>1, <1>2, SpecInv, PTL DEF Spec

\* Threads use only contexts and mutexes that exist, but for the two exceptions
\* the property names, whatever the order in which parents and children exit.
THEOREM SpecDanglingOnlyWhenOutlived == Spec => []DanglingOnlyWhenOutlived
<1>1. ASSUME Inv, NEW t \in Threads, NEW u \in Read(t)
      PROVE \/ context[u] = "allocated" /\ (u # t => childrenMutex[u] = "made")
            \/ pc[t] = "outlived" /\ u = t
            \/ pc[t] = "starting" /\ isProcessor[t]
  <2>1. Types /\ ContextThere(t) /\ ParentThere(t) /\ ParentKnown(t)
    BY <1>1 DEF Inv
  <2>2. CASE u = t /\ pc[t] \notin {"unborn", "ended"}
    BY <2>1, <2>2 DEF ContextThere, Live, Types, PCs
  <2>3. CASE u = parent[t] /\ u # None /\ pc[t] \in {"starting", "exiting", "freeParent"}
    BY <2>1, <2>3 DEF ParentThere, ParentKnown
  <2>4. QED
    BY <1>1, <2>2, <2>3 DEF Read
<1>2. Inv => DanglingOnlyWhenOutlived
  BY <1>1 DEF DanglingOnlyWhenOutlived
<1>3. QED
  BY <1>2, SpecInv, PTL

\* The context of a thread that ended is there exactly as long as a child still
\* has to leave or to free it.
THEOREM SpecLastOneFrees == Spec => []LastOneFrees
<1>1. ASSUME Inv, NEW t \in Threads, pc[t] = "ended"
      PROVE context[t] = "allocated" <=> \E c \in Threads : parent[c] = t /\ ~isProcessor[c]
  <2>1. ContextThere(t)
    BY <1>1 DEF Inv
  <2>2. ASSUME NEW c \in Threads, parent[c] = t, ~isProcessor[c] PROVE context[t] = "allocated"
    <3>1. ParentThere(c)
      BY <1>1 DEF Inv
    <3>2. QED
      BY <2>2, <3>1, NoneAssumption DEF ParentThere
  <2>3. QED
    BY <1>1, <2>1, <2>2 DEF ContextThere
<1>2. Inv => LastOneFrees
  BY <1>1 DEF LastOneFrees
<1>3. QED
  BY <1>2, SpecInv, PTL

\* A join without a timeout returns only when the thread it waits for has
\* terminated, and join_all only when no child will use the context of its
\* parent any more.
THEOREM SpecJoinsWait == Spec => JoinsWait
<1> DEFINE Waits(t) ==
      pc[t] = "checking" /\ pc'[t] = "running" /\ ~timed[t] =>
        IF awaited[t] = None
        THEN \A c \in Threads : parent[c] = t => isProcessor[c]
        ELSE terminated[awaited[t]]
<1>1. ASSUME Inv, Next, NEW t \in Threads PROVE Waits(t)
  <2>1. SUFFICES ASSUME pc[t] = "checking", pc'[t] = "running", ~timed[t]
                 PROVE IF awaited[t] = None
                       THEN \A c \in Threads : parent[c] = t => isProcessor[c]
                       ELSE terminated[awaited[t]]
    OBVIOUS
  <2>2. Types /\ Counts(t) /\ ContextThere(t)
    BY <1>1 DEF Inv
  <2>3. Over(t)
    <3>1. PICK u \in Threads : Code(u) \/ Runtime(u) \/ Timeout(u) \/ WaitRefused(u)
      BY <1>1 DEF Next
    <3>2. CASE \/ \E c \in Threads, processor \in BOOLEAN : Launch(u, c, processor)
               \/ \E c \in Threads : LaunchFails(u, c)
               \/ Terminate(u) \/ Start(u) \/ ExitOwn(u) \/ FreeOwn(u) \/ LeaveContext(u)
               \/ FreeParent(u)
      BY <2>1, <2>2, <3>2 DEF Launch, LaunchFails, Terminate, Start, ExitOwn, FreeOwn,
                              LeaveContext, FreeParent, Types
    <3>3. CASE JoinAll(u) \/ \E c \in Threads, withTimeout \in BOOLEAN : Join(u, c, withTimeout)
      BY <2>1, <2>2, <3>3 DEF JoinAll, Join, Types
    <3>4. CASE Timeout(u) \/ WaitRefused(u)
      BY <2>1, <2>2, <3>4 DEF Timeout, WaitRefused, Return, Types
    <3>5. CASE ExitParent(u)
      BY <2>1, <2>2, <3>5 DEF ExitParent, Woken, Types
    <3>6. CASE CheckJoin(u)
      BY <2>1, <2>2, <3>6 DEF CheckJoin, Return, Types
    <3>7. QED
      BY <3>1, <3>2, <3>3, <3>4, <3>5, <3>6 DEF Code, Runtime
  <2>4. CASE awaited[t] = None
    <3>1. nChildren[t] <= 0
      BY <2>3, <2>4 DEF Over
    <3>2. Kids(t) = {}
      BY <2>2, <3>1, FS_CardinalityType, FS_EmptySet DEF Counts
    <3>3. ASSUME NEW c \in Threads, parent[c] = t, ~isProcessor[c] PROVE FALSE
      <4>1. FreesAlone(c) /\ isAlive[t]
        BY <1>1, <2>1, <2>2 DEF Inv, ContextThere
      <4>2. QED
        BY <3>2, <3>3, <4>1 DEF FreesAlone, Kids
    <3>4. QED
      BY <2>4, <3>3
  <2>5. CASE awaited[t] # None
    BY <2>3, <2>5 DEF Over
  <2>6. QED
    BY <2>4, <2>5
<1>2. Inv /\ [Next]_vars => [\A t \in Threads : Waits(t)]_vars
  BY <1>1
<1>3. QED
  BY <1>2, SpecInv, PTL DEF Spec, JoinsWait
=============================================================================
