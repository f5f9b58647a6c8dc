----------------------- MODULE ScoopSessions_proofs -----------------------
(***************************************************************************)
(* Safety of ScoopSessions, whatever the number of regions, sessions and   *)
(* separate arguments.  First type correctness: no null or unallocated     *)
(* session is followed, and the first session that                         *)
(* GE_scoop_processor_run_one_iteration reads after a promotion exists     *)
(* (invariant Inv).  Then exclusive access (invariant Excl).  Checked with *)
(* TLAPS.                                                                  *)
(***************************************************************************)
EXTENDS ScoopSessions, TLAPS

-----------------------------------------------------------------------------
(***************************************************************************)
(* Session queues.                                                         *)
(***************************************************************************)

\* A sequence over a set is one over a larger set.
LEMMA SeqLarger ==
  ASSUME NEW S, NEW T, S \subseteq T, NEW q \in Seq(S)
  PROVE  q \in Seq(T)
OBVIOUS

\* The elements of a sequence, its head and its tail.
LEMMA SeqElements ==
  ASSUME NEW S, NEW q \in Seq(S)
  PROVE  /\ \A i \in 1..Len(q) : q[i] \in S
         /\ q # << >> => Head(q) \in S /\ Tail(q) \in Seq(S)
OBVIOUS

\* The first element of a sequence and the others.
LEMMA SeqTail ==
  ASSUME NEW S, NEW q \in Seq(S), q # << >>
  PROVE  /\ Head(q) = q[1] /\ 1 \in 1..Len(q)
         /\ Tail(q) \in Seq(S) /\ Len(Tail(q)) = Len(q) - 1
         /\ \A i \in 1..Len(Tail(q)) : Tail(q)[i] = q[i + 1]
OBVIOUS

\* A session appended to a queue.
LEMMA AddLastType ==
  ASSUME NEW S, NEW q \in Seq(S), NEW s \in S
  PROVE  AddLast(q, s) \in Seq(S) /\ AddLast(q, s) # << >>
<1>1. Append(q, s) \in Seq(S) /\ Len(Append(q, s)) = Len(q) + 1 /\ Len(q) \in Nat
  OBVIOUS
<1>2. Append(q, s) # << >>
  BY <1>1
<1> QED
  BY <1>1, <1>2 DEF AddLast

\* Moving a session to the front keeps the type and the length of a queue.
LEMMA MoveToFirstType ==
  ASSUME NEW S, NEW q \in Seq(S), NEW s \in S
  PROVE  /\ MoveToFirst(q, s) \in Seq(S)
         /\ q # << >> => MoveToFirst(q, s) # << >>
<1> DEFINE p == Position(q, s)
           m == [i \in 1..Len(q) |->
                   IF i = 1 THEN s ELSE IF i <= p THEN q[i-1] ELSE q[i]]
<1>1. MoveToFirst(q, s) = m
  BY DEF MoveToFirst
<1> HIDE DEF p
<1>2. m \in Seq(S) /\ Len(m) = Len(q)
  OBVIOUS
<1> QED
  BY <1>1, <1>2

\* Unlinking a session keeps the type of a queue.
LEMMA WithoutType ==
  ASSUME NEW S, NEW q \in Seq(S), q # << >>, NEW s
  PROVE  Without(q, s) \in Seq(S)
<1> DEFINE p == Position(q, s)
           w == [i \in 1..(Len(q) - 1) |-> IF i < p THEN q[i] ELSE q[i+1]]
<1>1. Without(q, s) = w
  BY DEF Without
<1> HIDE DEF p
<1>2. w \in Seq(S)
  OBVIOUS
<1> QED
  BY <1>1, <1>2

\* No session occurs twice in q.
Distinct(q) == \A i, j \in 1..Len(q) : q[i] = q[j] => i = j

\* The position of a session in a queue without duplicates.
LEMMA PositionIs ==
  ASSUME NEW S, NEW q \in Seq(S), Distinct(q), NEW p \in 1..Len(q)
  PROVE  Position(q, q[p]) = p
BY DEF Position, Distinct

\* What MoveToFirst does: the session comes first, the ones that were before it
\* move up by one, the others keep their places.
LEMMA MoveToFirstIs ==
  ASSUME NEW S, NEW q \in Seq(S), Distinct(q), NEW p \in 1..Len(q)
  PROVE  LET m == MoveToFirst(q, q[p])
         IN  /\ m \in Seq(S)
             /\ Len(m) = Len(q)
             /\ m[1] = q[p]
             /\ \A i \in 2..p : m[i] = q[i-1]
             /\ \A i \in (p+1)..Len(q) : m[i] = q[i]
             /\ Distinct(m)
<1> DEFINE m == MoveToFirst(q, q[p])
<1>1. m = [i \in 1..Len(q) |->
             IF i = 1 THEN q[p] ELSE IF i <= p THEN q[i-1] ELSE q[i]]
  BY PositionIs DEF MoveToFirst
<1>2. m \in Seq(S) /\ Len(m) = Len(q)
  BY <1>1
<1>3. /\ m[1] = q[p]
      /\ \A i \in 2..p : m[i] = q[i-1]
      /\ \A i \in (p+1)..Len(q) : m[i] = q[i]
  BY <1>1
<1>4. Distinct(m)
  BY <1>1, <1>2 DEF Distinct
<1> QED
  BY <1>2, <1>3, <1>4

\* Removing the first session leaves the rest in place.
LEMMA WithoutFirstIs ==
  ASSUME NEW S, NEW q \in Seq(S), Distinct(q), q # << >>
  PROVE  LET w == Without(q, q[1])
         IN  /\ w \in Seq(S)
             /\ Len(w) = Len(q) - 1
             /\ \A i \in 1..Len(w) : w[i] = q[i+1]
             /\ Distinct(w)
<1> DEFINE w == Without(q, q[1])
<1>0. 1 \in 1..Len(q)
  OBVIOUS
<1>1. w = [i \in 1..(Len(q) - 1) |-> q[i+1]]
  BY <1>0, PositionIs DEF Without
<1>2. w \in Seq(S) /\ Len(w) = Len(q) - 1 /\ \A i \in 1..Len(w) : w[i] = q[i+1]
  BY <1>0, <1>1
<1> QED
  BY <1>2 DEF Distinct

\* What appending a session that is not in the queue does.
LEMMA AddLastIs ==
  ASSUME NEW S, NEW q \in Seq(S), Distinct(q), NEW s \in S,
         \A i \in 1..Len(q) : q[i] # s
  PROVE  LET m == AddLast(q, s)
         IN  /\ m \in Seq(S)
             /\ Len(m) = Len(q) + 1
             /\ m[Len(m)] = s
             /\ \A i \in 1..Len(q) : m[i] = q[i]
             /\ Distinct(m)
<1> DEFINE m == AddLast(q, s)
<1>1. m \in Seq(S) /\ Len(m) = Len(q) + 1 /\ m[Len(m)] = s
  BY DEF AddLast
<1>2. \A i \in 1..Len(q) : m[i] = q[i]
  BY DEF AddLast
<1>3. Distinct(m)
  BY <1>1, <1>2 DEF Distinct
<1> QED
  BY <1>1, <1>2, <1>3

-----------------------------------------------------------------------------

\* Where a processor is a client: in the code of a feature.
ClientPCs == {"body", "closing", "sync", "increment", "append", "mLock",
              "mRegion", "mAppend", "mWake"}
\* Where a_session, l_session and l_sibling are in use.
BasePCs == {"sync", "increment", "append", "mLock", "mRegion", "mAppend",
            "mWake", "prSibling", "prMark", "prWake"}
SiblingPCs == {"mRegion", "mAppend", "mWake", "prSibling", "prMark", "prWake"}
\* Within GE_promote_scoop_session and right after it.
PromotePCs == {"promote", "prRegion", "prScan", "prSibling", "prMark",
               "prWake", "prDone", "recheck"}

\* The local variables that the next step of a processor follows are set, and
\* the sessions of a region do not vanish under its processor: only the
\* processor itself removes them.
LocalsSet(t) ==
  /\ pc[t] \in BasePCs => base[t] # None
  /\ pc[t] \in SiblingPCs => sib[t] # None
  /\ pc[t] \in {"prScan", "prSibling", "prMark"} => scan[t] > 0
  /\ pc[t] \in {"exec", "remove"} => cur[t] # None
  /\ call[t] # None => pc[t] \in ClientPCs /\ cur[t] # None
  /\ cur[t] # None => queue[t] # << >>
  /\ pc[t] \in PromotePCs => queue[t] # << >>

\* The inductive invariant.
Inv == TypeOK /\ \A t \in Regions : LocalsSet(t)

\* What the invariant says of the pointers of a processor.
LEMMA Pointers ==
  ASSUME Inv, NEW t \in Regions
  PROVE  /\ 1..allocated \subseteq Sessions
         /\ \A s \in 1..allocated :
               /\ caller[s] \in Regions /\ callee[s] \in Regions
               /\ nextSibling[s] \in 1..allocated
         /\ pc[t] \in BasePCs => base[t] \in 1..allocated
         /\ pc[t] \in SiblingPCs => sib[t] \in 1..allocated
         /\ cur[t] # None => cur[t] \in 1..allocated
         /\ \A r \in Regions : queue[r] \in Seq(1..allocated)
<1> USE NoneAssumption, BoundsAssumption
<1>1. 1..allocated \subseteq Sessions
  BY DEF Inv, TypeOK, SessionTypes, Sessions
<1>2. \A s \in 1..allocated :
         /\ caller[s] \in Regions /\ callee[s] \in Regions
         /\ nextSibling[s] \in 1..allocated
  BY <1>1 DEF Inv, TypeOK, SessionTypes
<1>3. /\ pc[t] \in BasePCs => base[t] \in 1..allocated
      /\ pc[t] \in SiblingPCs => sib[t] \in 1..allocated
      /\ cur[t] # None => cur[t] \in 1..allocated
  BY DEF Inv, TypeOK, ThreadTypes, LocalsSet
<1> QED
  BY <1>1, <1>2, <1>3 DEF Inv, TypeOK, SharedTypes

\* The steps of another processor do not touch the locals of u; at most they
\* wake it up.
LEMMA OthersKeep ==
  ASSUME Inv, NEW u \in Regions,
         base'[u] = base[u], sib'[u] = sib[u], scan'[u] = scan[u],
         cur'[u] = cur[u], call'[u] = call[u],
         pc'[u] = pc[u] \/ (pc[u] = "waiting" /\ pc'[u] = "iterate"),
         queue[u] # << >> => queue'[u] # << >>
  PROVE  LocalsSet(u)'
BY DEF Inv, LocalsSet, BasePCs, SiblingPCs, PromotePCs, ClientPCs

\* A step of the processor t within a feature, or within a promotion, that
\* keeps the call it executes and does not empty its queue.
LEMMA OwnKeep ==
  ASSUME Inv, NEW t \in Regions, cur'[t] = cur[t], call'[t] = call[t],
         queue[t] # << >> => queue'[t] # << >>,
         \/ pc[t] \in ClientPCs /\ pc'[t] \in ClientPCs
         \/ /\ pc[t] \in PromotePCs /\ pc'[t] \in PromotePCs
            /\ pc'[t] \in {"prScan", "prSibling", "prMark"} => scan'[t] > 0,
         pc'[t] \in BasePCs => base'[t] # None,
         pc'[t] \in SiblingPCs => sib'[t] # None
  PROVE  LocalsSet(t)'
BY DEF Inv, LocalsSet, PromotePCs, ClientPCs

\* A wakeup of the processor of r.
LEMMA WokenIs ==
  ASSUME NEW next \in [Regions -> PCs], NEW r \in Regions
  PROVE  /\ Woken(next, r) \in [Regions -> PCs]
         /\ \A u \in Regions : \/ Woken(next, r)[u] = next[u]
                               \/ next[u] = "waiting" /\ Woken(next, r)[u] = "iterate"
BY DEF Woken, PCs

\* The first session of a region that has one.
LEMMA FirstType ==
  ASSUME Inv, NEW r \in Regions, queue[r] # << >>
  PROVE  Head(queue[r]) \in 1..allocated /\ Head(queue[r]) \in Sessions
<1>1. queue[r] \in Seq(1..allocated)
  BY DEF Inv, TypeOK, SharedTypes
<1>2. Head(queue[r]) \in 1..allocated
  BY <1>1, SeqElements
<1> QED
  BY <1>2, Pointers

\* A feature opens one session per separate argument.
LEMMA OpenBlockInv ==
  ASSUME Inv, NEW t \in Regions, OpenBlock(t)
  PROVE  Inv'
<1> USE NoneAssumption, BoundsAssumption
<1>0. PICK b \in Blocks[t] : OpenSessions(t, b)
  BY DEF OpenBlock
<1>b. b \in Seq(Regions) /\ Len(b) \in Nat \ {0}
  <2>1. b \in Seq(Regions \ {t}) /\ b # << >>
    BY BlocksAssumption
  <2> QED
    BY <2>1, SeqLarger
<1>a. /\ allocated \in Nat /\ allocated' \in 0..MaxSessions
      /\ allocated' = allocated + Len(b)
      /\ \A s \in 1..allocated' : s \in Sessions /\ s \in Nat
      /\ \A s \in 1..allocated' : s \notin 1..allocated =>
            s \in (allocated + 1)..(allocated + Len(b)) /\ s - allocated \in 1..Len(b)
      /\ 1..allocated \subseteq 1..allocated'
  BY <1>0, <1>b DEF OpenSessions, Inv, TypeOK, SessionTypes, Sessions
<1>q. \A q : q \in Seq(1..allocated) => q \in Seq(1..allocated')
  BY <1>a, SeqLarger
<1>1. SessionTypes'
  <2>1. callee' \in [Sessions -> Regions \union {None}]
    <3>1. \A s \in (allocated + 1)..(allocated + Len(b)) : b[s - allocated] \in Regions
      BY <1>a, <1>b
    <3> QED
      BY <3>1, <1>0 DEF OpenSessions, Inv, TypeOK, SessionTypes
  <2>2. caller' \in [Sessions -> Regions \union {None}]
    BY <1>0 DEF OpenSessions, Inv, TypeOK, SessionTypes
  <2>3. nextSibling' \in [Sessions -> Sessions \union {None}]
    <3>1. \A s \in (allocated + 1)..(allocated + Len(b)) : NextInRing(s, Len(b)) \in Sessions
      BY <1>a, <1>b DEF NextInRing
    <3> QED
      BY <3>1, <1>0 DEF OpenSessions, Inv, TypeOK, SessionTypes
  <2>4. isOpen' \in [Sessions -> BOOLEAN]
    BY <1>0 DEF OpenSessions, Inv, TypeOK, SessionTypes
  <2>5. ASSUME NEW s \in 1..allocated'
        PROVE  caller'[s] # None /\ callee'[s] # None /\ nextSibling'[s] \in 1..allocated'
    <3>1. CASE s \in 1..allocated
      <4>1. s \notin (allocated + 1)..(allocated + Len(b)) /\ s \in Sessions
        BY <3>1, <1>a
      <4>2. caller'[s] = caller[s] /\ callee'[s] = callee[s] /\ nextSibling'[s] = nextSibling[s]
        BY <4>1, <1>0 DEF OpenSessions
      <4>3. caller[s] # None /\ callee[s] # None /\ nextSibling[s] \in 1..allocated
        BY <3>1 DEF Inv, TypeOK, SessionTypes
      <4> QED
        BY <4>2, <4>3, <1>a
    <3>2. CASE s \notin 1..allocated
      <4>1. s \in (allocated + 1)..(allocated + Len(b)) /\ s \in Sessions /\ s - allocated \in 1..Len(b)
        BY <3>2, <1>a
      <4>2. caller'[s] = t /\ callee'[s] = b[s - allocated] /\ nextSibling'[s] = NextInRing(s, Len(b))
        BY <4>1, <1>0 DEF OpenSessions
      <4>3. NextInRing(s, Len(b)) \in 1..allocated'
        BY <4>1, <1>a, <1>b DEF NextInRing
      <4>4. b[s - allocated] \in Regions
        BY <4>1, <1>b
      <4> QED
        BY <4>2, <4>3, <4>4
    <3> QED
      BY <3>1, <3>2
  <2> QED
    BY <2>1, <2>2, <2>3, <2>4, <2>5, <1>0, <1>a DEF OpenSessions, Inv, TypeOK, SessionTypes
<1>2. SharedTypes'
  <2>1. queue' \in [Regions -> Seq(1..allocated')]
    BY <1>q, <1>0 DEF OpenSessions, Inv, TypeOK, SharedTypes
  <2> QED
    BY <2>1, <1>0 DEF OpenSessions, Inv, TypeOK, SharedTypes
<1>3. ThreadTypes'
  <2>1. block' \in [Regions -> Seq(1..allocated')]
    <3>1. [i \in 1..Len(b) |-> allocated + i] \in Seq(1..allocated')
      <4>1. \A i \in 1..Len(b) : allocated + i \in 1..allocated'
        BY <1>a, <1>b
      <4> QED
        BY <4>1, <1>b
    <3>2. block \in [Regions -> Seq(1..allocated')]
      BY <1>q DEF Inv, TypeOK, ThreadTypes
    <3> QED
      BY <3>1, <3>2, <1>0 DEF OpenSessions
  <2>2. /\ cur' \in [Regions -> (1..allocated') \union {None}]
        /\ base' \in [Regions -> (1..allocated') \union {None}]
        /\ sib' \in [Regions -> (1..allocated') \union {None}]
    BY <1>a, <1>0 DEF OpenSessions, Inv, TypeOK, ThreadTypes
  <2> QED
    BY <2>1, <2>2, <1>0 DEF OpenSessions, Inv, TypeOK, ThreadTypes
<1>4. ASSUME NEW u \in Regions PROVE LocalsSet(u)'
  BY <1>0, OthersKeep DEF OpenSessions
<1> QED
  BY <1>1, <1>2, <1>3, <1>4 DEF Inv, TypeOK

\* A call is logged.
LEMMA AddCallInv ==
  ASSUME Inv, NEW t \in Regions, AddCall(t)
  PROVE  Inv'
<1> USE NoneAssumption, BoundsAssumption, KindsAssumption
<1>0. PICK i \in 1..Len(block[t]), k \in CallKinds : AddCallTo(t, block[t][i], k)
  BY DEF AddCall
<1> DEFINE s == block[t][i]
<1>s. s \in 1..allocated /\ s \in Sessions /\ k \in {"async", "sync"} /\ pc[t] = "body"
  <2>1. block[t] \in Seq(1..allocated)
    BY DEF Inv, TypeOK, ThreadTypes
  <2>2. s \in 1..allocated
    BY <2>1, SeqElements
  <2> QED
    BY <2>2, Pointers DEF AddCall
<1> HIDE DEF s
<1>a. AddCallTo(t, s, k)
  BY <1>0 DEF s
<1>1. SessionTypes'
  <2>1. calls' \in [Sessions -> Seq({"async", "sync"})]
    BY <1>s, <1>a DEF Inv, TypeOK, SessionTypes, AddCallTo
  <2>2. logged' \in [Sessions -> Nat] /\ mustWait' \in [Sessions -> BOOLEAN]
    BY <1>s, <1>a DEF Inv, TypeOK, SessionTypes, AddCallTo
  <2> QED
    BY <2>1, <2>2, <1>a DEF Inv, TypeOK, SessionTypes, AddCallTo
<1>2. SharedTypes'
  BY <1>a DEF Inv, TypeOK, SharedTypes, AddCallTo
<1>n. pc'[t] \in {"sync", "body", "increment", "mLock"} /\ (pc'[t] # "body" => base'[t] = s)
  BY <1>a DEF Inv, TypeOK, ThreadTypes, AddCallTo
<1>3. ThreadTypes'
  <2>1. pc' \in [Regions -> PCs]
    BY <1>a DEF Inv, TypeOK, ThreadTypes, AddCallTo, PCs
  <2>2. base' \in [Regions -> (1..allocated) \union {None}]
    BY <1>s, <1>a DEF Inv, TypeOK, ThreadTypes, AddCallTo
  <2> QED
    BY <2>1, <2>2, <1>a DEF Inv, TypeOK, ThreadTypes, AddCallTo
<1>4. ASSUME NEW u \in Regions, u # t PROVE LocalsSet(u)'
  BY <1>4, <1>a, OthersKeep DEF Inv, TypeOK, ThreadTypes, AddCallTo
<1>5. LocalsSet(t)'
  <2>1. pc[t] \in ClientPCs /\ pc'[t] \in ClientPCs /\ pc'[t] \notin SiblingPCs
    BY <1>s, <1>n DEF ClientPCs, SiblingPCs
  <2>2. pc'[t] \in BasePCs => base'[t] # None
    BY <1>s, <1>n DEF BasePCs
  <2>3. cur'[t] = cur[t] /\ call'[t] = call[t] /\ queue'[t] = queue[t]
    BY <1>a DEF AddCallTo
  <2> QED
    BY <2>1, <2>2, <2>3, OwnKeep
<1> QED
  BY <1>1, <1>2, <1>3, <1>4, <1>5 DEF Inv, TypeOK

\* A singleton session is counted.
LEMMA CountSessionInv ==
  ASSUME Inv, NEW t \in Regions, CountSession(t)
  PROVE  Inv'
<1> USE NoneAssumption, MainAssumption, BoundsAssumption
<1>1. SessionTypes'
  BY Pointers DEF Inv, TypeOK, SessionTypes, CountSession, sessionVars, BasePCs, SiblingPCs
<1>2. SharedTypes'
  BY Pointers DEF Inv, TypeOK, SharedTypes, CountSession, sessionVars, BasePCs, SiblingPCs
<1>3. ThreadTypes'
  BY Pointers
  DEF Inv, TypeOK, ThreadTypes, CountSession, sessionVars, localVars, PCs,
      BasePCs, SiblingPCs
<1>4. ASSUME NEW u \in Regions, u # t PROVE LocalsSet(u)'
  BY <1>4, OthersKeep DEF Inv, TypeOK, SharedTypes, ThreadTypes, CountSession, localVars
<1>5. LocalsSet(t)'
  BY Pointers
  DEF Inv, TypeOK, SharedTypes, ThreadTypes, LocalsSet, CountSession,
      localVars, BasePCs, SiblingPCs, PromotePCs, ClientPCs
<1> QED
  BY <1>1, <1>2, <1>3, <1>4, <1>5 DEF Inv, TypeOK

\* A singleton session is queued.
LEMMA AppendSessionInv ==
  ASSUME Inv, NEW t \in Regions, AppendSession(t)
  PROVE  Inv'
<1> USE NoneAssumption
<1> DEFINE s == base[t]
           r == callee[s]
<1>s. s \in 1..allocated /\ s \in Sessions /\ r \in Regions /\ pc[t] = "append"
  BY Pointers DEF AppendSession, BasePCs
<1>q. /\ queue' \in [Regions -> Seq(1..allocated)]
      /\ \A u \in Regions : queue[u] # << >> => queue'[u] # << >>
  <2>1. queue' = [queue EXCEPT ![r] = AddLast(queue[r], s)]
    BY DEF AppendSession
  <2> QED
    BY <2>1, <1>s, AddLastType DEF Inv, TypeOK, SharedTypes
<1>n. /\ pc' = [Woken(pc, r) EXCEPT ![t] = IF mustWait[s] THEN "sync" ELSE "body"]
      /\ base' = [base EXCEPT ![t] = IF mustWait[s] THEN s ELSE None]
  BY DEF AppendSession, CallLogged
<1>p. /\ pc' \in [Regions -> PCs]
      /\ pc'[t] \in {"sync", "body"} /\ (pc'[t] = "sync" => base'[t] = s)
      /\ \A u \in Regions : u # t => pc'[u] = pc[u] \/ (pc[u] = "waiting" /\ pc'[u] = "iterate")
  BY <1>n, <1>s DEF Inv, TypeOK, ThreadTypes, PCs, Woken
<1>1. SessionTypes'
  BY <1>s DEF Inv, TypeOK, SessionTypes, AppendSession
<1>2. SharedTypes'
  BY <1>q DEF Inv, TypeOK, SharedTypes, AppendSession
<1>3. ThreadTypes'
  BY <1>p, <1>n, <1>s DEF Inv, TypeOK, ThreadTypes, AppendSession
<1>4. ASSUME NEW u \in Regions, u # t PROVE LocalsSet(u)'
  <2>1. base'[u] = base[u]
    BY <1>4, <1>n DEF Inv, TypeOK, ThreadTypes
  <2> QED
    BY <2>1, <1>4, <1>p, <1>q, OthersKeep DEF AppendSession
<1>5. LocalsSet(t)'
  <2>1. pc'[t] \in BasePCs => base'[t] # None
    BY <1>p, <1>s DEF BasePCs
  <2>2. pc'[t] \notin SiblingPCs /\ pc[t] \in ClientPCs /\ pc'[t] \in ClientPCs
    BY <1>p, <1>s DEF SiblingPCs, ClientPCs
  <2>3. cur'[t] = cur[t] /\ call'[t] = call[t] /\ scan'[t] = scan[t]
    BY DEF AppendSession
  <2> QED
    BY <2>1, <2>2, <2>3, <1>q, OwnKeep
<1> QED
  BY <1>1, <1>2, <1>3, <1>4, <1>5 DEF Inv, TypeOK

\* The lock on multisessions is taken by a client.
LEMMA LockMultisessionsInv ==
  ASSUME Inv, NEW t \in Regions, LockMultisessions(t)
  PROVE  Inv'
<1> USE NoneAssumption, MainAssumption, BoundsAssumption
<1>1. SessionTypes'
  BY Pointers
  DEF Inv, TypeOK, SessionTypes, LockMultisessions, sessionVars, BasePCs,
      SiblingPCs
<1>2. SharedTypes'
  BY Pointers
  DEF Inv, TypeOK, SharedTypes, LockMultisessions, sessionVars, BasePCs,
      SiblingPCs
<1>3. ThreadTypes'
  BY Pointers
  DEF Inv, TypeOK, ThreadTypes, LockMultisessions, sessionVars, localVars,
      PCs, BasePCs, SiblingPCs
<1>4. ASSUME NEW u \in Regions, u # t PROVE LocalsSet(u)'
  BY <1>4, OthersKeep
  DEF Inv, TypeOK, SharedTypes, ThreadTypes, LockMultisessions, localVars
<1>5. LocalsSet(t)'
  BY Pointers
  DEF Inv, TypeOK, SharedTypes, ThreadTypes, LocalsSet, LockMultisessions,
      localVars, BasePCs, SiblingPCs, PromotePCs, ClientPCs
<1> QED
  BY <1>1, <1>2, <1>3, <1>4, <1>5 DEF Inv, TypeOK

\* The region of a sibling is locked.
LEMMA LockCalleeInv ==
  ASSUME Inv, NEW t \in Regions, LockCallee(t)
  PROVE  Inv'
<1> USE NoneAssumption
<1>s. /\ sib[t] \in 1..allocated /\ callee[sib[t]] \in Regions /\ pc[t] = "mRegion"
      /\ nextSibling[sib[t]] \in 1..allocated /\ base[t] # None
  BY Pointers DEF LockCallee, BasePCs, SiblingPCs
<1>1. SessionTypes'
  BY DEF Inv, TypeOK, SessionTypes, LockCallee, sessionVars
<1>2. SharedTypes'
  BY <1>s DEF Inv, TypeOK, SharedTypes, LockCallee, sessionVars
<1>3. ThreadTypes'
  BY <1>s DEF Inv, TypeOK, ThreadTypes, LockCallee, sessionVars, PCs
<1>4. ASSUME NEW u \in Regions, u # t PROVE LocalsSet(u)'
  BY <1>4, OthersKeep DEF Inv, TypeOK, ThreadTypes, LockCallee
<1>5. LocalsSet(t)'
  <2>1. pc'[t] \in {"mAppend", "mRegion"} /\ sib'[t] # None
    BY <1>s DEF Inv, TypeOK, ThreadTypes, LockCallee
  <2>2. pc[t] \in ClientPCs /\ pc'[t] \in ClientPCs
    BY <2>1, <1>s DEF ClientPCs
  <2>3. cur'[t] = cur[t] /\ call'[t] = call[t] /\ base'[t] = base[t] /\ queue'[t] = queue[t]
    BY DEF LockCallee
  <2> QED
    BY <2>1, <2>2, <2>3, <1>s, OwnKeep
<1> QED
  BY <1>1, <1>2, <1>3, <1>4, <1>5 DEF Inv, TypeOK

\* A sibling is queued.
LEMMA AppendSiblingInv ==
  ASSUME Inv, NEW t \in Regions, AppendSibling(t)
  PROVE  Inv'
<1> USE NoneAssumption
<1> DEFINE s == sib[t]
           r == callee[s]
<1>s. /\ s \in 1..allocated /\ s \in Sessions /\ r \in Regions /\ pc[t] = "mAppend"
      /\ nextSibling[s] \in 1..allocated /\ base[t] # None
  BY Pointers DEF AppendSibling, BasePCs, SiblingPCs
<1>q. /\ queue' \in [Regions -> Seq(1..allocated)]
      /\ \A u \in Regions : queue[u] # << >> => queue'[u] # << >>
  <2>1. queue' = [queue EXCEPT ![r] = AddLast(queue[r], s)]
    BY DEF AppendSibling
  <2> QED
    BY <2>1, <1>s, AddLastType DEF Inv, TypeOK, SharedTypes
<1>p. pc'[t] \in {"mWake", "mAppend"} /\ sib'[t] # None
  BY <1>s DEF Inv, TypeOK, ThreadTypes, AppendSibling
<1>1. SessionTypes'
  BY <1>s DEF Inv, TypeOK, SessionTypes, AppendSibling
<1>2. SharedTypes'
  BY <1>q DEF Inv, TypeOK, SharedTypes, AppendSibling
<1>3. ThreadTypes'
  BY <1>s DEF Inv, TypeOK, ThreadTypes, AppendSibling, PCs
<1>4. ASSUME NEW u \in Regions, u # t PROVE LocalsSet(u)'
  BY <1>4, <1>q, OthersKeep DEF Inv, TypeOK, ThreadTypes, AppendSibling
<1>5. LocalsSet(t)'
  <2>1. cur'[t] = cur[t] /\ call'[t] = call[t] /\ base'[t] = base[t]
    BY DEF AppendSibling
  <2>2. pc[t] \in ClientPCs /\ pc'[t] \in ClientPCs
    BY <1>p, <1>s DEF ClientPCs
  <2> QED
    BY <2>1, <2>2, <1>p, <1>q, <1>s, OwnKeep
<1> QED
  BY <1>1, <1>2, <1>3, <1>4, <1>5 DEF Inv, TypeOK

\* The region of a sibling is woken.
LEMMA WakeCalleeInv ==
  ASSUME Inv, NEW t \in Regions, WakeCallee(t)
  PROVE  Inv'
<1> USE NoneAssumption
<1> DEFINE s == sib[t]
           r == callee[s]
<1>s. /\ s \in 1..allocated /\ r \in Regions /\ pc[t] = "mWake"
      /\ nextSibling[s] \in 1..allocated /\ base[t] \in 1..allocated
  BY Pointers DEF WakeCallee, BasePCs, SiblingPCs
<1>p. /\ pc' \in [Regions -> PCs]
      /\ \A u \in Regions : u # t => pc'[u] = pc[u] \/ (pc[u] = "waiting" /\ pc'[u] = "iterate")
      /\ base' \in [Regions -> (1..allocated) \union {None}]
      /\ sib' \in [Regions -> (1..allocated) \union {None}]
      /\ \A u \in Regions : u # t => base'[u] = base[u] /\ sib'[u] = sib[u]
      /\ \/ pc'[t] = "mWake" /\ base'[t] # None /\ sib'[t] # None
         \/ pc'[t] = "sync" /\ base'[t] # None
         \/ pc'[t] = "body"
      /\ multiLock' \in Regions \union {None}
  <2>1. CASE nextSibling[s] = base[t]
    <3>1. /\ pc' = [Woken(pc, r) EXCEPT ![t] = IF mustWait[base[t]] THEN "sync" ELSE "body"]
          /\ base' = [base EXCEPT ![t] = IF mustWait[base[t]] THEN base[t] ELSE None]
          /\ sib' = [sib EXCEPT ![t] = None] /\ multiLock' = None
      BY <2>1 DEF WakeCallee, CallLogged
    <3>2. pc \in [Regions -> PCs]
      BY DEF Inv, TypeOK, ThreadTypes
    <3>3. /\ pc' \in [Regions -> PCs] /\ pc'[t] = IF mustWait[base[t]] THEN "sync" ELSE "body"
          /\ \A u \in Regions : u # t => pc'[u] = pc[u] \/ (pc[u] = "waiting" /\ pc'[u] = "iterate")
      <4>1. Woken(pc, r) \in [Regions -> PCs]
        BY <3>2, <1>s, WokenIs
      <4>2. "sync" \in PCs /\ "body" \in PCs
        BY DEF PCs
      <4> QED
        BY <4>1, <4>2, <3>1, <3>2, <1>s, WokenIs
    <3>4. /\ base' \in [Regions -> (1..allocated) \union {None}]
          /\ sib' \in [Regions -> (1..allocated) \union {None}]
          /\ \A u \in Regions : u # t => base'[u] = base[u] /\ sib'[u] = sib[u]
          /\ mustWait[base[t]] => base'[t] # None
      BY <3>1, <1>s DEF Inv, TypeOK, ThreadTypes
    <3> QED
      BY <3>1, <3>3, <3>4
  <2>2. CASE nextSibling[s] # base[t]
    <3>1. /\ pc' = Woken(pc, r) /\ base' = base /\ multiLock' = multiLock
          /\ sib' = [sib EXCEPT ![t] = nextSibling[s]]
      BY <2>2 DEF WakeCallee
    <3>2. pc \in [Regions -> PCs] /\ multiLock \in Regions \union {None}
      BY DEF Inv, TypeOK, SharedTypes, ThreadTypes
    <3>3. /\ pc' \in [Regions -> PCs] /\ pc'[t] = "mWake"
          /\ \A u \in Regions : pc'[u] = pc[u] \/ (pc[u] = "waiting" /\ pc'[u] = "iterate")
      BY <3>1, <3>2, <1>s, WokenIs
    <3>4. /\ base' \in [Regions -> (1..allocated) \union {None}]
          /\ sib' \in [Regions -> (1..allocated) \union {None}] /\ sib'[t] # None
          /\ \A u \in Regions : u # t => base'[u] = base[u] /\ sib'[u] = sib[u]
          /\ base'[t] # None
      BY <3>1, <1>s DEF Inv, TypeOK, ThreadTypes
    <3> QED
      BY <3>1, <3>2, <3>3, <3>4
  <2> QED
    BY <2>1, <2>2
<1>1. SessionTypes'
  BY DEF Inv, TypeOK, SessionTypes, WakeCallee, sessionVars
<1>2. SharedTypes'
  BY <1>p DEF Inv, TypeOK, SharedTypes, WakeCallee, sessionVars
<1>3. ThreadTypes'
  BY <1>p DEF Inv, TypeOK, ThreadTypes, WakeCallee, sessionVars
<1>4. ASSUME NEW u \in Regions, u # t PROVE LocalsSet(u)'
  BY <1>4, <1>p, OthersKeep DEF WakeCallee
<1>5. LocalsSet(t)'
  <2>1. pc[t] \in ClientPCs /\ pc'[t] \in ClientPCs
    BY <1>p, <1>s DEF ClientPCs
  <2>2. (pc'[t] \in BasePCs => base'[t] # None) /\ (pc'[t] \in SiblingPCs => sib'[t] # None)
    BY <1>p DEF BasePCs, SiblingPCs
  <2>3. cur'[t] = cur[t] /\ call'[t] = call[t] /\ queue'[t] = queue[t]
    BY DEF WakeCallee
  <2> QED
    BY <2>1, <2>2, <2>3, OwnKeep
<1> QED
  BY <1>1, <1>2, <1>3, <1>4, <1>5 DEF Inv, TypeOK

\* A synchronous call returns.
LEMMA SyncReturnInv ==
  ASSUME Inv, NEW t \in Regions, SyncReturn(t)
  PROVE  Inv'
<1> USE NoneAssumption, MainAssumption, BoundsAssumption
<1>1. SessionTypes'
  BY Pointers DEF Inv, TypeOK, SessionTypes, SyncReturn, sessionVars, BasePCs, SiblingPCs
<1>2. SharedTypes'
  BY Pointers DEF Inv, TypeOK, SharedTypes, SyncReturn, sessionVars, BasePCs, SiblingPCs
<1>3. ThreadTypes'
  BY Pointers
  DEF Inv, TypeOK, ThreadTypes, SyncReturn, sessionVars, localVars, PCs,
      BasePCs, SiblingPCs
<1>4. ASSUME NEW u \in Regions, u # t PROVE LocalsSet(u)'
  BY <1>4, OthersKeep DEF Inv, TypeOK, SharedTypes, ThreadTypes, SyncReturn, localVars
<1>5. LocalsSet(t)'
  BY Pointers
  DEF Inv, TypeOK, SharedTypes, ThreadTypes, LocalsSet, SyncReturn, localVars,
      BasePCs, SiblingPCs, PromotePCs, ClientPCs
<1> QED
  BY <1>1, <1>2, <1>3, <1>4, <1>5 DEF Inv, TypeOK

\* A session is closed.
LEMMA CloseSessionInv ==
  ASSUME Inv, NEW t \in Regions, CloseSession(t)
  PROVE  Inv'
<1> USE NoneAssumption
<1>s. /\ block[t] \in Seq(1..allocated) /\ block[t] # << >>
      /\ Head(block[t]) \in 1..allocated /\ Tail(block[t]) \in Seq(1..allocated)
      /\ pc[t] \in {"body", "closing"}
  <2>1. block[t] \in Seq(1..allocated) /\ block[t] # << >> /\ pc[t] \in {"body", "closing"}
    BY DEF Inv, TypeOK, ThreadTypes, CloseSession
  <2> QED
    BY <2>1, SeqElements
<1>h. Head(block[t]) \in Sessions
  BY <1>s, Pointers
<1>1. SessionTypes'
  <2>1. isOpen' \in [Sessions -> BOOLEAN] /\ freed' \subseteq Sessions
    BY <1>h DEF Inv, TypeOK, SessionTypes, CloseSession, Closed
  <2> QED
    BY <2>1 DEF Inv, TypeOK, SessionTypes, CloseSession
<1>2. SharedTypes'
  BY DEF Inv, TypeOK, SharedTypes, CloseSession
<1>3. ThreadTypes'
  <2>1. block' \in [Regions -> Seq(1..allocated)]
    BY <1>s DEF Inv, TypeOK, ThreadTypes, CloseSession
  <2>2. pc' \in [Regions -> PCs]
    BY DEF Inv, TypeOK, ThreadTypes, CloseSession, PCs
  <2> QED
    BY <2>1, <2>2 DEF Inv, TypeOK, ThreadTypes, CloseSession
<1>4. ASSUME NEW u \in Regions, u # t PROVE LocalsSet(u)'
  BY <1>4, OthersKeep DEF Inv, TypeOK, ThreadTypes, CloseSession
<1>5. LocalsSet(t)'
  <2>1. pc'[t] \in {"body", "closing"}
    BY DEF Inv, TypeOK, ThreadTypes, CloseSession
  <2>2. /\ pc[t] \in ClientPCs /\ pc'[t] \in ClientPCs
        /\ pc'[t] \notin BasePCs /\ pc'[t] \notin SiblingPCs
    BY <2>1, <1>s DEF ClientPCs, BasePCs, SiblingPCs
  <2>3. cur'[t] = cur[t] /\ call'[t] = call[t] /\ queue'[t] = queue[t]
    BY DEF CloseSession
  <2> QED
    BY <2>2, <2>3, OwnKeep
<1> QED
  BY <1>1, <1>2, <1>3, <1>4, <1>5 DEF Inv, TypeOK

\* The processor looks at its first session.
LEMMA IterateInv ==
  ASSUME Inv, NEW t \in Regions, Iterate(t)
  PROVE  Inv'
<1> USE NoneAssumption
<1>p. pc[t] = "iterate" /\ queue' = queue /\ call' = call
  BY DEF Iterate
<1>c. \/ /\ regionLock' = [regionLock EXCEPT ![t] = t]
         /\ pc' = [pc EXCEPT ![t] = "idle"]
         /\ isRunning' = isRunning /\ cur' = cur
      \/ /\ queue[t] # << >>
         /\ pc' = [pc EXCEPT ![t] = "promote"]
         /\ isRunning' = isRunning /\ cur' = cur /\ regionLock' = regionLock
      \/ /\ queue[t] # << >> /\ regionLock' = regionLock
         /\ isRunning' = [isRunning EXCEPT ![Head(queue[t])] = TRUE]
         /\ cur' = [cur EXCEPT ![t] = Head(queue[t])]
         /\ pc' = [pc EXCEPT ![t] = "exec"]
  BY DEF Iterate, Promotable, Take
<1>t. /\ isRunning' \in [Sessions -> BOOLEAN]
      /\ cur' \in [Regions -> (1..allocated) \union {None}]
      /\ pc' \in [Regions -> PCs]
      /\ regionLock' \in [Regions -> Regions \union {None}]
      /\ \A u \in Regions : u # t => pc'[u] = pc[u] /\ cur'[u] = cur[u]
  <2>1. isRunning' \in [Sessions -> BOOLEAN]
    BY <1>c, FirstType DEF Inv, TypeOK, SessionTypes
  <2>2. cur' \in [Regions -> (1..allocated) \union {None}]
    <3>1. cur \in [Regions -> (1..allocated) \union {None}]
      BY DEF Inv, TypeOK, ThreadTypes
    <3> QED
      BY <3>1, <1>c, FirstType
  <2>3. pc' \in [Regions -> PCs]
    BY <1>c DEF Inv, TypeOK, ThreadTypes, PCs
  <2>4. regionLock' \in [Regions -> Regions \union {None}]
    BY <1>c DEF Inv, TypeOK, SharedTypes
  <2>5. \A u \in Regions : u # t => pc'[u] = pc[u] /\ cur'[u] = cur[u]
    BY <1>c DEF Inv, TypeOK, ThreadTypes
  <2> QED
    BY <2>1, <2>2, <2>3, <2>4, <2>5
<1>1. SessionTypes'
  BY <1>t DEF Inv, TypeOK, SessionTypes, Iterate
<1>2. SharedTypes'
  BY <1>t DEF Inv, TypeOK, SharedTypes, Iterate
<1>3. ThreadTypes'
  BY <1>t DEF Inv, TypeOK, ThreadTypes, Iterate
<1>4. ASSUME NEW u \in Regions, u # t PROVE LocalsSet(u)'
  BY <1>4, <1>t, OthersKeep DEF Iterate
<1>5. LocalsSet(t)'
  <2>1. \/ pc'[t] = "idle" /\ cur'[t] = cur[t]
        \/ pc'[t] = "promote" /\ cur'[t] = cur[t] /\ queue[t] # << >>
        \/ pc'[t] = "exec" /\ cur'[t] # None /\ queue[t] # << >>
    BY <1>c, FirstType DEF Inv, TypeOK, ThreadTypes
  <2> QED
    BY <2>1, <1>p DEF Inv, LocalsSet, BasePCs, SiblingPCs, PromotePCs, ClientPCs
<1> QED
  BY <1>1, <1>2, <1>3, <1>4, <1>5 DEF Inv, TypeOK

\* The processor looks again after the promotion.
LEMMA RecheckInv ==
  ASSUME Inv, NEW t \in Regions, Recheck(t)
  PROVE  Inv'
<1> USE NoneAssumption
<1>p. pc[t] = "recheck" /\ queue' = queue /\ call' = call /\ queue[t] # << >>
  BY DEF Recheck, Inv, LocalsSet, PromotePCs
<1>c. \/ /\ regionLock' = [regionLock EXCEPT ![t] = t]
         /\ pc' = [pc EXCEPT ![t] = "idle"]
         /\ isRunning' = isRunning /\ cur' = cur
      \/ /\ regionLock' = regionLock
         /\ isRunning' = [isRunning EXCEPT ![Head(queue[t])] = TRUE]
         /\ cur' = [cur EXCEPT ![t] = Head(queue[t])]
         /\ pc' = [pc EXCEPT ![t] = "exec"]
  BY DEF Recheck, Take
<1>t. /\ isRunning' \in [Sessions -> BOOLEAN]
      /\ cur' \in [Regions -> (1..allocated) \union {None}]
      /\ pc' \in [Regions -> PCs]
      /\ regionLock' \in [Regions -> Regions \union {None}]
      /\ \A u \in Regions : u # t => pc'[u] = pc[u] /\ cur'[u] = cur[u]
  <2>1. isRunning' \in [Sessions -> BOOLEAN]
    BY <1>c, <1>p, FirstType DEF Inv, TypeOK, SessionTypes
  <2>2. cur' \in [Regions -> (1..allocated) \union {None}]
    <3>1. cur \in [Regions -> (1..allocated) \union {None}]
      BY DEF Inv, TypeOK, ThreadTypes
    <3> QED
      BY <3>1, <1>c, <1>p, FirstType
  <2>3. pc' \in [Regions -> PCs]
    BY <1>c DEF Inv, TypeOK, ThreadTypes, PCs
  <2>4. regionLock' \in [Regions -> Regions \union {None}]
    BY <1>c DEF Inv, TypeOK, SharedTypes
  <2>5. \A u \in Regions : u # t => pc'[u] = pc[u] /\ cur'[u] = cur[u]
    BY <1>c DEF Inv, TypeOK, ThreadTypes
  <2> QED
    BY <2>1, <2>2, <2>3, <2>4, <2>5
<1>1. SessionTypes'
  BY <1>t DEF Inv, TypeOK, SessionTypes, Recheck
<1>2. SharedTypes'
  BY <1>t DEF Inv, TypeOK, SharedTypes, Recheck
<1>3. ThreadTypes'
  BY <1>t DEF Inv, TypeOK, ThreadTypes, Recheck
<1>4. ASSUME NEW u \in Regions, u # t PROVE LocalsSet(u)'
  BY <1>4, <1>t, OthersKeep DEF Recheck
<1>5. LocalsSet(t)'
  <2>1. \/ pc'[t] = "idle" /\ cur'[t] = cur[t]
        \/ pc'[t] = "exec" /\ cur'[t] # None
    BY <1>c, <1>p, FirstType DEF Inv, TypeOK, ThreadTypes
  <2> QED
    BY <2>1, <1>p DEF Inv, LocalsSet, BasePCs, SiblingPCs, PromotePCs, ClientPCs
<1> QED
  BY <1>1, <1>2, <1>3, <1>4, <1>5 DEF Inv, TypeOK

\* The processor finds nothing to execute.
LEMMA IdleInv ==
  ASSUME Inv, NEW t \in Regions, Idle(t)
  PROVE  Inv'
<1> USE NoneAssumption, MainAssumption, BoundsAssumption
<1>1. SessionTypes'
  BY Pointers DEF Inv, TypeOK, SessionTypes, Idle, sessionVars, BasePCs, SiblingPCs
<1>2. SharedTypes'
  BY Pointers DEF Inv, TypeOK, SharedTypes, Idle, sessionVars, BasePCs, SiblingPCs
<1>3. ThreadTypes'
  BY Pointers
  DEF Inv, TypeOK, ThreadTypes, Idle, sessionVars, localVars, PCs, BasePCs,
      SiblingPCs
<1>4. ASSUME NEW u \in Regions, u # t PROVE LocalsSet(u)'
  BY <1>4, OthersKeep DEF Inv, TypeOK, SharedTypes, ThreadTypes, Idle, localVars
<1>5. LocalsSet(t)'
  BY Pointers
  DEF Inv, TypeOK, SharedTypes, ThreadTypes, LocalsSet, Idle, localVars,
      BasePCs, SiblingPCs, PromotePCs, ClientPCs
<1> QED
  BY <1>1, <1>2, <1>3, <1>4, <1>5 DEF Inv, TypeOK

\* The processor waits for a session.
LEMMA SleepInv ==
  ASSUME Inv, NEW t \in Regions, Sleep(t)
  PROVE  Inv'
<1> USE NoneAssumption, MainAssumption, BoundsAssumption
<1>1. SessionTypes'
  BY Pointers DEF Inv, TypeOK, SessionTypes, Sleep, sessionVars, BasePCs, SiblingPCs
<1>2. SharedTypes'
  BY Pointers DEF Inv, TypeOK, SharedTypes, Sleep, sessionVars, BasePCs, SiblingPCs
<1>3. ThreadTypes'
  BY Pointers
  DEF Inv, TypeOK, ThreadTypes, Sleep, sessionVars, localVars, PCs, BasePCs,
      SiblingPCs
<1>4. ASSUME NEW u \in Regions, u # t PROVE LocalsSet(u)'
  BY <1>4, OthersKeep DEF Inv, TypeOK, SharedTypes, ThreadTypes, Sleep, localVars
<1>5. LocalsSet(t)'
  BY Pointers
  DEF Inv, TypeOK, SharedTypes, ThreadTypes, LocalsSet, Sleep, localVars,
      BasePCs, SiblingPCs, PromotePCs, ClientPCs
<1> QED
  BY <1>1, <1>2, <1>3, <1>4, <1>5 DEF Inv, TypeOK

\* The wait ends after its timeout.
LEMMA TimeoutInv ==
  ASSUME Inv, NEW t \in Regions, Timeout(t)
  PROVE  Inv'
<1> USE NoneAssumption, MainAssumption, BoundsAssumption
<1>1. SessionTypes'
  BY Pointers DEF Inv, TypeOK, SessionTypes, Timeout, sessionVars, BasePCs, SiblingPCs
<1>2. SharedTypes'
  BY Pointers DEF Inv, TypeOK, SharedTypes, Timeout, sessionVars, BasePCs, SiblingPCs
<1>3. ThreadTypes'
  BY Pointers
  DEF Inv, TypeOK, ThreadTypes, Timeout, sessionVars, localVars, PCs, BasePCs,
      SiblingPCs
<1>4. ASSUME NEW u \in Regions, u # t PROVE LocalsSet(u)'
  BY <1>4, OthersKeep DEF Inv, TypeOK, SharedTypes, ThreadTypes, Timeout, localVars
<1>5. LocalsSet(t)'
  BY Pointers
  DEF Inv, TypeOK, SharedTypes, ThreadTypes, LocalsSet, Timeout, localVars,
      BasePCs, SiblingPCs, PromotePCs, ClientPCs
<1> QED
  BY <1>1, <1>2, <1>3, <1>4, <1>5 DEF Inv, TypeOK

\* The processor takes the next call.
LEMMA NextCallInv ==
  ASSUME Inv, NEW t \in Regions, NextCall(t)
  PROVE  Inv'
<1> USE NoneAssumption
<1>s. cur[t] \in Sessions /\ cur[t] # None /\ pc[t] = "exec" /\ queue[t] # << >>
  <2>1. pc[t] = "exec" /\ cur[t] # None /\ queue[t] # << >>
    BY DEF NextCall, Inv, LocalsSet
  <2> QED
    BY <2>1, Pointers
<1>k. /\ Head(calls[cur[t]]) \in {"async", "sync"}
      /\ Tail(calls[cur[t]]) \in Seq({"async", "sync"})
  <2>1. calls[cur[t]] \in Seq({"async", "sync"}) /\ calls[cur[t]] # << >>
    BY <1>s DEF Inv, TypeOK, SessionTypes, NextCall
  <2> QED
    BY <2>1
<1>1. SessionTypes'
  <2>1. calls' \in [Sessions -> Seq({"async", "sync"})]
    BY <1>k DEF Inv, TypeOK, SessionTypes, NextCall
  <2>2. applied' \in [Sessions -> Nat]
    <3>1. applied \in [Sessions -> Nat]
      BY DEF Inv, TypeOK, SessionTypes
    <3>2. applied' = [applied EXCEPT ![cur[t]] = applied[cur[t]] + 1]
      BY DEF NextCall
    <3> QED
      BY <3>1, <3>2, <1>s
  <2> QED
    BY <2>1, <2>2 DEF Inv, TypeOK, SessionTypes, NextCall
<1>2. SharedTypes'
  BY DEF Inv, TypeOK, SharedTypes, NextCall
<1>3. ThreadTypes'
  <2>1. call' \in [Regions -> {"async", "sync", None}]
    BY <1>k DEF Inv, TypeOK, ThreadTypes, NextCall
  <2>2. pc' \in [Regions -> PCs]
    BY DEF Inv, TypeOK, ThreadTypes, NextCall, PCs
  <2> QED
    BY <2>1, <2>2 DEF Inv, TypeOK, ThreadTypes, NextCall
<1>4. ASSUME NEW u \in Regions, u # t PROVE LocalsSet(u)'
  BY <1>4, OthersKeep DEF Inv, TypeOK, ThreadTypes, NextCall
<1>5. LocalsSet(t)'
  <2>1. pc'[t] = "body" /\ cur' = cur /\ queue' = queue
    BY DEF Inv, TypeOK, ThreadTypes, NextCall
  <2> QED
    BY <2>1, <1>s DEF LocalsSet, BasePCs, SiblingPCs, PromotePCs, ClientPCs
<1> QED
  BY <1>1, <1>2, <1>3, <1>4, <1>5 DEF Inv, TypeOK

\* The session is finished.
LEMMA EndSessionInv ==
  ASSUME Inv, NEW t \in Regions, EndSession(t)
  PROVE  Inv'
<1> USE NoneAssumption, MainAssumption, BoundsAssumption
<1>1. SessionTypes'
  BY Pointers DEF Inv, TypeOK, SessionTypes, EndSession, sessionVars, BasePCs, SiblingPCs
<1>2. SharedTypes'
  BY Pointers DEF Inv, TypeOK, SharedTypes, EndSession, sessionVars, BasePCs, SiblingPCs
<1>3. ThreadTypes'
  BY Pointers
  DEF Inv, TypeOK, ThreadTypes, EndSession, sessionVars, localVars, PCs,
      BasePCs, SiblingPCs
<1>4. ASSUME NEW u \in Regions, u # t PROVE LocalsSet(u)'
  BY <1>4, OthersKeep DEF Inv, TypeOK, SharedTypes, ThreadTypes, EndSession, localVars
<1>5. LocalsSet(t)'
  BY Pointers
  DEF Inv, TypeOK, SharedTypes, ThreadTypes, LocalsSet, EndSession, localVars,
      BasePCs, SiblingPCs, PromotePCs, ClientPCs
<1> QED
  BY <1>1, <1>2, <1>3, <1>4, <1>5 DEF Inv, TypeOK

\* The feature returns.
LEMMA EndBodyInv ==
  ASSUME Inv, NEW t \in Regions, EndBody(t)
  PROVE  Inv'
<1> USE NoneAssumption, MainAssumption, BoundsAssumption
<1>1. SessionTypes'
  BY Pointers DEF Inv, TypeOK, SessionTypes, EndBody, sessionVars, BasePCs, SiblingPCs
<1>2. SharedTypes'
  BY Pointers DEF Inv, TypeOK, SharedTypes, EndBody, sessionVars, BasePCs, SiblingPCs
<1>3. ThreadTypes'
  BY Pointers
  DEF Inv, TypeOK, ThreadTypes, EndBody, sessionVars, localVars, PCs, BasePCs,
      SiblingPCs
<1>4. ASSUME NEW u \in Regions, u # t PROVE LocalsSet(u)'
  BY <1>4, OthersKeep DEF Inv, TypeOK, SharedTypes, ThreadTypes, EndBody, localVars
<1>5. LocalsSet(t)'
  BY Pointers
  DEF Inv, TypeOK, SharedTypes, ThreadTypes, LocalsSet, EndBody, localVars,
      BasePCs, SiblingPCs, PromotePCs, ClientPCs
<1> QED
  BY <1>1, <1>2, <1>3, <1>4, <1>5 DEF Inv, TypeOK

\* The processor removes the session it executed.
LEMMA RemoveSessionInv ==
  ASSUME Inv, NEW t \in Regions, RemoveSession(t)
  PROVE  Inv'
<1> USE NoneAssumption
<1>s. cur[t] \in Sessions /\ pc[t] = "remove" /\ queue[t] # << >> /\ call[t] = None
  <2>1. pc[t] = "remove" /\ cur[t] # None /\ queue[t] # << >> /\ call[t] = None
    BY DEF RemoveSession, Inv, LocalsSet, ClientPCs
  <2> QED
    BY <2>1, Pointers
<1>q. /\ queue' \in [Regions -> Seq(1..allocated)]
      /\ \A u \in Regions : u # t => queue'[u] = queue[u]
  <2>1. queue' = [queue EXCEPT ![t] = Without(queue[t], cur[t])]
    BY DEF RemoveSession
  <2>2. queue \in [Regions -> Seq(1..allocated)] /\ queue[t] \in Seq(1..allocated)
    BY DEF Inv, TypeOK, SharedTypes
  <2>3. Without(queue[t], cur[t]) \in Seq(1..allocated)
    BY <2>2, <1>s, WithoutType
  <2> QED
    BY <2>1, <2>2, <2>3
<1>1. SessionTypes'
  <2>1. freed' \subseteq Sessions
    BY <1>s DEF Inv, TypeOK, SessionTypes, RemoveSession
  <2> QED
    BY <2>1 DEF Inv, TypeOK, SessionTypes, RemoveSession
<1>2. SharedTypes'
  BY <1>q DEF Inv, TypeOK, SharedTypes, RemoveSession
<1>3. ThreadTypes'
  BY DEF Inv, TypeOK, ThreadTypes, RemoveSession, PCs
<1>4. ASSUME NEW u \in Regions, u # t PROVE LocalsSet(u)'
  BY <1>4, <1>q, OthersKeep DEF Inv, TypeOK, ThreadTypes, RemoveSession
<1>5. LocalsSet(t)'
  <2>1. pc'[t] = "decrement" /\ cur'[t] = None /\ call'[t] = None
    BY <1>s DEF Inv, TypeOK, ThreadTypes, RemoveSession
  <2> QED
    BY <2>1 DEF LocalsSet, BasePCs, SiblingPCs, PromotePCs
<1> QED
  BY <1>1, <1>2, <1>3, <1>4, <1>5 DEF Inv, TypeOK

\* The session is no longer counted.
LEMMA DecrementCountInv ==
  ASSUME Inv, NEW t \in Regions, DecrementCount(t)
  PROVE  Inv'
<1> USE NoneAssumption, MainAssumption, BoundsAssumption
<1>1. SessionTypes'
  BY Pointers
  DEF Inv, TypeOK, SessionTypes, DecrementCount, sessionVars, BasePCs,
      SiblingPCs
<1>2. SharedTypes'
  BY Pointers DEF Inv, TypeOK, SharedTypes, DecrementCount, sessionVars, BasePCs, SiblingPCs
<1>3. ThreadTypes'
  BY Pointers
  DEF Inv, TypeOK, ThreadTypes, DecrementCount, sessionVars, localVars, PCs,
      BasePCs, SiblingPCs
<1>4. ASSUME NEW u \in Regions, u # t PROVE LocalsSet(u)'
  BY <1>4, OthersKeep DEF Inv, TypeOK, SharedTypes, ThreadTypes, DecrementCount, localVars
<1>5. LocalsSet(t)'
  BY Pointers
  DEF Inv, TypeOK, SharedTypes, ThreadTypes, LocalsSet, DecrementCount,
      localVars, BasePCs, SiblingPCs, PromotePCs, ClientPCs
<1> QED
  BY <1>1, <1>2, <1>3, <1>4, <1>5 DEF Inv, TypeOK

\* The main processor is woken.
LEMMA WakeMainInv ==
  ASSUME Inv, NEW t \in Regions, WakeMain(t)
  PROVE  Inv'
<1> USE NoneAssumption, MainAssumption, BoundsAssumption
<1>1. SessionTypes'
  BY Pointers
  DEF Inv, TypeOK, SessionTypes, WakeMain, sessionVars, BasePCs, SiblingPCs,
      Woken
<1>2. SharedTypes'
  BY Pointers
  DEF Inv, TypeOK, SharedTypes, WakeMain, sessionVars, BasePCs, SiblingPCs,
      Woken
<1>3. ThreadTypes'
  BY Pointers
  DEF Inv, TypeOK, ThreadTypes, WakeMain, sessionVars, localVars, PCs,
      BasePCs, SiblingPCs, Woken
<1>4. ASSUME NEW u \in Regions, u # t PROVE LocalsSet(u)'
  BY <1>4, OthersKeep DEF Inv, TypeOK, SharedTypes, ThreadTypes, WakeMain, localVars, Woken
<1>5. LocalsSet(t)'
  BY Pointers
  DEF Inv, TypeOK, SharedTypes, ThreadTypes, LocalsSet, WakeMain, localVars,
      BasePCs, SiblingPCs, PromotePCs, ClientPCs, Woken
<1> QED
  BY <1>1, <1>2, <1>3, <1>4, <1>5 DEF Inv, TypeOK

\* The lock on multisessions is taken by a processor.
LEMMA PromoteLockInv ==
  ASSUME Inv, NEW t \in Regions, PromoteLock(t)
  PROVE  Inv'
<1> USE NoneAssumption, MainAssumption, BoundsAssumption
<1>1. SessionTypes'
  BY Pointers DEF Inv, TypeOK, SessionTypes, PromoteLock, sessionVars, BasePCs, SiblingPCs
<1>2. SharedTypes'
  BY Pointers DEF Inv, TypeOK, SharedTypes, PromoteLock, sessionVars, BasePCs, SiblingPCs
<1>3. ThreadTypes'
  BY Pointers
  DEF Inv, TypeOK, ThreadTypes, PromoteLock, sessionVars, localVars, PCs,
      BasePCs, SiblingPCs
<1>4. ASSUME NEW u \in Regions, u # t PROVE LocalsSet(u)'
  BY <1>4, OthersKeep DEF Inv, TypeOK, SharedTypes, ThreadTypes, PromoteLock, localVars
<1>5. LocalsSet(t)'
  BY Pointers
  DEF Inv, TypeOK, SharedTypes, ThreadTypes, LocalsSet, PromoteLock,
      localVars, BasePCs, SiblingPCs, PromotePCs, ClientPCs
<1> QED
  BY <1>1, <1>2, <1>3, <1>4, <1>5 DEF Inv, TypeOK

\* The processor locks its own region.
LEMMA PromoteRegionInv ==
  ASSUME Inv, NEW t \in Regions, PromoteRegion(t)
  PROVE  Inv'
<1> USE NoneAssumption
<1>1. SessionTypes'
  BY DEF Inv, TypeOK, SessionTypes, PromoteRegion, sessionVars
<1>2. SharedTypes'
  BY DEF Inv, TypeOK, SharedTypes, PromoteRegion, sessionVars
<1>3. ThreadTypes'
  BY DEF Inv, TypeOK, ThreadTypes, PromoteRegion, sessionVars, PCs
<1>4. ASSUME NEW u \in Regions, u # t PROVE LocalsSet(u)'
  BY <1>4, OthersKeep DEF Inv, TypeOK, ThreadTypes, PromoteRegion
<1>5. LocalsSet(t)'
  <2>1. /\ pc[t] = "prRegion" /\ pc'[t] = "prScan" /\ scan'[t] = 1
        /\ cur'[t] = cur[t] /\ call'[t] = call[t] /\ queue'[t] = queue[t]
    BY DEF Inv, TypeOK, ThreadTypes, PromoteRegion
  <2>2. /\ pc[t] \in PromotePCs /\ pc'[t] \in PromotePCs
        /\ pc'[t] \notin BasePCs /\ pc'[t] \notin SiblingPCs
    BY <2>1 DEF PromotePCs, BasePCs, SiblingPCs
  <2>3. scan'[t] > 0
    BY <2>1
  <2> QED
    BY <2>1, <2>2, <2>3, OwnKeep
<1> QED
  BY <1>1, <1>2, <1>3, <1>4, <1>5 DEF Inv, TypeOK

\* The next candidate for promotion.
LEMMA PromoteScanInv ==
  ASSUME Inv, NEW t \in Regions, PromoteScan(t)
  PROVE  Inv'
<1> USE NoneAssumption
<1> DEFINE s == queue[t][scan[t]]
<1>p. /\ pc[t] = "prScan" /\ scan[t] \in Nat \ {0}
      /\ queue \in [Regions -> Seq(1..allocated)] /\ queue[t] \in Seq(1..allocated)
  BY DEF Inv, TypeOK, SharedTypes, ThreadTypes, LocalsSet, PromoteScan
<1>c. \/ /\ pc' = [pc EXCEPT ![t] = "prDone"]
         /\ UNCHANGED <<queue, isRunning, base, sib, locks, ready>>
      \/ /\ scan[t] <= Len(queue[t])
         /\ queue' = [queue EXCEPT ![t] = MoveToFirst(queue[t], s)]
         /\ isRunning' = [isRunning EXCEPT ![s] = TRUE]
         /\ pc' = [pc EXCEPT ![t] = "prDone"]
         /\ UNCHANGED <<base, sib, locks, ready>>
      \/ /\ scan[t] <= Len(queue[t])
         /\ base' = [base EXCEPT ![t] = s]
         /\ sib' = [sib EXCEPT ![t] = nextSibling[s]]
         /\ locks' = [locks EXCEPT ![t] = 1]
         /\ ready' = [ready EXCEPT ![t] = TRUE]
         /\ pc' = [pc EXCEPT ![t] = "prSibling"]
         /\ UNCHANGED <<queue, isRunning>>
  BY DEF PromoteScan
<1>u. /\ UNCHANGED <<allocated, freed, caller, callee, nextSibling, isOpen,
                     isSubmitted, calls, mustWait, logged, applied, regionLock>>
      /\ UNCHANGED <<multiLock, count, cur, call, block, step, scan, crashed>>
  BY DEF PromoteScan
<1>s. scan[t] <= Len(queue[t]) =>
         s \in 1..allocated /\ s \in Sessions /\ nextSibling[s] \in 1..allocated
  <2>1. scan[t] <= Len(queue[t]) => scan[t] \in 1..Len(queue[t])
    BY <1>p
  <2>2. scan[t] <= Len(queue[t]) => s \in 1..allocated
    BY <2>1, <1>p, SeqElements
  <2> QED
    BY <2>2, Pointers
<1> HIDE DEF s
<1>q. /\ queue' \in [Regions -> Seq(1..allocated)]
      /\ \A u \in Regions : queue[u] # << >> => queue'[u] # << >>
      /\ isRunning' \in [Sessions -> BOOLEAN]
  <2>1. isRunning \in [Sessions -> BOOLEAN]
    BY DEF Inv, TypeOK, SessionTypes
  <2>2. scan[t] <= Len(queue[t]) =>
          /\ MoveToFirst(queue[t], s) \in Seq(1..allocated)
          /\ queue[t] # << >> => MoveToFirst(queue[t], s) # << >>
    BY <1>p, <1>s, MoveToFirstType
  <2> QED
    BY <2>1, <2>2, <1>c, <1>p
<1>1. SessionTypes'
  BY <1>q, <1>u DEF Inv, TypeOK, SessionTypes
<1>2. SharedTypes'
  BY <1>q, <1>u DEF Inv, TypeOK, SharedTypes
<1>3. ThreadTypes'
  <2>1. pc' \in [Regions -> PCs]
    BY <1>c DEF Inv, TypeOK, ThreadTypes, PCs
  <2>2. /\ base' \in [Regions -> (1..allocated) \union {None}]
        /\ sib' \in [Regions -> (1..allocated) \union {None}]
    <3>1. /\ base \in [Regions -> (1..allocated) \union {None}]
          /\ sib \in [Regions -> (1..allocated) \union {None}]
      BY DEF Inv, TypeOK, ThreadTypes
    <3> QED
      BY <3>1, <1>c, <1>s
  <2>3. locks' \in [Regions -> Nat] /\ ready' \in [Regions -> BOOLEAN]
    <3>1. locks \in [Regions -> Nat] /\ ready \in [Regions -> BOOLEAN]
      BY DEF Inv, TypeOK, ThreadTypes
    <3>2. /\ locks' = locks \/ locks' = [locks EXCEPT ![t] = 1]
          /\ ready' = ready \/ ready' = [ready EXCEPT ![t] = TRUE]
      BY <1>c
    <3>3. locks' \in [Regions -> Nat]
      BY <3>1, <3>2
    <3>4. ready' \in [Regions -> BOOLEAN]
      BY <3>1, <3>2
    <3> QED
      BY <3>3, <3>4
  <2> QED
    BY <2>1, <2>2, <2>3, <1>u DEF Inv, TypeOK, ThreadTypes
<1>4. ASSUME NEW u \in Regions, u # t PROVE LocalsSet(u)'
  <2>1. pc'[u] = pc[u] /\ base'[u] = base[u] /\ sib'[u] = sib[u]
    BY <1>4, <1>c DEF Inv, TypeOK, ThreadTypes
  <2> QED
    BY <2>1, <1>q, <1>u, OthersKeep
<1>5. LocalsSet(t)'
  <2>1. \/ pc'[t] = "prDone"
        \/ pc'[t] = "prSibling" /\ base'[t] # None /\ sib'[t] # None
    BY <1>c, <1>s DEF Inv, TypeOK, ThreadTypes
  <2>2. pc[t] \in PromotePCs /\ pc'[t] \in PromotePCs
    BY <2>1, <1>p DEF PromotePCs
  <2>3. (pc'[t] \in BasePCs => base'[t] # None) /\ (pc'[t] \in SiblingPCs => sib'[t] # None)
    BY <2>1 DEF BasePCs, SiblingPCs
  <2>4. scan'[t] > 0
    BY <1>p, <1>u
  <2> QED
    BY <2>2, <2>3, <2>4, <1>q, <1>u, OwnKeep
<1> QED
  BY <1>1, <1>2, <1>3, <1>4, <1>5 DEF Inv, TypeOK

\* A sibling of the candidate.
LEMMA PromoteSiblingInv ==
  ASSUME Inv, NEW t \in Regions, PromoteSibling(t)
  PROVE  Inv'
<1> USE NoneAssumption
<1>s. /\ pc[t] = "prSibling" /\ base[t] \in 1..allocated
      /\ sib[t] \in 1..allocated /\ nextSibling[sib[t]] \in 1..allocated
      /\ callee[sib[t]] \in Regions
  BY Pointers DEF PromoteSibling, BasePCs, SiblingPCs
<1>n. /\ \/ pc' = [pc EXCEPT ![t] = "prMark"] /\ sib' = [sib EXCEPT ![t] = base[t]]
         \/ /\ pc' = [pc EXCEPT ![t] = "prSibling"]
            /\ sib' = [sib EXCEPT ![t] = nextSibling[sib[t]]]
      /\ locks' = [locks EXCEPT ![t] = locks[t] + 1]
      /\ \E f \in BOOLEAN : ready' = [ready EXCEPT ![t] = f]
      /\ step' = [step EXCEPT ![t] = 0]
      /\ UNCHANGED <<queue, cur, call, block, base, scan, allocated>>
  BY DEF PromoteSibling, Busy, sessionVars
<1>1. SessionTypes'
  BY DEF Inv, TypeOK, SessionTypes, PromoteSibling, sessionVars
<1>2. SharedTypes'
  BY <1>s DEF Inv, TypeOK, SharedTypes, PromoteSibling, sessionVars
<1>3. ThreadTypes'
  <2>1. pc' \in [Regions -> PCs] /\ sib' \in [Regions -> (1..allocated) \union {None}]
    BY <1>n, <1>s DEF Inv, TypeOK, ThreadTypes, PCs
  <2>2. /\ locks' \in [Regions -> Nat] /\ step' \in [Regions -> Nat]
        /\ ready' \in [Regions -> BOOLEAN]
    BY <1>n DEF Inv, TypeOK, ThreadTypes
  <2> QED
    BY <2>1, <2>2, <1>n DEF Inv, TypeOK, ThreadTypes
<1>4. ASSUME NEW u \in Regions, u # t PROVE LocalsSet(u)'
  <2>1. pc'[u] = pc[u] /\ sib'[u] = sib[u]
    BY <1>4, <1>n DEF Inv, TypeOK, ThreadTypes
  <2> QED
    BY <2>1, <1>n, OthersKeep
<1>5. LocalsSet(t)'
  <2>1. pc'[t] \in {"prMark", "prSibling"} /\ sib'[t] # None
    BY <1>n, <1>s DEF Inv, TypeOK, ThreadTypes
  <2>2. pc[t] \in PromotePCs /\ pc'[t] \in PromotePCs
    BY <2>1, <1>s DEF PromotePCs
  <2>3. base'[t] # None /\ scan'[t] > 0
    BY <1>n, <1>s DEF Inv, LocalsSet
  <2> QED
    BY <2>1, <2>2, <2>3, <1>n, OwnKeep
<1> QED
  BY <1>1, <1>2, <1>3, <1>4, <1>5 DEF Inv, TypeOK

\* A sibling is marked as running.
LEMMA PromoteMarkInv ==
  ASSUME Inv, NEW t \in Regions, PromoteMark(t)
  PROVE  Inv'
<1> USE NoneAssumption
<1> DEFINE s == IF step[t] = 0 THEN base[t] ELSE nextSibling[sib[t]]
           r == callee[s]
<1>s. /\ pc[t] = "prMark" /\ base[t] \in 1..allocated /\ sib[t] \in 1..allocated
      /\ s \in 1..allocated /\ s \in Sessions /\ r \in Regions
      /\ scan[t] \in Nat \ {0}
  <2>1. /\ pc[t] = "prMark" /\ base[t] \in 1..allocated /\ sib[t] \in 1..allocated
        /\ nextSibling[sib[t]] \in 1..allocated
    BY Pointers DEF PromoteMark, BasePCs, SiblingPCs
  <2>2. s \in 1..allocated
    BY <2>1
  <2>3. scan[t] \in Nat \ {0}
    BY <2>1 DEF Inv, TypeOK, ThreadTypes, LocalsSet
  <2> QED
    BY <2>1, <2>2, <2>3, Pointers
<1>c. \/ /\ \/ /\ queue' = [queue EXCEPT ![r] = MoveToFirst(queue[r], s)]
               /\ isRunning' = [isRunning EXCEPT ![s] = TRUE]
            \/ UNCHANGED <<queue, isRunning>>
         /\ regionLock' = regionLock \/ regionLock' = [regionLock EXCEPT ![r] = None]
         /\ sib' = [sib EXCEPT ![t] = s]
         /\ step' = [step EXCEPT ![t] = step[t] + 1]
         /\ UNCHANGED <<pc, scan>>
      \/ /\ sib' = [sib EXCEPT ![t] = base[t]]
         /\ step' = [step EXCEPT ![t] = 1]
         /\ pc' = [pc EXCEPT ![t] = "prWake"]
         /\ UNCHANGED <<queue, isRunning, regionLock, scan>>
      \/ /\ scan' = [scan EXCEPT ![t] = scan[t] + 1]
         /\ pc' = [pc EXCEPT ![t] = "prScan"]
         /\ UNCHANGED <<queue, isRunning, regionLock, sib, step>>
  BY DEF PromoteMark, Marked
<1>u. /\ UNCHANGED <<allocated, freed, caller, callee, nextSibling, isOpen,
                     isSubmitted, calls, mustWait, logged, applied, multiLock>>
      /\ UNCHANGED <<count, cur, call, block, base, locks, ready, crashed>>
  BY DEF PromoteMark
<1> HIDE DEF s, r
<1>q. /\ queue' \in [Regions -> Seq(1..allocated)]
      /\ \A u \in Regions : queue[u] # << >> => queue'[u] # << >>
      /\ isRunning' \in [Sessions -> BOOLEAN]
      /\ regionLock' \in [Regions -> Regions \union {None}]
  <2>1. /\ isRunning \in [Sessions -> BOOLEAN]
        /\ queue \in [Regions -> Seq(1..allocated)]
        /\ regionLock \in [Regions -> Regions \union {None}]
    BY DEF Inv, TypeOK, SessionTypes, SharedTypes
  <2>2. /\ MoveToFirst(queue[r], s) \in Seq(1..allocated)
        /\ queue[r] # << >> => MoveToFirst(queue[r], s) # << >>
    BY <2>1, <1>s, MoveToFirstType
  <2>3. queue' \in [Regions -> Seq(1..allocated)]
    BY <2>1, <2>2, <1>c, <1>s
  <2>4. \A u \in Regions : queue[u] # << >> => queue'[u] # << >>
    BY <2>1, <2>2, <1>c, <1>s
  <2>5. isRunning' \in [Sessions -> BOOLEAN]
    BY <2>1, <1>c, <1>s
  <2>6. regionLock' \in [Regions -> Regions \union {None}]
    BY <2>1, <1>c, <1>s
  <2> QED
    BY <2>3, <2>4, <2>5, <2>6
<1>1. SessionTypes'
  BY <1>q, <1>u DEF Inv, TypeOK, SessionTypes
<1>2. SharedTypes'
  BY <1>q, <1>u DEF Inv, TypeOK, SharedTypes
<1>3. ThreadTypes'
  <2>1. pc' \in [Regions -> PCs]
    BY <1>c DEF Inv, TypeOK, ThreadTypes, PCs
  <2>2. sib' \in [Regions -> (1..allocated) \union {None}]
    BY <1>c, <1>s DEF Inv, TypeOK, ThreadTypes
  <2>3. step' \in [Regions -> Nat] /\ scan' \in [Regions -> Nat]
    <3>1. step \in [Regions -> Nat] /\ scan \in [Regions -> Nat]
      BY DEF Inv, TypeOK, ThreadTypes
    <3> QED
      BY <3>1, <1>c
  <2> QED
    BY <2>1, <2>2, <2>3, <1>u DEF Inv, TypeOK, ThreadTypes
<1>4. ASSUME NEW u \in Regions, u # t PROVE LocalsSet(u)'
  <2>1. pc'[u] = pc[u] /\ scan'[u] = scan[u] /\ sib'[u] = sib[u]
    BY <1>4, <1>c DEF Inv, TypeOK, ThreadTypes
  <2> QED
    BY <2>1, <1>q, <1>u, OthersKeep
<1>5. LocalsSet(t)'
  <2>1. pc'[t] \in {"prMark", "prWake", "prScan"} /\ sib'[t] # None /\ scan'[t] > 0
    BY <1>c, <1>s DEF Inv, TypeOK, ThreadTypes
  <2>2. pc[t] \in PromotePCs /\ pc'[t] \in PromotePCs
    BY <2>1, <1>s DEF PromotePCs
  <2>3. base'[t] # None
    BY <1>s, <1>u
  <2> QED
    BY <2>1, <2>2, <2>3, <1>q, <1>u, OwnKeep
<1> QED
  BY <1>1, <1>2, <1>3, <1>4, <1>5 DEF Inv, TypeOK

\* The processor of a sibling is woken.
LEMMA PromoteWakeInv ==
  ASSUME Inv, NEW t \in Regions, PromoteWake(t)
  PROVE  Inv'
<1> USE NoneAssumption
<1> DEFINE s == nextSibling[sib[t]]
           r == callee[s]
<1>s. /\ pc[t] = "prWake" /\ base[t] \in 1..allocated /\ sib[t] \in 1..allocated
      /\ s \in 1..allocated /\ r \in Regions
  BY Pointers DEF PromoteWake, BasePCs, SiblingPCs
<1>c. \/ /\ sib' = [sib EXCEPT ![t] = s]
         /\ step' = [step EXCEPT ![t] = step[t] + 1]
         /\ pc' = Woken(pc, r)
      \/ /\ pc' = [pc EXCEPT ![t] = "prDone"]
         /\ UNCHANGED <<sib, step>>
  BY DEF PromoteWake
<1>u. UNCHANGED <<sessionVars, queue, regionLock, multiLock, count, cur,
                  call, block, base, locks, ready, scan, crashed>>
  BY DEF PromoteWake
<1> HIDE DEF s, r
<1>p. /\ pc' \in [Regions -> PCs]
      /\ \A u \in Regions : u # t => pc'[u] = pc[u] \/ (pc[u] = "waiting" /\ pc'[u] = "iterate")
      /\ pc'[t] \in {"prWake", "prDone"}
  <2>1. pc \in [Regions -> PCs]
    BY DEF Inv, TypeOK, ThreadTypes
  <2>2. CASE pc' = Woken(pc, r)
    BY <2>1, <2>2, <1>s, WokenIs
  <2>3. CASE pc' = [pc EXCEPT ![t] = "prDone"]
    BY <2>1, <2>3 DEF PCs
  <2> QED
    BY <2>2, <2>3, <1>c
<1>b. /\ sib' \in [Regions -> (1..allocated) \union {None}]
      /\ step' \in [Regions -> Nat] /\ sib'[t] # None
      /\ \A u \in Regions : u # t => sib'[u] = sib[u]
  <2>1. step \in [Regions -> Nat] /\ sib \in [Regions -> (1..allocated) \union {None}]
    BY DEF Inv, TypeOK, ThreadTypes
  <2>2. step' \in [Regions -> Nat]
    BY <2>1, <1>c
  <2> QED
    BY <2>1, <2>2, <1>c, <1>s
<1>1. SessionTypes'
  BY <1>u DEF Inv, TypeOK, SessionTypes, sessionVars
<1>2. SharedTypes'
  BY <1>u DEF Inv, TypeOK, SharedTypes, sessionVars
<1>3. ThreadTypes'
  BY <1>p, <1>b, <1>u DEF Inv, TypeOK, ThreadTypes, sessionVars
<1>4. ASSUME NEW u \in Regions, u # t PROVE LocalsSet(u)'
  BY <1>4, <1>p, <1>b, <1>u, OthersKeep
<1>5. LocalsSet(t)'
  <2>1. /\ pc[t] \in PromotePCs /\ pc'[t] \in PromotePCs
        /\ pc'[t] \notin {"prScan", "prSibling", "prMark"}
    BY <1>p, <1>s DEF PromotePCs
  <2>2. base'[t] # None
    BY <1>s, <1>u
  <2> QED
    BY <2>1, <2>2, <1>b, <1>u, OwnKeep
<1> QED
  BY <1>1, <1>2, <1>3, <1>4, <1>5 DEF Inv, TypeOK

\* A freed session is read.
LEMMA PromoteFaultInv ==
  ASSUME Inv, NEW t \in Regions, PromoteFault(t)
  PROVE  Inv'
<1> USE NoneAssumption, MainAssumption, BoundsAssumption
<1>1. SessionTypes'
  BY Pointers DEF Inv, TypeOK, SessionTypes, PromoteFault, sessionVars, BasePCs, SiblingPCs
<1>2. SharedTypes'
  BY Pointers DEF Inv, TypeOK, SharedTypes, PromoteFault, sessionVars, BasePCs, SiblingPCs
<1>3. ThreadTypes'
  BY Pointers
  DEF Inv, TypeOK, ThreadTypes, PromoteFault, sessionVars, localVars, PCs,
      BasePCs, SiblingPCs
<1>4. ASSUME NEW u \in Regions, u # t PROVE LocalsSet(u)'
  BY <1>4, OthersKeep DEF Inv, TypeOK, SharedTypes, ThreadTypes, PromoteFault, localVars
<1>5. LocalsSet(t)'
  BY Pointers
  DEF Inv, TypeOK, SharedTypes, ThreadTypes, LocalsSet, PromoteFault,
      localVars, BasePCs, SiblingPCs, PromotePCs, ClientPCs
<1> QED
  BY <1>1, <1>2, <1>3, <1>4, <1>5 DEF Inv, TypeOK

\* The promotion ends.
LEMMA PromoteDoneInv ==
  ASSUME Inv, NEW t \in Regions, PromoteDone(t)
  PROVE  Inv'
<1> USE NoneAssumption, MainAssumption, BoundsAssumption
<1>1. SessionTypes'
  BY Pointers DEF Inv, TypeOK, SessionTypes, PromoteDone, sessionVars, BasePCs, SiblingPCs
<1>2. SharedTypes'
  BY Pointers DEF Inv, TypeOK, SharedTypes, PromoteDone, sessionVars, BasePCs, SiblingPCs
<1>3. ThreadTypes'
  BY Pointers
  DEF Inv, TypeOK, ThreadTypes, PromoteDone, sessionVars, localVars, PCs,
      BasePCs, SiblingPCs
<1>4. ASSUME NEW u \in Regions, u # t PROVE LocalsSet(u)'
  BY <1>4, OthersKeep DEF Inv, TypeOK, SharedTypes, ThreadTypes, PromoteDone, localVars
<1>5. LocalsSet(t)'
  BY Pointers
  DEF Inv, TypeOK, SharedTypes, ThreadTypes, LocalsSet, PromoteDone,
      localVars, BasePCs, SiblingPCs, PromotePCs, ClientPCs
<1> QED
  BY <1>1, <1>2, <1>3, <1>4, <1>5 DEF Inv, TypeOK

\* The start of the process: the queues are empty, and only the root creation
\* procedure runs.
LEMMA InitInv == Init => Inv
<1> SUFFICES ASSUME Init PROVE Inv
  OBVIOUS
<1> USE NoneAssumption, MainAssumption, BoundsAssumption
<1>e. allocated = 0 /\ 1..allocated = {} /\ << >> \in Seq(1..allocated)
  BY DEF Init
<1>1. SessionTypes
  BY <1>e DEF Init, SessionTypes
<1>2. SharedTypes
  BY <1>e DEF Init, SharedTypes
<1>3. ThreadTypes
  BY <1>e DEF Init, ThreadTypes, PCs
<1>4. ASSUME NEW t \in Regions PROVE LocalsSet(t)
  <2>1. pc[t] \in {"body", "iterate"} /\ call[t] = None /\ cur[t] = None
    BY DEF Init
  <2> QED
    BY <2>1 DEF LocalsSet, BasePCs, SiblingPCs, PromotePCs, ClientPCs
<1> QED
  BY <1>1, <1>2, <1>3, <1>4 DEF Inv, TypeOK

\* A step that changes nothing.
LEMMA StutterInv == Inv /\ UNCHANGED vars => Inv'
<1> SUFFICES ASSUME Inv, UNCHANGED vars PROVE Inv'
  OBVIOUS
<1>1. TypeOK'
  BY DEF Inv, TypeOK, SessionTypes, SharedTypes, ThreadTypes, vars, sessionVars, localVars
<1>2. \A t \in Regions : LocalsSet(t)'
  BY DEF Inv, LocalsSet, vars, localVars
<1> QED
  BY <1>1, <1>2 DEF Inv

\* Every step keeps the invariant.
LEMMA NextInv == Inv /\ [Next]_vars => Inv'
<1> SUFFICES ASSUME Inv, [Next]_vars PROVE Inv'
  OBVIOUS
<1>1. CASE UNCHANGED vars
  BY <1>1, StutterInv
<1>2. CASE Terminated
  BY <1>2, StutterInv DEF Terminated
<1>3. ASSUME NEW t \in Regions, Client(t) PROVE Inv'
  BY <1>3, OpenBlockInv, AddCallInv, CountSessionInv, AppendSessionInv,
     LockMultisessionsInv, LockCalleeInv, AppendSiblingInv, WakeCalleeInv,
     SyncReturnInv, CloseSessionInv
  DEF Client
<1>4. ASSUME NEW t \in Regions, Server(t) PROVE Inv'
  BY <1>4, IterateInv, RecheckInv, IdleInv, SleepInv, TimeoutInv, NextCallInv,
     EndSessionInv, EndBodyInv, RemoveSessionInv, DecrementCountInv, WakeMainInv
  DEF Server
<1>5. ASSUME NEW t \in Regions, Promote(t) PROVE Inv'
  BY <1>5, PromoteLockInv, PromoteRegionInv, PromoteScanInv, PromoteSiblingInv,
     PromoteMarkInv, PromoteWakeInv, PromoteFaultInv, PromoteDoneInv
  DEF Promote
<1> QED
  BY <1>1, <1>2, <1>3, <1>4, <1>5 DEF Next, Thread

\* The invariant holds in every reachable state.
LEMMA SpecInv == Spec => []Inv
BY InitInv, NextInv, PTL DEF Spec

\* No step of clients, processors and promotions follows a null or unallocated
\* link, for every number of regions, sessions, calls and separate arguments.
THEOREM SpecTypeOK == Spec => []TypeOK
<1>1. Inv => TypeOK
  BY DEF Inv
<1> QED
  BY <1>1, SpecInv, PTL

\* GE_scoop_processor_run_one_iteration never dereferences a null first_session
\* after GE_promote_scoop_session, although it does not test it: the sessions
\* of a region are removed by its own processor only.
THEOREM SpecFirstSessionRemains == Spec => []FirstSessionRemains
<1>1. Inv => FirstSessionRemains
  BY DEF Inv, LocalsSet, FirstSessionRemains, PromotePCs
<1> QED
  BY <1>1, SpecInv, PTL

-----------------------------------------------------------------------------
(***************************************************************************)
(* Exclusive access: OnlyFirstRuns, RingIsQueued, AtomicAccess, and the    *)
(* invariant Excl that makes them inductive on top of Inv.                 *)
(*                                                                         *)
(* It says what each part of the runtime relies on while the others run:   *)
(*   - the sessions of a feature form a ring (RingsOK), and are submitted  *)
(*     together and marked running together (RingOK);                      *)
(*   - a region has its submitted sessions in its queue, once each, and    *)
(*     runs the first one only (QueueOK, SessionOK);                       *)
(*   - the place where a processor is tells which mutexes it holds         *)
(*     (LocksOK) and which sessions its feature has open (BlockOK);        *)
(*   - a client that submits a multisession, and a processor that promotes *)
(*     one, hold the mutexes of the regions they have come to but not      *)
(*     finished, counted from the session they started with (AdderOK,      *)
(*     PromoterOK).                                                        *)
(***************************************************************************)

\* The sessions from f to l are those of one feature: a ring.
RingAt(f, l) ==
  /\ f \in 1..allocated /\ l \in f..allocated
  /\ nextSibling[l] = f
  /\ \A s \in f..(l - 1) : nextSibling[s] = s + 1
  /\ \A x, y \in f..l : caller[x] = caller[y] /\ (callee[x] = callee[y] => x = y)

\* How many links lead from b to x in a ring of n sessions.
Distance(b, x, n) == IF b <= x THEN x - b ELSE x - b + n

\* Every session is in a ring.
RingsOK == \A s \in 1..allocated : \E f, l \in 1..allocated : RingAt(f, l) /\ s \in f..l

\* A region has the submitted sessions that were not freed, once each; only the
\* first one can be running, and the processor executes no other.
QueueOK(r) ==
  /\ Distinct(queue[r])
  /\ \A i \in 1..Len(queue[r]) :
       /\ callee[queue[r][i]] = r /\ isSubmitted[queue[r][i]] /\ queue[r][i] \notin freed
       /\ i > 1 => ~isRunning[queue[r][i]]
  /\ cur[r] # None => cur[r] = queue[r][1] /\ isRunning[cur[r]]

SessionOK(s) ==
  /\ isSubmitted[s] /\ s \notin freed =>
       \E i \in 1..Len(queue[callee[s]]) : queue[callee[s]][i] = s
  /\ isRunning[s] => isSubmitted[s]
  /\ isSubmitted[s] /\ s \in freed => isRunning[s]
  /\ isOpen[s] => s \notin freed

\* The sessions of a multisession are submitted together and marked together.
RingOK(f, l) ==
  \A x, y \in f..l :
    /\ isSubmitted[x] => \/ isSubmitted[y]
                         \/ \E u \in Regions : pc[u] = "mAppend" /\ base[u] \in f..l
    /\ isRunning[x] => \/ isRunning[y]
                       \/ \E u \in Regions : pc[u] = "prMark" /\ ready[u] /\ base[u] \in f..l

\* Who holds GE_scoop_multisessions_mutex, and who the mutex of its own region.
MultiPCs == {"mRegion", "mAppend", "mWake", "prRegion", "prScan", "prSibling",
             "prMark", "prWake", "prDone"}
OwnPCs == {"idle", "sleep", "prScan", "prSibling", "prMark", "prWake", "prDone"}

LocksOK(t) ==
  /\ multiLock = t <=> pc[t] \in MultiPCs
  /\ pc[t] \in OwnPCs => regionLock[t] = t
  /\ cur[t] # None => pc[t] \in ClientPCs \union {"exec", "remove"}
  /\ pc[t] = "remove" => ~isOpen[cur[t]]

\* The sequence b is the end of the ring from f to l.
EndOfRing(b, f, l) ==
  Len(b) <= l - f + 1 /\ \A i \in 1..Len(b) : b[i] = l - Len(b) + i

\* The sessions a feature of t has open: a whole ring, until it closes them.
BlockOK(t) ==
  /\ block[t] # << >> =>
       \E f, l \in 1..allocated :
          /\ RingAt(f, l) /\ caller[f] = t /\ EndOfRing(block[t], f, l)
          /\ \A i \in 1..Len(block[t]) : isOpen[block[t][i]]
          /\ pc[t] # "closing" => Len(block[t]) = l - f + 1
          /\ pc[t] \in {"increment", "append", "mLock", "mRegion", "mAppend", "mWake"}
               => base[t] \in f..l
  /\ pc[t] \in ClientPCs \ {"body"} => block[t] # << >>

\* A client that submits a session.
AdderOK(t) ==
  /\ pc[t] \in {"increment", "append"} => Singleton(base[t]) /\ ~isSubmitted[base[t]]
  /\ \A f, l \in 1..allocated : RingAt(f, l) /\ base[t] \in f..l =>
       /\ pc[t] \in {"mLock", "mRegion"} => \A x \in f..l : ~isSubmitted[x]
       /\ pc[t] \in {"mRegion", "mAppend"} => sib[t] \in f..l
       /\ pc[t] = "mRegion" => \A x \in f..l :
            Distance(base[t], x, l - f + 1) < Distance(base[t], sib[t], l - f + 1) =>
              regionLock[callee[x]] = t
       /\ pc[t] = "mAppend" => \A x \in f..l :
            IF Distance(base[t], x, l - f + 1) < Distance(base[t], sib[t], l - f + 1)
            THEN isSubmitted[x]
            ELSE ~isSubmitted[x] /\ regionLock[callee[x]] = t

\* The first session of r, if any, is not running.
FirstIdle(r) == queue[r] # << >> => ~isRunning[queue[r][1]]

\* The promoting processor has not marked anything yet.
Searching(t) == pc[t] = "prSibling" \/ (pc[t] = "prMark" /\ (~ready[t] \/ step[t] = 0))

\* A processor that promotes.
PromoterOK(t) ==
  /\ pc[t] = "prScan" \/ Searching(t) =>
       \A i \in 1..Len(queue[t]) : i < scan[t] => ~isRunning[queue[t][i]]
  /\ Searching(t) => /\ scan[t] \in 1..Len(queue[t]) /\ base[t] = queue[t][scan[t]]
                     /\ ~isRunning[base[t]]
  /\ pc[t] \in {"prSibling", "prMark"} =>
       callee[base[t]] = t /\ isSubmitted[base[t]] /\ ~Singleton(base[t])
  /\ \A f, l \in 1..allocated : RingAt(f, l) /\ base[t] \in f..l =>
       /\ pc[t] = "prSibling" =>
            /\ sib[t] \in f..l /\ sib[t] # base[t]
            /\ locks[t] = Distance(base[t], sib[t], l - f + 1)
            /\ \A x \in f..l : Distance(base[t], x, l - f + 1) < locks[t] =>
                 regionLock[callee[x]] = t /\ FirstIdle(callee[x])
       /\ pc[t] = "prMark" =>
            /\ locks[t] \in 2..(l - f + 1) /\ step[t] <= locks[t]
            /\ step[t] > 0 => /\ sib[t] \in f..l
                              /\ Distance(base[t], sib[t], l - f + 1) = step[t] - 1
            /\ \A x \in f..l : Distance(base[t], x, l - f + 1) \in step[t]..(locks[t] - 1) =>
                 regionLock[callee[x]] = t
            /\ ready[t] =>
                 /\ locks[t] = l - f + 1
                 /\ \A x \in f..l : IF Distance(base[t], x, l - f + 1) < step[t]
                                    THEN isRunning[x]
                                    ELSE ~isRunning[x] /\ FirstIdle(callee[x])

\* Nothing happened to a session that is not allocated.
FreshOK ==
  \A s \in Sessions : s > allocated => ~isSubmitted[s] /\ ~isRunning[s] /\ s \notin freed

\* The inductive invariant of exclusive access, on top of Inv.
Excl ==
  /\ RingsOK /\ FreshOK
  /\ \A f, l \in 1..allocated : RingAt(f, l) => RingOK(f, l)
  /\ \A r \in Regions : QueueOK(r)
  /\ \A s \in 1..allocated : SessionOK(s)
  /\ \A t \in Regions : LocksOK(t) /\ BlockOK(t) /\ AdderOK(t) /\ PromoterOK(t)

-----------------------------------------------------------------------------
(* Rings. *)

\* A session is in one ring only.
LEMMA RingUnique ==
  ASSUME allocated \in Nat, NEW f, NEW l, NEW g, NEW m, NEW s,
         RingAt(f, l), RingAt(g, m), s \in f..l, s \in g..m
  PROVE  f = g /\ l = m
<1>0. /\ f \in Nat /\ l \in Nat /\ g \in Nat /\ m \in Nat /\ s \in Nat
      /\ f <= s /\ s <= l /\ g <= s /\ s <= m
  BY DEF RingAt
<1>1. nextSibling[l] = f /\ nextSibling[m] = g
  BY DEF RingAt
<1>2. ~(l < m)
  <2>1. l < m => l \in g..(m - 1)
    BY <1>0
  <2>2. l < m => nextSibling[l] = l + 1
    BY <2>1 DEF RingAt
  <2> QED
    BY <2>2, <1>0, <1>1
<1>3. ~(m < l)
  <2>1. m < l => m \in f..(l - 1)
    BY <1>0
  <2>2. m < l => nextSibling[m] = m + 1
    BY <2>1 DEF RingAt
  <2> QED
    BY <2>2, <1>0, <1>1
<1>4. l = m
  BY <1>0, <1>2, <1>3
<1> QED
  BY <1>1, <1>4

\* The sessions of a ring are for different regions.
LEMMA RingCallees ==
  ASSUME NEW f, NEW l, RingAt(f, l), NEW x \in f..l, NEW y \in f..l, callee[x] = callee[y]
  PROVE  x = y
BY DEF RingAt

\* Distances in a ring.
LEMMA DistanceIs ==
  ASSUME NEW f \in Nat, NEW l \in Nat, NEW b \in f..l, NEW x \in f..l, NEW y \in f..l
  PROVE  /\ Distance(b, x, l - f + 1) \in 0..(l - f)
         /\ Distance(b, b, l - f + 1) = 0
         /\ Distance(b, x, l - f + 1) = Distance(b, y, l - f + 1) => x = y
BY DEF Distance

\* The links of a ring.
LEMMA NextIs ==
  ASSUME allocated \in Nat, NEW f, NEW l, RingAt(f, l), NEW b \in f..l, NEW x \in f..l
  PROVE  /\ nextSibling[x] \in f..l
         /\ nextSibling[x] = b => Distance(b, x, l - f + 1) = l - f
         /\ nextSibling[x] # b => Distance(b, nextSibling[x], l - f + 1)
                                    = Distance(b, x, l - f + 1) + 1
         /\ nextSibling[x] = x => f = l
<1>0. f \in Nat /\ l \in Nat /\ f <= l
  BY DEF RingAt
<1>1. CASE x = l
  <2>1. nextSibling[x] = f
    BY <1>1 DEF RingAt
  <2> QED
    BY <2>1, <1>0, <1>1 DEF Distance
<1>2. CASE x # l
  <2>1. x \in f..(l - 1)
    BY <1>0, <1>2
  <2>2. nextSibling[x] = x + 1
    BY <2>1 DEF RingAt
  <2> QED
    BY <2>1, <2>2, <1>0 DEF Distance
<1> QED
  BY <1>1, <1>2

\* The ring of a session.
LEMMA RingOf ==
  ASSUME Inv, Excl, NEW s \in 1..allocated
  PROVE  \E f, l \in 1..allocated : RingAt(f, l) /\ s \in f..l
BY DEF Excl, RingsOK

\* A step that leaves the allocated sessions in their rings.
RingsKept ==
  /\ 1..allocated \subseteq 1..allocated'
  /\ \A s \in 1..allocated : /\ caller'[s] = caller[s] /\ callee'[s] = callee[s]
                             /\ nextSibling'[s] = nextSibling[s]
  /\ \A s \in 1..allocated : \A f, l : s \in f..l => (RingAt(f, l)' <=> RingAt(f, l))

\* It does when it leaves the links alone.
LEMMA RingsUnchanged ==
  ASSUME UNCHANGED <<allocated, caller, callee, nextSibling>>
  PROVE  RingsKept /\ \A f, l : RingAt(f, l)' <=> RingAt(f, l)
BY DEF RingsKept, RingAt

\* The sessions at the end of a ring are in it.
LEMMA EndIn ==
  ASSUME NEW S, NEW b \in Seq(S), NEW f \in Nat, NEW l \in Nat, EndOfRing(b, f, l),
         NEW i \in 1..Len(b)
  PROVE  b[i] \in f..l
<1>1. Len(b) \in Nat /\ b[i] = l - Len(b) + i /\ Len(b) <= l - f + 1
  BY DEF EndOfRing
<1> QED
  BY <1>1

\* The sessions a feature has open are those of its processor.
LEMMA BlockCaller ==
  ASSUME Inv, Excl, NEW t \in Regions, NEW i \in 1..Len(block[t])
  PROVE  caller[block[t][i]] = t /\ isOpen[block[t][i]] /\ block[t][i] \in 1..allocated
<1>1. block[t] \in Seq(1..allocated) /\ block[t] # << >>
  <2>1. block[t] \in Seq(1..allocated)
    BY DEF Inv, TypeOK, ThreadTypes
  <2> QED
    BY <2>1
<1>2. PICK f \in 1..allocated, l \in 1..allocated :
          /\ RingAt(f, l) /\ caller[f] = t /\ EndOfRing(block[t], f, l)
          /\ \A j \in 1..Len(block[t]) : isOpen[block[t][j]]
  BY <1>1 DEF Excl, BlockOK
<1>3. f \in Nat /\ l \in Nat /\ f \in f..l
  BY <1>2 DEF RingAt
<1>4. block[t][i] \in f..l
  BY <1>1, <1>2, <1>3, EndIn
<1> QED
  BY <1>1, <1>2, <1>3, <1>4, SeqElements DEF RingAt

\* The sessions that a client submits are its own, and still open.
LEMMA OwnRing ==
  ASSUME Inv, Excl, NEW t \in Regions,
         pc[t] \in {"increment", "append", "mLock", "mRegion", "mAppend", "mWake"}
  PROVE  /\ base[t] \in 1..allocated /\ caller[base[t]] = t /\ block[t] # << >>
         /\ \E f, l \in 1..allocated :
              /\ RingAt(f, l) /\ base[t] \in f..l
              /\ \A x \in f..l : isOpen[x] /\ x \notin freed
<1>1. base[t] \in 1..allocated
  BY Pointers DEF BasePCs
<1>2. block[t] # << >> /\ block[t] \in Seq(1..allocated) /\ allocated \in Nat
  BY DEF Excl, BlockOK, ClientPCs, Inv, TypeOK, SessionTypes, ThreadTypes
<1>3. PICK f \in 1..allocated, l \in 1..allocated :
          /\ RingAt(f, l) /\ caller[f] = t /\ EndOfRing(block[t], f, l)
          /\ \A i \in 1..Len(block[t]) : isOpen[block[t][i]]
          /\ Len(block[t]) = l - f + 1
          /\ base[t] \in f..l
  BY <1>2 DEF Excl, BlockOK
<1>4. caller[base[t]] = t
  <2>1. f \in f..l
    BY <1>3 DEF RingAt
  <2> QED
    BY <2>1, <1>3 DEF RingAt
<1>5. ASSUME NEW x \in f..l PROVE isOpen[x] /\ x \notin freed
  <2>1. x - f + 1 \in 1..Len(block[t]) /\ block[t][x - f + 1] = x /\ x \in 1..allocated
    BY <1>3, <1>2 DEF EndOfRing
  <2>2. isOpen[x]
    BY <2>1, <1>3
  <2> QED
    BY <2>1, <2>2 DEF Excl, SessionOK
<1> QED
  BY <1>1, <1>2, <1>3, <1>4, <1>5

\* The steps of another processor keep the claims of u: they do not touch its
\* locals, the regions it has locked, or the sessions its feature has open.
LEMMA ThreadKept ==
  ASSUME Inv, Excl, NEW u \in Regions, RingsKept,
         block'[u] = block[u], base'[u] = base[u], sib'[u] = sib[u],
         locks'[u] = locks[u], step'[u] = step[u], ready'[u] = ready[u],
         scan'[u] = scan[u], cur'[u] = cur[u],
         pc'[u] = pc[u] \/ (pc[u] = "waiting" /\ pc'[u] = "iterate"),
         multiLock' = u <=> multiLock = u,
         \A r \in Regions : regionLock[r] = u => regionLock'[r] = u /\ queue'[r] = queue[r],
         \A s \in 1..allocated :
            /\ isRunning[s] => isRunning'[s]
            /\ regionLock[callee[s]] = u => (isRunning'[s] <=> isRunning[s])
            /\ isSubmitted[s] => isSubmitted'[s]
            /\ caller[s] = u => (isSubmitted'[s] <=> isSubmitted[s])
            /\ caller[s] = u => (isOpen'[s] <=> isOpen[s])
            /\ isOpen'[s] => isOpen[s]
  PROVE  LocksOK(u)' /\ BlockOK(u)' /\ AdderOK(u)' /\ PromoterOK(u)'
<1> USE NoneAssumption
<1>t. /\ LocksOK(u) /\ BlockOK(u) /\ AdderOK(u) /\ PromoterOK(u) /\ LocalsSet(u)
  BY DEF Excl, Inv
<1>a. allocated \in Nat
  BY DEF Inv, TypeOK, SessionTypes
<1>p. pc[u] # "waiting" => pc'[u] = pc[u]
  OBVIOUS
<1>1. LocksOK(u)'
  <2>1. cur[u] # None => cur[u] \in 1..allocated
    BY Pointers
  <2>2. pc[u] = "remove" => cur[u] # None
    BY <1>t DEF LocalsSet
  <2> QED
    BY <2>1, <2>2, <1>t DEF LocksOK, MultiPCs, OwnPCs, ClientPCs
<1>2. BlockOK(u)'
  <2>1. pc'[u] \in ClientPCs \ {"body"} => block'[u] # << >>
    BY <1>t DEF BlockOK, ClientPCs
  <2>2. ASSUME block'[u] # << >>
        PROVE  \E f, l \in 1..allocated' :
          /\ RingAt(f, l)' /\ caller'[f] = u /\ EndOfRing(block'[u], f, l)
          /\ \A i \in 1..Len(block'[u]) : isOpen'[block'[u][i]]
          /\ pc'[u] # "closing" => Len(block'[u]) = l - f + 1
          /\ pc'[u] \in {"increment", "append", "mLock", "mRegion", "mAppend", "mWake"}
               => base'[u] \in f..l
    <3>1. PICK f \in 1..allocated, l \in 1..allocated :
          /\ RingAt(f, l) /\ caller[f] = u /\ EndOfRing(block[u], f, l)
          /\ \A i \in 1..Len(block[u]) : isOpen[block[u][i]]
          /\ pc[u] # "closing" => Len(block[u]) = l - f + 1
          /\ pc[u] \in {"increment", "append", "mLock", "mRegion", "mAppend", "mWake"}
               => base[u] \in f..l
      BY <2>2, <1>t DEF BlockOK
    <3>2. RingAt(f, l)' /\ caller'[f] = u
      <4>1. f \in f..l
        BY <3>1 DEF RingAt
      <4> QED
        BY <3>1, <4>1 DEF RingsKept
    <3>3. ASSUME NEW i \in 1..Len(block[u]) PROVE isOpen'[block[u][i]]
      <4>1. block[u] \in Seq(1..allocated)
        BY DEF Inv, TypeOK, ThreadTypes
      <4>2. block[u][i] \in 1..allocated
        BY <4>1, SeqElements
      <4>3. block[u][i] \in f..l
        <5>1. Len(block[u]) \in Nat /\ block[u][i] = l - Len(block[u]) + i
          BY <3>1, <4>1 DEF EndOfRing
        <5> QED
          BY <5>1, <3>1 DEF EndOfRing
      <4>4. caller[block[u][i]] = u
        <5>1. f \in f..l
          BY <3>1 DEF RingAt
        <5> QED
          BY <5>1, <4>3, <3>1 DEF RingAt
      <4> QED
        BY <4>2, <4>4, <3>1
    <3>4. f \in 1..allocated' /\ l \in 1..allocated'
      BY <3>1 DEF RingsKept
    <3>5. /\ RingAt(f, l)' /\ caller'[f] = u /\ EndOfRing(block'[u], f, l)
          /\ \A i \in 1..Len(block'[u]) : isOpen'[block'[u][i]]
          /\ pc'[u] # "closing" => Len(block'[u]) = l - f + 1
          /\ pc'[u] \in {"increment", "append", "mLock", "mRegion", "mAppend", "mWake"}
               => base'[u] \in f..l
      <4>1. \A i \in 1..Len(block'[u]) : isOpen'[block'[u][i]]
        BY <3>3
      <4>2. EndOfRing(block'[u], f, l)
        BY <3>1
      <4>3. pc'[u] # "closing" => pc[u] # "closing"
        OBVIOUS
      <4>4. pc'[u] \in {"increment", "append", "mLock", "mRegion", "mAppend", "mWake"}
              => pc[u] \in {"increment", "append", "mLock", "mRegion", "mAppend", "mWake"}
        OBVIOUS
      <4> QED
        BY <4>1, <4>2, <4>3, <4>4, <3>1, <3>2
    <3> QED
      BY <3>4, <3>5
  <2> QED
    BY <2>1, <2>2 DEF BlockOK
<1>3. ASSUME NEW f, NEW l, RingAt(f, l)', base'[u] \in f..l, pc'[u] \in BasePCs
      PROVE  /\ RingAt(f, l) /\ base[u] \in f..l /\ pc'[u] = pc[u]
             /\ base[u] \in 1..allocated /\ f \in 1..allocated /\ l \in 1..allocated
             /\ \A x \in f..l : /\ x \in 1..allocated /\ callee'[x] = callee[x]
                               /\ callee[x] \in Regions
  <2>1. base[u] \in 1..allocated /\ pc'[u] = pc[u]
    BY <1>3, Pointers DEF BasePCs
  <2>2. RingAt(f, l)
    BY <1>3, <2>1 DEF RingsKept
  <2>3. f \in 1..allocated /\ l \in 1..allocated /\ \A x \in f..l : x \in 1..allocated
    BY <2>2, <1>a DEF RingAt
  <2> QED
    BY <1>3, <2>1, <2>2, <2>3, Pointers DEF RingsKept
<1>4. AdderOK(u)'
  <2>1. ASSUME pc'[u] \in {"increment", "append"}
        PROVE  nextSibling'[base'[u]] = base'[u] /\ ~isSubmitted'[base'[u]]
    <3>1. pc[u] \in {"increment", "append"} /\ pc'[u] = pc[u] /\ pc[u] \in BasePCs
      BY <2>1 DEF BasePCs
    <3>2. base[u] \in 1..allocated
      BY <3>1, Pointers
    <3>3. nextSibling[base[u]] = base[u] /\ ~isSubmitted[base[u]]
      BY <3>1, <1>t DEF AdderOK, Singleton
    <3>4. caller[base[u]] = u
      BY <3>1, <3>2, OwnRing
    <3> QED
      BY <3>2, <3>3, <3>4 DEF RingsKept
  <2>2. ASSUME NEW f \in 1..allocated', NEW l \in 1..allocated', RingAt(f, l)', base'[u] \in f..l
        PROVE
       /\ pc'[u] \in {"mLock", "mRegion"} => \A x \in f..l : ~isSubmitted'[x]
       /\ pc'[u] \in {"mRegion", "mAppend"} => sib'[u] \in f..l
       /\ pc'[u] = "mRegion" => \A x \in f..l :
            Distance(base'[u], x, l - f + 1) < Distance(base'[u], sib'[u], l - f + 1) =>
              regionLock'[callee'[x]] = u
       /\ pc'[u] = "mAppend" => \A x \in f..l :
            IF Distance(base'[u], x, l - f + 1) < Distance(base'[u], sib'[u], l - f + 1)
            THEN isSubmitted'[x]
            ELSE ~isSubmitted'[x] /\ regionLock'[callee'[x]] = u
    <3> SUFFICES ASSUME pc'[u] \in {"mLock", "mRegion", "mAppend"}
                 PROVE  /\ pc'[u] \in {"mLock", "mRegion"} => \A x \in f..l : ~isSubmitted'[x]
                        /\ pc'[u] \in {"mRegion", "mAppend"} => sib'[u] \in f..l
                        /\ pc'[u] = "mRegion" => \A x \in f..l :
                             Distance(base'[u], x, l - f + 1) < Distance(base'[u], sib'[u], l - f + 1) =>
                               regionLock'[callee'[x]] = u
                        /\ pc'[u] = "mAppend" => \A x \in f..l :
                             IF Distance(base'[u], x, l - f + 1) < Distance(base'[u], sib'[u], l - f + 1)
                             THEN isSubmitted'[x]
                             ELSE ~isSubmitted'[x] /\ regionLock'[callee'[x]] = u
      OBVIOUS
    <3>1. /\ RingAt(f, l) /\ base[u] \in f..l /\ pc'[u] = pc[u]
          /\ base[u] \in 1..allocated /\ f \in 1..allocated /\ l \in 1..allocated
          /\ \A x \in f..l : /\ x \in 1..allocated /\ callee'[x] = callee[x]
                            /\ callee[x] \in Regions
      <4>1. pc'[u] \in BasePCs
        BY DEF BasePCs
      <4> QED
        BY <2>2, <4>1, <1>3
    <3>2. caller[base[u]] = u
      BY <3>1, OwnRing
    <3>3. \A x \in f..l : caller[x] = u
      BY <3>1, <3>2 DEF RingAt
    <3>4. /\ pc[u] \in {"mLock", "mRegion"} => \A x \in f..l : ~isSubmitted[x]
          /\ pc[u] \in {"mRegion", "mAppend"} => sib[u] \in f..l
          /\ pc[u] = "mRegion" => \A x \in f..l :
               Distance(base[u], x, l - f + 1) < Distance(base[u], sib[u], l - f + 1) =>
                 regionLock[callee[x]] = u
          /\ pc[u] = "mAppend" => \A x \in f..l :
               IF Distance(base[u], x, l - f + 1) < Distance(base[u], sib[u], l - f + 1)
               THEN isSubmitted[x]
               ELSE ~isSubmitted[x] /\ regionLock[callee[x]] = u
      BY <1>t, <3>1 DEF AdderOK
    <3> QED
      BY <3>1, <3>3, <3>4
  <2> QED
    BY <2>1, <2>2 DEF AdderOK, Singleton
<1>5. PromoterOK(u)'
  <2> SUFFICES ASSUME pc'[u] \in {"prScan", "prSibling", "prMark"} PROVE PromoterOK(u)'
    BY DEF PromoterOK, Searching
  <2>p. pc'[u] = pc[u] /\ pc[u] \in {"prScan", "prSibling", "prMark"}
    OBVIOUS
  <2>q. regionLock[u] = u /\ queue'[u] = queue[u] /\ queue[u] \in Seq(1..allocated)
    BY <2>p, <1>t DEF LocksOK, OwnPCs, Inv, TypeOK, SharedTypes
  <2>r. ASSUME NEW r \in Regions, regionLock[r] = u
        PROVE  /\ \A i \in 1..Len(queue[r]) : isRunning'[queue'[r][i]] <=> isRunning[queue[r][i]]
               /\ FirstIdle(r)' <=> FirstIdle(r)
    <3>1. queue'[r] = queue[r] /\ queue[r] \in Seq(1..allocated)
      BY <2>r DEF Inv, TypeOK, SharedTypes
    <3>2. ASSUME NEW i \in 1..Len(queue[r])
          PROVE  isRunning'[queue'[r][i]] <=> isRunning[queue[r][i]]
      <4>1. queue[r][i] \in 1..allocated /\ callee[queue[r][i]] = r
        BY <3>1, SeqElements DEF Excl, QueueOK
      <4> QED
        BY <4>1, <3>1, <2>r
    <3>3. FirstIdle(r)' <=> FirstIdle(r)
      <4>1. queue[r] # << >> => 1 \in 1..Len(queue[r])
        BY <3>1
      <4> QED
        BY <4>1, <3>1, <3>2 DEF FirstIdle
    <3> QED
      BY <3>2, <3>3
  <2>s. Searching(u)' <=> Searching(u)
    BY <2>p DEF Searching
  <2>b. pc[u] \in {"prSibling", "prMark"} => base[u] \in 1..allocated
    BY Pointers DEF BasePCs
  <2>1. pc'[u] = "prScan" \/ Searching(u)' =>
          \A i \in 1..Len(queue'[u]) : i < scan'[u] => ~isRunning'[queue'[u][i]]
    BY <2>q, <2>r, <2>s, <1>t DEF PromoterOK
  <2>2. Searching(u)' => /\ scan'[u] \in 1..Len(queue'[u]) /\ base'[u] = queue'[u][scan'[u]]
                         /\ ~isRunning'[base'[u]]
    BY <2>q, <2>r, <2>s, <1>t DEF PromoterOK
  <2>3. pc'[u] \in {"prSibling", "prMark"} =>
          callee'[base'[u]] = u /\ isSubmitted'[base'[u]] /\ ~Singleton(base[u])'
    BY <2>p, <2>b, <1>t DEF PromoterOK, RingsKept, Singleton
  <2>4. ASSUME NEW f \in 1..allocated', NEW l \in 1..allocated', RingAt(f, l)', base'[u] \in f..l,
               pc'[u] = "prSibling"
        PROVE  /\ sib'[u] \in f..l /\ sib'[u] # base'[u]
               /\ locks'[u] = Distance(base'[u], sib'[u], l - f + 1)
               /\ \A x \in f..l : Distance(base'[u], x, l - f + 1) < locks'[u] =>
                    regionLock'[callee'[x]] = u /\ FirstIdle(callee[x])'
    <3>1. /\ RingAt(f, l) /\ base[u] \in f..l /\ f \in 1..allocated /\ l \in 1..allocated
          /\ \A x \in f..l : /\ x \in 1..allocated /\ callee'[x] = callee[x]
                            /\ callee[x] \in Regions
      BY <2>4, <1>3 DEF BasePCs
    <3>2. /\ sib[u] \in f..l /\ sib[u] # base[u]
          /\ locks[u] = Distance(base[u], sib[u], l - f + 1)
          /\ \A x \in f..l : Distance(base[u], x, l - f + 1) < locks[u] =>
               regionLock[callee[x]] = u /\ FirstIdle(callee[x])
      BY <3>1, <2>4, <2>p, <1>t DEF PromoterOK
    <3>3. ASSUME NEW x \in f..l, Distance(base[u], x, l - f + 1) < locks[u]
          PROVE  regionLock'[callee'[x]] = u /\ FirstIdle(callee[x])'
      <4>1. PICK r : r = callee[x]
        OBVIOUS
      <4>2. r \in Regions /\ regionLock[r] = u /\ FirstIdle(r)
        BY <4>1, <3>1, <3>2, <3>3
      <4>3. regionLock'[r] = u /\ FirstIdle(r)' /\ callee'[x] = r
        BY <4>1, <4>2, <3>1, <2>r
      <4> QED
        BY <4>3, <4>1 DEF FirstIdle
    <3> QED
      BY <3>2, <3>3
  <2>5. ASSUME NEW f \in 1..allocated', NEW l \in 1..allocated', RingAt(f, l)', base'[u] \in f..l,
               pc'[u] = "prMark"
        PROVE  /\ locks'[u] \in 2..(l - f + 1) /\ step'[u] <= locks'[u]
               /\ step'[u] > 0 => /\ sib'[u] \in f..l
                                  /\ Distance(base'[u], sib'[u], l - f + 1) = step'[u] - 1
               /\ \A x \in f..l : Distance(base'[u], x, l - f + 1) \in step'[u]..(locks'[u] - 1) =>
                    regionLock'[callee'[x]] = u
               /\ ready'[u] =>
                    /\ locks'[u] = l - f + 1
                    /\ \A x \in f..l : IF Distance(base'[u], x, l - f + 1) < step'[u]
                                       THEN isRunning'[x]
                                       ELSE ~isRunning'[x] /\ FirstIdle(callee[x])'
    <3>1. /\ RingAt(f, l) /\ base[u] \in f..l /\ f \in 1..allocated /\ l \in 1..allocated
          /\ \A x \in f..l : /\ x \in 1..allocated /\ callee'[x] = callee[x]
                            /\ callee[x] \in Regions
      BY <2>5, <1>3 DEF BasePCs
    <3>2. /\ locks[u] \in 2..(l - f + 1) /\ step[u] <= locks[u]
          /\ step[u] > 0 => /\ sib[u] \in f..l
                            /\ Distance(base[u], sib[u], l - f + 1) = step[u] - 1
          /\ \A x \in f..l : Distance(base[u], x, l - f + 1) \in step[u]..(locks[u] - 1) =>
               regionLock[callee[x]] = u
          /\ ready[u] =>
               /\ locks[u] = l - f + 1
               /\ \A x \in f..l : IF Distance(base[u], x, l - f + 1) < step[u]
                                  THEN isRunning[x]
                                  ELSE ~isRunning[x] /\ FirstIdle(callee[x])
      BY <3>1, <2>5, <2>p, <1>t DEF PromoterOK
    <3>3. ASSUME NEW x \in f..l, ready[u]
          PROVE  IF Distance(base[u], x, l - f + 1) < step[u]
                 THEN isRunning'[x] ELSE ~isRunning'[x] /\ FirstIdle(callee[x])'
      <4>1. PICK r : r = callee[x]
        OBVIOUS
      <4>2. Distance(base[u], x, l - f + 1) \in 0..(l - f) /\ step[u] \in Nat
        <5>1. f \in Nat /\ l \in Nat
          BY <3>1
        <5>2. Distance(base[u], x, l - f + 1) \in 0..(l - f)
          BY <5>1, <3>1, DistanceIs
        <5> QED
          BY <5>2 DEF Inv, TypeOK, ThreadTypes
      <4>3. CASE Distance(base[u], x, l - f + 1) < step[u]
        BY <4>3, <3>1, <3>2, <3>3
      <4>4. CASE ~(Distance(base[u], x, l - f + 1) < step[u])
        <5>1. Distance(base[u], x, l - f + 1) \in step[u]..(locks[u] - 1)
          BY <4>2, <4>4, <3>2, <3>3, <3>1
        <5>2. r \in Regions /\ regionLock[r] = u /\ FirstIdle(r) /\ ~isRunning[x]
          BY <5>1, <4>1, <4>4, <3>1, <3>2, <3>3
        <5>3. FirstIdle(r)' /\ ~isRunning'[x]
          BY <5>2, <4>1, <3>1, <2>r
        <5> QED
          BY <5>3, <4>1, <4>4, <3>1 DEF FirstIdle
      <4> QED
        BY <4>3, <4>4
    <3> QED
      BY <3>1, <3>2, <3>3
  <2> QED
    BY <2>1, <2>2, <2>3, <2>4, <2>5 DEF PromoterOK
<1> QED
  BY <1>1, <1>2, <1>4, <1>5

-----------------------------------------------------------------------------
(* Steps that leave the sessions and the queues alone. *)

coreVars == <<allocated, freed, caller, callee, nextSibling, isOpen, isSubmitted,
              isRunning, queue, cur, block>>

\* A step of the processor t leaves the locals of the others alone; at most it
\* wakes some of them.
Others(t) ==
  \A u \in Regions \ {t} :
     /\ block'[u] = block[u] /\ base'[u] = base[u] /\ sib'[u] = sib[u]
     /\ locks'[u] = locks[u] /\ step'[u] = step[u] /\ ready'[u] = ready[u]
     /\ scan'[u] = scan[u] /\ cur'[u] = cur[u]
     /\ pc'[u] = pc[u] \/ (pc[u] = "waiting" /\ pc'[u] = "iterate")

\* It leaves the mutexes they hold alone as well.
OthersLocks(t) ==
  \A u \in Regions \ {t} :
     /\ multiLock' = u <=> multiLock = u
     /\ \A r \in Regions : regionLock[r] = u => regionLock'[r] = u

\* A step of t that leaves the sessions and the queues alone.
LEMMA LocalStep ==
  ASSUME Inv, Excl, NEW t \in Regions, UNCHANGED coreVars, Others(t), OthersLocks(t),
         \A f, l \in 1..allocated : RingAt(f, l) => RingOK(f, l)',
         LocksOK(t)', BlockOK(t)', AdderOK(t)', PromoterOK(t)'
  PROVE  Excl'
<1> USE DEF coreVars
<1>r. RingsKept /\ \A f, l : RingAt(f, l)' <=> RingAt(f, l)
  BY RingsUnchanged
<1>1. RingsOK'
  BY <1>r DEF Excl, RingsOK
<1>6. FreshOK'
  BY DEF Excl, FreshOK
<1>2. \A f, l \in 1..allocated' : RingAt(f, l)' => RingOK(f, l)'
  BY <1>r
<1>3. \A r \in Regions : QueueOK(r)'
  BY DEF Excl, QueueOK
<1>4. \A s \in 1..allocated' : SessionOK(s)'
  BY DEF Excl, SessionOK
<1>5. ASSUME NEW u \in Regions, u # t
      PROVE  LocksOK(u)' /\ BlockOK(u)' /\ AdderOK(u)' /\ PromoterOK(u)'
  <2>1. /\ block'[u] = block[u] /\ base'[u] = base[u] /\ sib'[u] = sib[u]
        /\ locks'[u] = locks[u] /\ step'[u] = step[u] /\ ready'[u] = ready[u]
        /\ scan'[u] = scan[u] /\ cur'[u] = cur[u]
        /\ pc'[u] = pc[u] \/ (pc[u] = "waiting" /\ pc'[u] = "iterate")
    BY <1>5 DEF Others
  <2>2. /\ multiLock' = u <=> multiLock = u
        /\ \A r \in Regions : regionLock[r] = u => regionLock'[r] = u /\ queue'[r] = queue[r]
    BY <1>5 DEF OthersLocks
  <2> QED
    BY <2>1, <2>2, <1>r, ThreadKept
<1> QED
  BY <1>1, <1>2, <1>3, <1>4, <1>5, <1>6 DEF Excl

\* ... and of a thread that neither submits nor marks sessions of a ring.
LEMMA SimpleStep ==
  ASSUME Inv, Excl, NEW t \in Regions, UNCHANGED coreVars, Others(t), OthersLocks(t),
         pc[t] \notin {"mAppend", "prMark"},
         LocksOK(t)', BlockOK(t)', AdderOK(t)', PromoterOK(t)'
  PROVE  Excl'
<1>1. ASSUME NEW f \in 1..allocated, NEW l \in 1..allocated, RingAt(f, l)
      PROVE  RingOK(f, l)'
  <2>1. RingOK(f, l)
    BY <1>1 DEF Excl
  <2>2. ASSUME NEW u \in Regions, pc[u] \in {"mAppend", "prMark"}
        PROVE  pc'[u] = pc[u] /\ base'[u] = base[u] /\ ready'[u] = ready[u]
    <3>1. u # t
      BY <2>2
    <3> QED
      BY <3>1, <2>2 DEF Others
  <2> QED
    BY <2>1, <2>2 DEF RingOK, coreVars
<1> QED
  BY <1>1, LocalStep

\* Places where nothing is claimed.
LEMMA NoAdder ==
  ASSUME NEW t, pc'[t] \notin {"increment", "append", "mLock", "mRegion", "mAppend"}
  PROVE  AdderOK(t)'
BY DEF AdderOK

\* The same of promotions.
LEMMA NoPromoter ==
  ASSUME NEW t, pc'[t] \notin {"prScan", "prSibling", "prMark"}
  PROVE  PromoterOK(t)'
BY DEF PromoterOK, Searching

SubmitPCs == {"increment", "append", "mLock", "mRegion", "mAppend", "mWake"}

\* The sessions of a feature stay open.
LEMMA BlockStays ==
  ASSUME Inv, Excl, NEW t \in Regions,
         UNCHANGED <<allocated, caller, callee, nextSibling>>,
         block'[t] = block[t],
         \A s \in 1..allocated : isOpen[s] => isOpen'[s],
         pc[t] = "closing" => pc'[t] = "closing",
         pc'[t] \in ClientPCs \ {"body"} => block[t] # << >>,
         pc'[t] \in SubmitPCs => \/ pc[t] \in SubmitPCs /\ base'[t] = base[t]
                                 \/ /\ pc[t] # "closing"
                                    /\ \E i \in 1..Len(block[t]) : base'[t] = block[t][i]
  PROVE  BlockOK(t)'
<1>r. \A f, l : RingAt(f, l)' <=> RingAt(f, l)
  BY RingsUnchanged
<1>b. block[t] \in Seq(1..allocated) /\ allocated \in Nat
  BY DEF Inv, TypeOK, SessionTypes, ThreadTypes
<1>1. ASSUME block'[t] # << >>
      PROVE  \E f, l \in 1..allocated' :
          /\ RingAt(f, l)' /\ caller'[f] = t /\ EndOfRing(block'[t], f, l)
          /\ \A i \in 1..Len(block'[t]) : isOpen'[block'[t][i]]
          /\ pc'[t] # "closing" => Len(block'[t]) = l - f + 1
          /\ pc'[t] \in SubmitPCs => base'[t] \in f..l
  <2>1. PICK f \in 1..allocated, l \in 1..allocated :
          /\ RingAt(f, l) /\ caller[f] = t /\ EndOfRing(block[t], f, l)
          /\ \A i \in 1..Len(block[t]) : isOpen[block[t][i]]
          /\ pc[t] # "closing" => Len(block[t]) = l - f + 1
          /\ pc[t] \in SubmitPCs => base[t] \in f..l
    BY <1>1 DEF Excl, BlockOK, SubmitPCs
  <2>2. \A i \in 1..Len(block'[t]) : isOpen'[block'[t][i]]
    BY <2>1, <1>b, SeqElements
  <2>3. pc'[t] \in SubmitPCs => base'[t] \in f..l
    <3>1. ASSUME NEW i \in 1..Len(block[t]) PROVE block[t][i] \in f..l
      BY <2>1, <1>b, EndIn
    <3> QED
      BY <3>1, <2>1
  <2>4. pc'[t] # "closing" => Len(block'[t]) = l - f + 1
    BY <2>1
  <2>5. RingAt(f, l)' /\ caller'[f] = t /\ EndOfRing(block'[t], f, l)
    BY <2>1, <1>r
  <2> QED
    BY <2>1, <2>2, <2>3, <2>4, <2>5
<1> QED
  BY <1>1 DEF BlockOK, SubmitPCs

\* A step of t that only takes or releases mutexes and goes on to a place where
\* little is claimed.
LEMMA PlainStep ==
  ASSUME Inv, Excl, NEW t \in Regions, UNCHANGED coreVars, Others(t), OthersLocks(t),
         pc[t] \notin {"mAppend", "prMark"},
         pc'[t] \notin {"increment", "append", "mLock", "mRegion", "mAppend", "prScan",
                        "prSibling", "prMark", "closing"},
         pc[t] # "closing",
         pc'[t] = "mWake" => pc[t] = "mWake" /\ base'[t] = base[t],
         pc'[t] = "sync" => pc[t] \in ClientPCs \ {"body"},
         LocksOK(t)'
  PROVE  Excl'
<1>1. BlockOK(t)'
  <2>1. pc'[t] \in ClientPCs \ {"body"} => pc[t] \in ClientPCs \ {"body"}
    BY DEF ClientPCs
  <2>2. pc'[t] \in ClientPCs \ {"body"} => block[t] # << >>
    BY <2>1 DEF Excl, BlockOK
  <2>3. pc'[t] \in SubmitPCs => pc[t] \in SubmitPCs /\ base'[t] = base[t]
    BY DEF SubmitPCs
  <2> QED
    BY <2>2, <2>3, BlockStays DEF coreVars
<1> QED
  BY <1>1, NoAdder, NoPromoter, SimpleStep

\* The client of a synchronous call goes on.
LEMMA SyncReturnExcl ==
  ASSUME Inv, Excl, NEW t \in Regions, SyncReturn(t)
  PROVE  Excl'
<1> USE NoneAssumption
<1>1. UNCHANGED coreVars
  BY DEF coreVars, SyncReturn, sessionVars, localVars
<1>2. Others(t) /\ OthersLocks(t)
  <2>1. Others(t)
    BY DEF SyncReturn, Others, localVars, Inv, TypeOK, ThreadTypes
  <2>2. LocksOK(t)
    BY DEF Excl
  <2> QED
    BY <2>1, <2>2 DEF SyncReturn, OthersLocks, Inv, TypeOK, SharedTypes, LocksOK, MultiPCs, OwnPCs
<1>3. LocksOK(t)'
  <2>1. LocksOK(t) /\ LocalsSet(t)
    BY DEF Excl, Inv
  <2> QED
    BY <2>1 DEF SyncReturn, LocksOK, LocalsSet, MultiPCs, OwnPCs, ClientPCs, Inv, TypeOK,
                SharedTypes, ThreadTypes, sessionVars, localVars
<1>4. /\ pc[t] \notin {"mAppend", "prMark", "closing"}
      /\ pc'[t] \notin {"increment", "append", "mLock", "mRegion", "mAppend", "prScan",
                        "prSibling", "prMark", "closing", "mWake", "sync"}
  BY DEF SyncReturn, Inv, TypeOK, ThreadTypes
<1> QED
  BY <1>1, <1>2, <1>3, <1>4, PlainStep

\* The processor finds nothing to run.
LEMMA IdleExcl ==
  ASSUME Inv, Excl, NEW t \in Regions, Idle(t)
  PROVE  Excl'
<1> USE NoneAssumption
<1>1. UNCHANGED coreVars
  BY DEF coreVars, Idle, sessionVars, localVars
<1>2. Others(t) /\ OthersLocks(t)
  <2>1. Others(t)
    BY DEF Idle, Others, localVars, Inv, TypeOK, ThreadTypes
  <2>2. LocksOK(t)
    BY DEF Excl
  <2> QED
    BY <2>1, <2>2 DEF Idle, OthersLocks, Inv, TypeOK, SharedTypes, LocksOK, MultiPCs, OwnPCs
<1>3. LocksOK(t)'
  <2>1. LocksOK(t) /\ LocalsSet(t)
    BY DEF Excl, Inv
  <2> QED
    BY <2>1 DEF Idle, LocksOK, LocalsSet, MultiPCs, OwnPCs, ClientPCs, Inv, TypeOK,
                SharedTypes, ThreadTypes, sessionVars, localVars
<1>4. /\ pc[t] \notin {"mAppend", "prMark", "closing"}
      /\ pc'[t] \notin {"increment", "append", "mLock", "mRegion", "mAppend", "prScan",
                        "prSibling", "prMark", "closing", "mWake", "sync"}
  BY DEF Idle, Inv, TypeOK, ThreadTypes
<1> QED
  BY <1>1, <1>2, <1>3, <1>4, PlainStep

\* It waits.
LEMMA SleepExcl ==
  ASSUME Inv, Excl, NEW t \in Regions, Sleep(t)
  PROVE  Excl'
<1> USE NoneAssumption
<1>1. UNCHANGED coreVars
  BY DEF coreVars, Sleep, sessionVars, localVars
<1>2. Others(t) /\ OthersLocks(t)
  <2>1. Others(t)
    BY DEF Sleep, Others, localVars, Inv, TypeOK, ThreadTypes
  <2>2. LocksOK(t)
    BY DEF Excl
  <2> QED
    BY <2>1, <2>2 DEF Sleep, OthersLocks, Inv, TypeOK, SharedTypes, LocksOK, MultiPCs, OwnPCs
<1>3. LocksOK(t)'
  <2>1. LocksOK(t) /\ LocalsSet(t)
    BY DEF Excl, Inv
  <2> QED
    BY <2>1 DEF Sleep, LocksOK, LocalsSet, MultiPCs, OwnPCs, ClientPCs, Inv, TypeOK,
                SharedTypes, ThreadTypes, sessionVars, localVars
<1>4. /\ pc[t] \notin {"mAppend", "prMark", "closing"}
      /\ pc'[t] \notin {"increment", "append", "mLock", "mRegion", "mAppend", "prScan",
                        "prSibling", "prMark", "closing", "mWake", "sync"}
  BY DEF Sleep, Inv, TypeOK, ThreadTypes
<1> QED
  BY <1>1, <1>2, <1>3, <1>4, PlainStep

\* The wait ends.
LEMMA TimeoutExcl ==
  ASSUME Inv, Excl, NEW t \in Regions, Timeout(t)
  PROVE  Excl'
<1> USE NoneAssumption
<1>1. UNCHANGED coreVars
  BY DEF coreVars, Timeout, sessionVars, localVars
<1>2. Others(t) /\ OthersLocks(t)
  <2>1. Others(t)
    BY DEF Timeout, Others, localVars, Inv, TypeOK, ThreadTypes
  <2>2. LocksOK(t)
    BY DEF Excl
  <2> QED
    BY <2>1, <2>2 DEF Timeout, OthersLocks, Inv, TypeOK, SharedTypes, LocksOK, MultiPCs, OwnPCs
<1>3. LocksOK(t)'
  <2>1. LocksOK(t) /\ LocalsSet(t)
    BY DEF Excl, Inv
  <2> QED
    BY <2>1 DEF Timeout, LocksOK, LocalsSet, MultiPCs, OwnPCs, ClientPCs, Inv, TypeOK,
                SharedTypes, ThreadTypes, sessionVars, localVars
<1>4. /\ pc[t] \notin {"mAppend", "prMark", "closing"}
      /\ pc'[t] \notin {"increment", "append", "mLock", "mRegion", "mAppend", "prScan",
                        "prSibling", "prMark", "closing", "mWake", "sync"}
  BY DEF Timeout, Inv, TypeOK, ThreadTypes
<1> QED
  BY <1>1, <1>2, <1>3, <1>4, PlainStep

\* A call is taken.
LEMMA NextCallExcl ==
  ASSUME Inv, Excl, NEW t \in Regions, NextCall(t)
  PROVE  Excl'
<1> USE NoneAssumption
<1>1. UNCHANGED coreVars
  BY DEF coreVars, NextCall, sessionVars, localVars
<1>2. Others(t) /\ OthersLocks(t)
  <2>1. Others(t)
    BY DEF NextCall, Others, localVars, Inv, TypeOK, ThreadTypes
  <2>2. LocksOK(t)
    BY DEF Excl
  <2> QED
    BY <2>1, <2>2 DEF NextCall, OthersLocks, Inv, TypeOK, SharedTypes, LocksOK, MultiPCs, OwnPCs
<1>3. LocksOK(t)'
  <2>1. LocksOK(t) /\ LocalsSet(t)
    BY DEF Excl, Inv
  <2> QED
    BY <2>1 DEF NextCall, LocksOK, LocalsSet, MultiPCs, OwnPCs, ClientPCs, Inv, TypeOK,
                SharedTypes, ThreadTypes, sessionVars, localVars
<1>4. /\ pc[t] \notin {"mAppend", "prMark", "closing"}
      /\ pc'[t] \notin {"increment", "append", "mLock", "mRegion", "mAppend", "prScan",
                        "prSibling", "prMark", "closing", "mWake", "sync"}
  BY DEF NextCall, Inv, TypeOK, ThreadTypes
<1> QED
  BY <1>1, <1>2, <1>3, <1>4, PlainStep

\* The session is over.
LEMMA EndSessionExcl ==
  ASSUME Inv, Excl, NEW t \in Regions, EndSession(t)
  PROVE  Excl'
<1> USE NoneAssumption
<1>1. UNCHANGED coreVars
  BY DEF coreVars, EndSession, sessionVars, localVars
<1>2. Others(t) /\ OthersLocks(t)
  <2>1. Others(t)
    BY DEF EndSession, Others, localVars, Inv, TypeOK, ThreadTypes
  <2>2. LocksOK(t)
    BY DEF Excl
  <2> QED
    BY <2>1, <2>2 DEF EndSession, OthersLocks, Inv, TypeOK, SharedTypes, LocksOK, MultiPCs, OwnPCs
<1>3. LocksOK(t)'
  <2>1. LocksOK(t) /\ LocalsSet(t)
    BY DEF Excl, Inv
  <2> QED
    BY <2>1 DEF EndSession, LocksOK, LocalsSet, MultiPCs, OwnPCs, ClientPCs, Inv, TypeOK,
                SharedTypes, ThreadTypes, sessionVars, localVars
<1>4. /\ pc[t] \notin {"mAppend", "prMark", "closing"}
      /\ pc'[t] \notin {"increment", "append", "mLock", "mRegion", "mAppend", "prScan",
                        "prSibling", "prMark", "closing", "mWake", "sync"}
  BY DEF EndSession, Inv, TypeOK, ThreadTypes
<1> QED
  BY <1>1, <1>2, <1>3, <1>4, PlainStep

\* The feature returns.
LEMMA EndBodyExcl ==
  ASSUME Inv, Excl, NEW t \in Regions, EndBody(t)
  PROVE  Excl'
<1> USE NoneAssumption
<1>1. UNCHANGED coreVars
  BY DEF coreVars, EndBody, sessionVars, localVars
<1>2. Others(t) /\ OthersLocks(t)
  <2>1. Others(t)
    BY DEF EndBody, Others, localVars, Inv, TypeOK, ThreadTypes
  <2>2. LocksOK(t)
    BY DEF Excl
  <2> QED
    BY <2>1, <2>2 DEF EndBody, OthersLocks, Inv, TypeOK, SharedTypes, LocksOK, MultiPCs, OwnPCs
<1>3. LocksOK(t)'
  <2>1. LocksOK(t) /\ LocalsSet(t)
    BY DEF Excl, Inv
  <2> QED
    BY <2>1 DEF EndBody, LocksOK, LocalsSet, MultiPCs, OwnPCs, ClientPCs, Inv, TypeOK,
                SharedTypes, ThreadTypes, sessionVars, localVars
<1>4. /\ pc[t] \notin {"mAppend", "prMark", "closing"}
      /\ pc'[t] \notin {"increment", "append", "mLock", "mRegion", "mAppend", "prScan",
                        "prSibling", "prMark", "closing", "mWake", "sync"}
  BY DEF EndBody, Inv, TypeOK, ThreadTypes
<1> QED
  BY <1>1, <1>2, <1>3, <1>4, PlainStep

\* The session is no longer counted.
LEMMA DecrementCountExcl ==
  ASSUME Inv, Excl, NEW t \in Regions, DecrementCount(t)
  PROVE  Excl'
<1> USE NoneAssumption
<1>1. UNCHANGED coreVars
  BY DEF coreVars, DecrementCount, sessionVars, localVars
<1>2. Others(t) /\ OthersLocks(t)
  <2>1. Others(t)
    BY DEF DecrementCount, Others, localVars, Inv, TypeOK, ThreadTypes
  <2>2. LocksOK(t)
    BY DEF Excl
  <2> QED
    BY <2>1, <2>2 DEF DecrementCount, OthersLocks, Inv, TypeOK, SharedTypes, LocksOK, MultiPCs, OwnPCs
<1>3. LocksOK(t)'
  <2>1. LocksOK(t) /\ LocalsSet(t)
    BY DEF Excl, Inv
  <2> QED
    BY <2>1 DEF DecrementCount, LocksOK, LocalsSet, MultiPCs, OwnPCs, ClientPCs, Inv, TypeOK,
                SharedTypes, ThreadTypes, sessionVars, localVars
<1>4. /\ pc[t] \notin {"mAppend", "prMark", "closing"}
      /\ pc'[t] \notin {"increment", "append", "mLock", "mRegion", "mAppend", "prScan",
                        "prSibling", "prMark", "closing", "mWake", "sync"}
  BY DEF DecrementCount, Inv, TypeOK, ThreadTypes
<1> QED
  BY <1>1, <1>2, <1>3, <1>4, PlainStep

\* A promotion locks out the other ones.
LEMMA PromoteLockExcl ==
  ASSUME Inv, Excl, NEW t \in Regions, PromoteLock(t)
  PROVE  Excl'
<1> USE NoneAssumption
<1>1. UNCHANGED coreVars
  BY DEF coreVars, PromoteLock, sessionVars, localVars
<1>2. Others(t) /\ OthersLocks(t)
  <2>1. Others(t)
    BY DEF PromoteLock, Others, localVars, Inv, TypeOK, ThreadTypes
  <2>2. LocksOK(t)
    BY DEF Excl
  <2> QED
    BY <2>1, <2>2 DEF PromoteLock, OthersLocks, Inv, TypeOK, SharedTypes, LocksOK, MultiPCs, OwnPCs
<1>3. LocksOK(t)'
  <2>1. LocksOK(t) /\ LocalsSet(t)
    BY DEF Excl, Inv
  <2> QED
    BY <2>1 DEF PromoteLock, LocksOK, LocalsSet, MultiPCs, OwnPCs, ClientPCs, Inv, TypeOK,
                SharedTypes, ThreadTypes, sessionVars, localVars
<1>4. /\ pc[t] \notin {"mAppend", "prMark", "closing"}
      /\ pc'[t] \notin {"increment", "append", "mLock", "mRegion", "mAppend", "prScan",
                        "prSibling", "prMark", "closing", "mWake", "sync"}
  BY DEF PromoteLock, Inv, TypeOK, ThreadTypes
<1> QED
  BY <1>1, <1>2, <1>3, <1>4, PlainStep

\* A promotion ends.
LEMMA PromoteDoneExcl ==
  ASSUME Inv, Excl, NEW t \in Regions, PromoteDone(t)
  PROVE  Excl'
<1> USE NoneAssumption
<1>1. UNCHANGED coreVars
  BY DEF coreVars, PromoteDone, sessionVars, localVars
<1>2. Others(t) /\ OthersLocks(t)
  <2>1. Others(t)
    BY DEF PromoteDone, Others, localVars, Inv, TypeOK, ThreadTypes
  <2>2. LocksOK(t)
    BY DEF Excl
  <2> QED
    BY <2>1, <2>2 DEF PromoteDone, OthersLocks, Inv, TypeOK, SharedTypes, LocksOK, MultiPCs, OwnPCs
<1>3. LocksOK(t)'
  <2>1. LocksOK(t) /\ LocalsSet(t)
    BY DEF Excl, Inv
  <2> QED
    BY <2>1 DEF PromoteDone, LocksOK, LocalsSet, MultiPCs, OwnPCs, ClientPCs, Inv, TypeOK,
                SharedTypes, ThreadTypes, sessionVars, localVars
<1>4. /\ pc[t] \notin {"mAppend", "prMark", "closing"}
      /\ pc'[t] \notin {"increment", "append", "mLock", "mRegion", "mAppend", "prScan",
                        "prSibling", "prMark", "closing", "mWake", "sync"}
  BY DEF PromoteDone, Inv, TypeOK, ThreadTypes
<1> QED
  BY <1>1, <1>2, <1>3, <1>4, PlainStep

\* The main processor is woken.
LEMMA WakeMainExcl ==
  ASSUME Inv, Excl, NEW t \in Regions, WakeMain(t)
  PROVE  Excl'
<1> USE NoneAssumption, MainAssumption
<1>0. /\ pc[t] = "wakeMain" /\ pc' = Woken([pc EXCEPT ![t] = "iterate"], Main)
      /\ UNCHANGED <<sessionVars, queue, regionLock, multiLock, count, localVars, crashed>>
  BY DEF WakeMain
<1>p. /\ pc'[t] = "iterate"
      /\ \A u \in Regions \ {t} : pc'[u] = pc[u] \/ (pc[u] = "waiting" /\ pc'[u] = "iterate")
  <2>1. pc \in [Regions -> PCs]
    BY DEF Inv, TypeOK, ThreadTypes
  <2>2. PICK next : next = [pc EXCEPT ![t] = "iterate"]
    OBVIOUS
  <2>3. /\ next \in [Regions -> PCs] /\ next[t] = "iterate"
        /\ \A u \in Regions \ {t} : next[u] = pc[u]
    BY <2>1, <2>2 DEF PCs
  <2>4. \A u \in Regions : \/ Woken(next, Main)[u] = next[u]
                           \/ next[u] = "waiting" /\ Woken(next, Main)[u] = "iterate"
    BY <2>3, WokenIs
  <2> QED
    BY <2>2, <2>3, <2>4, <1>0
<1>1. UNCHANGED coreVars
  BY <1>0 DEF coreVars, sessionVars, localVars
<1>2. Others(t) /\ OthersLocks(t)
  BY <1>0, <1>p DEF Others, OthersLocks, localVars
<1>3. LocksOK(t)'
  <2>1. LocksOK(t)
    BY DEF Excl
  <2> QED
    BY <2>1, <1>0, <1>p DEF LocksOK, MultiPCs, OwnPCs, ClientPCs, sessionVars, localVars
<1> QED
  BY <1>0, <1>1, <1>2, <1>3, <1>p, PlainStep

\* The processor of a sibling is woken, by the promotion.
LEMMA PromoteWakeExcl ==
  ASSUME Inv, Excl, NEW t \in Regions, PromoteWake(t)
  PROVE  Excl'
<1> USE NoneAssumption
<1> DEFINE r == callee[nextSibling[sib[t]]]
<1>0. /\ pc[t] = "prWake" /\ r \in Regions
      /\ UNCHANGED <<sessionVars, queue, regionLock, multiLock, count, cur, call, block,
                     base, locks, ready, scan, crashed>>
      /\ \A u \in Regions \ {t} : sib'[u] = sib[u] /\ step'[u] = step[u]
  BY Pointers DEF PromoteWake, SiblingPCs, Inv, TypeOK, ThreadTypes
<1>p. /\ pc'[t] \in {"prWake", "prDone"}
      /\ \A u \in Regions \ {t} : pc'[u] = pc[u] \/ (pc[u] = "waiting" /\ pc'[u] = "iterate")
  <2>1. pc \in [Regions -> PCs]
    BY DEF Inv, TypeOK, ThreadTypes
  <2>2. pc' = Woken(pc, r) \/ pc' = [pc EXCEPT ![t] = "prDone"]
    BY DEF PromoteWake
  <2> HIDE DEF r
  <2>3. CASE pc' = Woken(pc, r)
    BY <2>1, <2>3, <1>0, WokenIs
  <2>4. CASE pc' = [pc EXCEPT ![t] = "prDone"]
    BY <2>1, <2>4
  <2> QED
    BY <2>2, <2>3, <2>4
<1>1. UNCHANGED coreVars
  BY <1>0 DEF coreVars, sessionVars
<1>2. Others(t) /\ OthersLocks(t)
  BY <1>0, <1>p DEF Others, OthersLocks
<1>3. LocksOK(t)'
  <2>1. LocksOK(t)
    BY DEF Excl
  <2> QED
    BY <2>1, <1>0, <1>p DEF LocksOK, MultiPCs, OwnPCs, ClientPCs, sessionVars
<1> QED
  BY <1>0, <1>1, <1>2, <1>3, <1>p, PlainStep

\* The processor of a sibling is woken, by the client.
LEMMA WakeCalleeExcl ==
  ASSUME Inv, Excl, NEW t \in Regions, WakeCallee(t)
  PROVE  Excl'
<1> USE NoneAssumption
<1> DEFINE r == callee[sib[t]]
<1>0. /\ pc[t] = "mWake" /\ r \in Regions
      /\ UNCHANGED <<sessionVars, queue, regionLock, count, cur, call, block,
                     locks, step, ready, scan, crashed>>
      /\ \A u \in Regions \ {t} : sib'[u] = sib[u] /\ base'[u] = base[u]
  BY Pointers DEF WakeCallee, CallLogged, SiblingPCs, Inv, TypeOK, ThreadTypes
<1>m. multiLock = t
  BY <1>0 DEF Excl, LocksOK, MultiPCs
<1>p. /\ \/ pc'[t] \in {"sync", "body"} /\ multiLock' = None
         \/ pc'[t] = "mWake" /\ base'[t] = base[t] /\ multiLock' = multiLock
      /\ \A u \in Regions \ {t} : pc'[u] = pc[u] \/ (pc[u] = "waiting" /\ pc'[u] = "iterate")
  <2>1. pc \in [Regions -> PCs]
    BY DEF Inv, TypeOK, ThreadTypes
  <2>2. \/ /\ pc' = [Woken(pc, r) EXCEPT ![t] = IF mustWait[base[t]] THEN "sync" ELSE "body"]
           /\ multiLock' = None
        \/ pc' = Woken(pc, r) /\ UNCHANGED <<multiLock, base>>
    BY DEF WakeCallee, CallLogged
  <2> HIDE DEF r
  <2>3. /\ Woken(pc, r) \in [Regions -> PCs] /\ Woken(pc, r)[t] = "mWake"
        /\ \A u \in Regions : \/ Woken(pc, r)[u] = pc[u]
                              \/ pc[u] = "waiting" /\ Woken(pc, r)[u] = "iterate"
    BY <2>1, <1>0, WokenIs
  <2> QED
    BY <2>2, <2>3
<1>1. UNCHANGED coreVars
  BY <1>0 DEF coreVars, sessionVars
<1>2. Others(t) /\ OthersLocks(t)
  BY <1>0, <1>p, <1>m DEF Others, OthersLocks
<1>3. LocksOK(t)'
  <2>1. LocksOK(t)
    BY DEF Excl
  <2> QED
    BY <2>1, <1>0, <1>p, <1>m DEF LocksOK, MultiPCs, OwnPCs, ClientPCs, sessionVars
<1> QED
  BY <1>0, <1>1, <1>2, <1>3, <1>p, PlainStep DEF ClientPCs

\* A step that changes nothing of all this.
LEMMA QuietExcl ==
  ASSUME Inv, Excl, UNCHANGED <<sessionVars, queue, regionLock, multiLock, pc, localVars>>
  PROVE  Excl'
<1> USE DEF sessionVars, localVars
<1>r. RingsKept /\ \A f, l : RingAt(f, l)' <=> RingAt(f, l)
  BY RingsUnchanged
<1>1. RingsOK'
  BY <1>r DEF Excl, RingsOK
<1>6. FreshOK'
  BY DEF Excl, FreshOK
<1>2. ASSUME NEW f \in 1..allocated', NEW l \in 1..allocated', RingAt(f, l)'
      PROVE  RingOK(f, l)'
  <2>1. RingOK(f, l)
    BY <1>2, <1>r DEF Excl
  <2> QED
    BY <2>1 DEF RingOK
<1>3. \A r \in Regions : QueueOK(r)'
  BY DEF Excl, QueueOK
<1>4. \A s \in 1..allocated' : SessionOK(s)'
  BY DEF Excl, SessionOK
<1>5. ASSUME NEW u \in Regions
      PROVE  LocksOK(u)' /\ BlockOK(u)' /\ AdderOK(u)' /\ PromoterOK(u)'
  BY <1>r, ThreadKept
<1> QED
  BY <1>1, <1>2, <1>3, <1>4, <1>5, <1>6 DEF Excl

\* The promoting processor locks its own region.
LEMMA PromoteRegionExcl ==
  ASSUME Inv, Excl, NEW t \in Regions, PromoteRegion(t)
  PROVE  Excl'
<1> USE NoneAssumption
<1>0. /\ pc[t] = "prRegion" /\ regionLock[t] = None /\ pc'[t] = "prScan" /\ scan'[t] = 1
      /\ UNCHANGED <<sessionVars, queue, multiLock, count, cur, call, block, base,
                     sib, locks, step, ready, crashed>>
      /\ regionLock' = [regionLock EXCEPT ![t] = t]
      /\ \A u \in Regions \ {t} : pc'[u] = pc[u] /\ scan'[u] = scan[u]
  BY DEF PromoteRegion, Inv, TypeOK, ThreadTypes
<1>1. UNCHANGED coreVars
  BY <1>0 DEF coreVars, sessionVars
<1>2. Others(t) /\ OthersLocks(t)
  BY <1>0 DEF Others, OthersLocks, Inv, TypeOK, SharedTypes
<1>3. LocksOK(t)'
  <2>1. LocksOK(t)
    BY DEF Excl
  <2> QED
    BY <2>1, <1>0 DEF LocksOK, MultiPCs, OwnPCs, ClientPCs, sessionVars, Inv, TypeOK, SharedTypes
<1>4. BlockOK(t)'
  BY <1>0, <1>1, BlockStays DEF coreVars, ClientPCs, SubmitPCs
<1>5. PromoterOK(t)'
  BY <1>0 DEF PromoterOK, Searching
<1> QED
  BY <1>0, <1>1, <1>2, <1>3, <1>4, <1>5, NoAdder, SimpleStep

\* The lock on multisessions is taken by a client.
LEMMA LockMultisessionsExcl ==
  ASSUME Inv, Excl, NEW t \in Regions, LockMultisessions(t)
  PROVE  Excl'
<1> USE NoneAssumption
<1>0. /\ pc[t] = "mLock" /\ multiLock = None /\ pc'[t] = "mRegion" /\ sib'[t] = base[t]
      /\ multiLock' = t
      /\ UNCHANGED <<sessionVars, queue, regionLock, count, cur, call, block, base,
                     locks, step, ready, scan, crashed>>
      /\ \A u \in Regions \ {t} : pc'[u] = pc[u] /\ sib'[u] = sib[u]
  BY DEF LockMultisessions, Inv, TypeOK, ThreadTypes
<1>1. UNCHANGED coreVars
  BY <1>0 DEF coreVars, sessionVars
<1>2. Others(t) /\ OthersLocks(t)
  BY <1>0 DEF Others, OthersLocks
<1>3. LocksOK(t)'
  <2>1. LocksOK(t)
    BY DEF Excl
  <2> QED
    BY <2>1, <1>0 DEF LocksOK, MultiPCs, OwnPCs, ClientPCs, sessionVars
<1>4. BlockOK(t)'
  <2>1. block[t] # << >>
    BY <1>0 DEF Excl, BlockOK, ClientPCs
  <2> QED
    BY <2>1, <1>0, <1>1, BlockStays DEF coreVars, SubmitPCs
<1>5. AdderOK(t)'
  <2> SUFFICES ASSUME NEW f \in 1..allocated', NEW l \in 1..allocated', RingAt(f, l)',
                      base'[t] \in f..l
               PROVE  /\ \A x \in f..l : ~isSubmitted'[x]
                      /\ sib'[t] \in f..l
                      /\ \A x \in f..l : ~(Distance(base'[t], x, l - f + 1)
                                           < Distance(base'[t], sib'[t], l - f + 1))
    BY <1>0 DEF AdderOK
  <2>1. RingAt(f, l) /\ f \in 1..allocated /\ l \in 1..allocated
    BY <1>0, RingsUnchanged DEF sessionVars
  <2>2. \A x \in f..l : ~isSubmitted[x]
    BY <2>1, <1>0 DEF Excl, AdderOK
  <2>3. ASSUME NEW x \in f..l
        PROVE  ~(Distance(base[t], x, l - f + 1) < Distance(base[t], base[t], l - f + 1))
    BY <2>1, <1>0, DistanceIs
  <2> QED
    BY <2>2, <2>3, <1>0 DEF sessionVars
<1> QED
  BY <1>0, <1>1, <1>2, <1>3, <1>4, <1>5, NoPromoter, SimpleStep

\* A call is logged.
LEMMA AddCallExcl ==
  ASSUME Inv, Excl, NEW t \in Regions, AddCall(t)
  PROVE  Excl'
<1> USE NoneAssumption
<1>a. PICK i \in 1..Len(block[t]), k \in CallKinds : AddCallTo(t, block[t][i], k)
  BY DEF AddCall
<1>s. PICK s : s = block[t][i]
  OBVIOUS
<1>0. /\ pc[t] = "body" /\ s \in 1..allocated /\ block[t] # << >>
      /\ pc'[t] \in {"sync", "body", "increment", "mLock"}
      /\ pc'[t] = "increment" => ~isSubmitted[s] /\ Singleton(s)
      /\ pc'[t] = "mLock" => ~isSubmitted[s] /\ ~Singleton(s)
      /\ pc'[t] # "body" => base'[t] = s
      /\ UNCHANGED <<allocated, freed, caller, callee, nextSibling, isOpen,
                     isSubmitted, isRunning, applied, queue, regionLock, multiLock,
                     count, cur, call, block, sib, locks, step, ready, scan, crashed>>
      /\ \A u \in Regions \ {t} : pc'[u] = pc[u] /\ base'[u] = base[u]
  <2>1. block[t] \in Seq(1..allocated)
    BY DEF Inv, TypeOK, ThreadTypes
  <2>2. s \in 1..allocated /\ block[t] # << >>
    <3>1. \A j \in 1..Len(block[t]) : block[t][j] \in 1..allocated
      BY <2>1, SeqElements
    <3>2. block[t] # << >>
      BY <2>1
    <3> QED
      BY <3>1, <3>2, <1>s
  <2>3. AddCallTo(t, s, k)
    BY <1>a, <1>s
  <2>4. pc \in [Regions -> PCs] /\ base \in [Regions -> (1..allocated) \union {None}]
    BY DEF Inv, TypeOK, ThreadTypes
  <2> QED
    BY <2>2, <2>3, <2>4 DEF AddCall, AddCallTo
<1>1. UNCHANGED coreVars
  BY <1>0 DEF coreVars
<1>2. Others(t) /\ OthersLocks(t)
  BY <1>0 DEF Others, OthersLocks
<1>3. LocksOK(t)'
  <2>1. LocksOK(t)
    BY DEF Excl
  <2> QED
    BY <2>1, <1>0 DEF LocksOK, MultiPCs, OwnPCs, ClientPCs
<1>4. BlockOK(t)'
  BY <1>0, <1>1, <1>s, BlockStays DEF coreVars, SubmitPCs, ClientPCs
<1>5. AdderOK(t)'
  <2>1. pc'[t] \in {"increment", "append"} => Singleton(base[t])' /\ ~isSubmitted'[base'[t]]
    BY <1>0 DEF Singleton
  <2>2. ASSUME NEW f \in 1..allocated', NEW l \in 1..allocated', RingAt(f, l)',
               base'[t] \in f..l, pc'[t] = "mLock", NEW x \in f..l
        PROVE  ~isSubmitted'[x]
    <3>1. RingAt(f, l) /\ f \in 1..allocated /\ l \in 1..allocated /\ s \in f..l
      BY <2>2, <1>0, RingsUnchanged
    <3>2. caller[s] = t
      BY <1>0, <1>s, BlockCaller
    <3>3. ASSUME NEW u \in Regions, pc[u] = "mAppend", base[u] \in f..l PROVE FALSE
      <4>1. caller[base[u]] = u
        BY <3>3, OwnRing
      <4>2. caller[base[u]] = caller[s]
        BY <3>1, <3>3 DEF RingAt
      <4> QED
        BY <4>1, <4>2, <3>2, <3>3, <1>0
    <3>4. isSubmitted[x] => isSubmitted[s]
      BY <3>1, <3>3 DEF Excl, RingOK
    <3> QED
      BY <3>4, <2>2, <1>0
  <2> QED
    BY <2>1, <2>2, <1>0 DEF AdderOK
<1> QED
  BY <1>0, <1>1, <1>2, <1>3, <1>4, <1>5, NoPromoter, SimpleStep

\* A singleton session is counted.
LEMMA CountSessionExcl ==
  ASSUME Inv, Excl, NEW t \in Regions, CountSession(t)
  PROVE  Excl'
<1> USE NoneAssumption
<1>0. /\ pc[t] = "increment" /\ pc'[t] = "append"
      /\ UNCHANGED <<sessionVars, queue, regionLock, multiLock, localVars, crashed>>
      /\ \A u \in Regions \ {t} : pc'[u] = pc[u]
  BY DEF CountSession, Inv, TypeOK, ThreadTypes
<1>1. UNCHANGED coreVars
  BY <1>0 DEF coreVars, sessionVars, localVars
<1>2. Others(t) /\ OthersLocks(t)
  BY <1>0 DEF Others, OthersLocks, localVars
<1>3. LocksOK(t)'
  <2>1. LocksOK(t)
    BY DEF Excl
  <2> QED
    BY <2>1, <1>0 DEF LocksOK, MultiPCs, OwnPCs, ClientPCs, sessionVars, localVars
<1>4. BlockOK(t)'
  <2>1. block[t] # << >>
    BY <1>0 DEF Excl, BlockOK, ClientPCs
  <2> QED
    BY <2>1, <1>0, <1>1, BlockStays DEF coreVars, SubmitPCs, localVars
<1>5. AdderOK(t)'
  BY <1>0 DEF Excl, AdderOK, Singleton, sessionVars, localVars
<1> QED
  BY <1>0, <1>1, <1>2, <1>3, <1>4, <1>5, NoPromoter, SimpleStep

\* The region of a sibling is locked, by the client.
LEMMA LockCalleeExcl ==
  ASSUME Inv, Excl, NEW t \in Regions, LockCallee(t)
  PROVE  Excl'
<1> USE NoneAssumption
<1>s. PICK s, r : s = sib[t] /\ r = callee[s]
  OBVIOUS
<1>0. /\ pc[t] = "mRegion" /\ regionLock[r] = None /\ r \in Regions
      /\ s \in 1..allocated /\ base[t] \in 1..allocated
      /\ pc'[t] = IF nextSibling[s] = base[t] THEN "mAppend" ELSE "mRegion"
      /\ sib'[t] = nextSibling[s]
      /\ regionLock' = [regionLock EXCEPT ![r] = t]
      /\ UNCHANGED <<sessionVars, queue, multiLock, count, cur, call, block,
                     base, locks, step, ready, scan, crashed>>
      /\ \A u \in Regions \ {t} : pc'[u] = pc[u] /\ sib'[u] = sib[u]
  BY <1>s, Pointers DEF LockCallee, SiblingPCs, BasePCs, Inv, TypeOK, ThreadTypes
<1>l. regionLock'[r] = t /\ \A q \in Regions \ {r} : regionLock'[q] = regionLock[q]
  BY <1>0 DEF Inv, TypeOK, SharedTypes
<1>1. UNCHANGED coreVars
  BY <1>0 DEF coreVars, sessionVars
<1>2. Others(t) /\ OthersLocks(t)
  BY <1>0, <1>l DEF Others, OthersLocks
<1>3. LocksOK(t)'
  <2>1. LocksOK(t)
    BY DEF Excl
  <2> QED
    BY <2>1, <1>0, <1>l DEF LocksOK, MultiPCs, OwnPCs, ClientPCs, sessionVars
<1>4. BlockOK(t)'
  <2>1. block[t] # << >>
    BY <1>0 DEF Excl, BlockOK, ClientPCs
  <2> QED
    BY <2>1, <1>0, <1>1, BlockStays DEF coreVars, SubmitPCs
<1>5. AdderOK(t)'
  <2> SUFFICES ASSUME NEW f \in 1..allocated', NEW l \in 1..allocated', RingAt(f, l)',
                      base'[t] \in f..l
               PROVE  /\ pc'[t] = "mRegion" => \A x \in f..l : ~isSubmitted'[x]
                      /\ sib'[t] \in f..l
                      /\ pc'[t] = "mRegion" => \A x \in f..l :
                           Distance(base'[t], x, l - f + 1) < Distance(base'[t], sib'[t], l - f + 1) =>
                             regionLock'[callee'[x]] = t
                      /\ pc'[t] = "mAppend" => \A x \in f..l :
                           IF Distance(base'[t], x, l - f + 1) < Distance(base'[t], sib'[t], l - f + 1)
                           THEN isSubmitted'[x]
                           ELSE ~isSubmitted'[x] /\ regionLock'[callee'[x]] = t
    BY <1>0 DEF AdderOK
  <2>1. /\ RingAt(f, l) /\ f \in 1..allocated /\ l \in 1..allocated /\ base[t] \in f..l
        /\ f \in Nat /\ l \in Nat /\ allocated \in Nat
    BY <1>0, RingsUnchanged DEF sessionVars, Inv, TypeOK, SessionTypes
  <2>2. /\ \A x \in f..l : ~isSubmitted[x]
        /\ s \in f..l
        /\ \A x \in f..l : Distance(base[t], x, l - f + 1) < Distance(base[t], s, l - f + 1) =>
             regionLock[callee[x]] = t
    BY <2>1, <1>0, <1>s DEF Excl, AdderOK
  <2>3. /\ nextSibling[s] \in f..l
        /\ nextSibling[s] = base[t] => Distance(base[t], s, l - f + 1) = l - f
        /\ nextSibling[s] # base[t] => Distance(base[t], nextSibling[s], l - f + 1)
                                         = Distance(base[t], s, l - f + 1) + 1
    BY <2>1, <2>2, NextIs
  <2>4. ASSUME NEW x \in f..l
        PROVE  /\ Distance(base[t], x, l - f + 1) \in 0..(l - f)
               /\ Distance(base[t], s, l - f + 1) \in 0..(l - f)
               /\ Distance(base[t], base[t], l - f + 1) = 0
               /\ Distance(base[t], x, l - f + 1) = Distance(base[t], s, l - f + 1) => x = s
    BY <2>1, <2>2, DistanceIs
  <2>5. ASSUME NEW x \in f..l,
               Distance(base[t], x, l - f + 1) <= Distance(base[t], s, l - f + 1)
        PROVE  regionLock'[callee[x]] = t
    <3>1. callee[x] \in Regions
      <4>1. x \in 1..allocated
        BY <2>1
      <4> QED
        BY <4>1, Pointers
    <3>2. CASE x = s
      BY <3>2, <1>l, <1>s
    <3>3. CASE x # s
      <4>1. Distance(base[t], x, l - f + 1) < Distance(base[t], s, l - f + 1)
        BY <2>4, <2>5, <3>3
      <4>2. regionLock[callee[x]] = t
        BY <4>1, <2>2
      <4> QED
        BY <4>2, <3>1, <1>l
    <3> QED
      BY <3>2, <3>3
  <2>6. CASE nextSibling[s] = base[t]
    <3>1. pc'[t] = "mAppend" /\ sib'[t] = base[t]
      BY <2>6, <1>0
    <3>2. ASSUME NEW x \in f..l
          PROVE  /\ ~(Distance(base[t], x, l - f + 1) < Distance(base[t], base[t], l - f + 1))
                 /\ regionLock'[callee[x]] = t
      BY <2>4, <2>5, <2>6, <2>3
    <3> QED
      BY <3>1, <3>2, <2>1, <2>2, <1>0 DEF sessionVars
  <2>7. CASE nextSibling[s] # base[t]
    <3>1. pc'[t] = "mRegion" /\ sib'[t] = nextSibling[s]
      BY <2>7, <1>0
    <3>2. ASSUME NEW x \in f..l, Distance(base[t], x, l - f + 1)
                                   < Distance(base[t], nextSibling[s], l - f + 1)
          PROVE  regionLock'[callee[x]] = t
      <4>1. Distance(base[t], x, l - f + 1) <= Distance(base[t], s, l - f + 1)
        BY <3>2, <2>3, <2>4, <2>7
      <4> QED
        BY <4>1, <2>5
    <3> QED
      BY <3>1, <3>2, <2>2, <2>3, <1>0 DEF sessionVars
  <2> QED
    BY <2>6, <2>7
<1> QED
  BY <1>0, <1>1, <1>2, <1>3, <1>4, <1>5, NoPromoter, SimpleStep

\* No session of the ring of a promotion that has not marked anything is running.
LEMMA RingIsIdle ==
  ASSUME Inv, Excl, NEW t \in Regions, pc[t] = "prSibling",
         NEW f \in 1..allocated, NEW l \in 1..allocated, RingAt(f, l), base[t] \in f..l,
         NEW x \in f..l
  PROVE  ~isRunning[x]
<1>1. ~isRunning[base[t]]
  BY DEF Excl, PromoterOK, Searching
<1>2. multiLock = t
  BY DEF Excl, LocksOK, MultiPCs
<1>3. ASSUME NEW u \in Regions, pc[u] = "prMark" PROVE FALSE
  <2>1. multiLock = u
    BY <1>3 DEF Excl, LocksOK, MultiPCs
  <2> QED
    BY <2>1, <1>2, <1>3
<1>4. isRunning[x] => isRunning[base[t]]
  BY <1>3 DEF Excl, RingOK
<1> QED
  BY <1>1, <1>4

\* The region of a sibling is locked, by the promotion.
LEMMA PromoteSiblingExcl ==
  ASSUME Inv, Excl, NEW t \in Regions, PromoteSibling(t)
  PROVE  Excl'
<1> USE NoneAssumption
<1>s. PICK s, r : s = sib[t] /\ r = callee[s]
  OBVIOUS
<1>0. /\ pc[t] = "prSibling" /\ regionLock[r] = None /\ r \in Regions
      /\ s \in 1..allocated /\ base[t] \in 1..allocated
      /\ pc'[t] = IF Busy(r, s) \/ nextSibling[s] = base[t] THEN "prMark" ELSE "prSibling"
      /\ ready'[t] = ~Busy(r, s)
      /\ sib'[t] = IF Busy(r, s) \/ nextSibling[s] = base[t] THEN base[t] ELSE nextSibling[s]
      /\ locks'[t] = locks[t] + 1 /\ step'[t] = 0
      /\ regionLock' = [regionLock EXCEPT ![r] = t]
      /\ UNCHANGED <<sessionVars, queue, multiLock, count, cur, call, block,
                     base, scan, crashed>>
      /\ \A u \in Regions \ {t} : /\ pc'[u] = pc[u] /\ sib'[u] = sib[u] /\ ready'[u] = ready[u]
                                  /\ locks'[u] = locks[u] /\ step'[u] = step[u]
  <2>1. r \in Regions /\ s \in 1..allocated /\ base[t] \in 1..allocated
    BY <1>s, Pointers DEF PromoteSibling, SiblingPCs, BasePCs
  <2> QED
    BY <2>1, <1>s DEF PromoteSibling, Inv, TypeOK, ThreadTypes
<1>l. regionLock'[r] = t /\ \A q \in Regions \ {r} : regionLock'[q] = regionLock[q]
  BY <1>0 DEF Inv, TypeOK, SharedTypes
<1>1. UNCHANGED coreVars
  BY <1>0 DEF coreVars, sessionVars
<1>2. Others(t) /\ OthersLocks(t)
  BY <1>0, <1>l DEF Others, OthersLocks
<1>3. LocksOK(t)'
  <2>1. LocksOK(t)
    BY DEF Excl
  <2> QED
    BY <2>1, <1>0, <1>l DEF LocksOK, MultiPCs, OwnPCs, ClientPCs, sessionVars
<1>4. BlockOK(t)'
  BY <1>0, <1>1, BlockStays DEF coreVars, SubmitPCs, ClientPCs
<1>5. PromoterOK(t)'
  <2>o. PromoterOK(t)
    BY DEF Excl
  <2>1. /\ \A i \in 1..Len(queue'[t]) : i < scan'[t] => ~isRunning'[queue'[t][i]]
        /\ scan'[t] \in 1..Len(queue'[t]) /\ base'[t] = queue'[t][scan'[t]]
        /\ ~isRunning'[base'[t]]
        /\ callee'[base'[t]] = t /\ isSubmitted'[base'[t]] /\ ~Singleton(base[t])'
    BY <2>o, <1>0 DEF PromoterOK, Searching, Singleton, sessionVars
  <2>2. ASSUME NEW f \in 1..allocated', NEW l \in 1..allocated', RingAt(f, l)',
               base'[t] \in f..l
        PROVE
       /\ pc'[t] = "prSibling" =>
            /\ sib'[t] \in f..l /\ sib'[t] # base'[t]
            /\ locks'[t] = Distance(base'[t], sib'[t], l - f + 1)
            /\ \A x \in f..l : Distance(base'[t], x, l - f + 1) < locks'[t] =>
                 regionLock'[callee'[x]] = t /\ FirstIdle(callee[x])'
       /\ pc'[t] = "prMark" =>
            /\ locks'[t] \in 2..(l - f + 1) /\ step'[t] = 0
            /\ \A x \in f..l : Distance(base'[t], x, l - f + 1) \in step'[t]..(locks'[t] - 1) =>
                 regionLock'[callee'[x]] = t
            /\ ready'[t] =>
                 /\ locks'[t] = l - f + 1
                 /\ \A x \in f..l : /\ ~(Distance(base'[t], x, l - f + 1) < step'[t])
                                    /\ ~isRunning'[x] /\ FirstIdle(callee[x])'
    <3>1. /\ RingAt(f, l) /\ f \in 1..allocated /\ l \in 1..allocated /\ base[t] \in f..l
          /\ f \in Nat /\ l \in Nat /\ allocated \in Nat
      BY <2>2, <1>0, RingsUnchanged DEF sessionVars, Inv, TypeOK, SessionTypes
    <3>2. /\ s \in f..l /\ s # base[t]
          /\ locks[t] = Distance(base[t], s, l - f + 1)
          /\ \A x \in f..l : Distance(base[t], x, l - f + 1) < locks[t] =>
               regionLock[callee[x]] = t /\ FirstIdle(callee[x])
      BY <3>1, <2>o, <1>0, <1>s DEF PromoterOK
    <3>3. /\ nextSibling[s] \in f..l
          /\ nextSibling[s] = base[t] => Distance(base[t], s, l - f + 1) = l - f
          /\ nextSibling[s] # base[t] => Distance(base[t], nextSibling[s], l - f + 1)
                                           = Distance(base[t], s, l - f + 1) + 1
      BY <3>1, <3>2, NextIs
    <3>4. ASSUME NEW x \in f..l
          PROVE  /\ Distance(base[t], x, l - f + 1) \in 0..(l - f)
                 /\ Distance(base[t], base[t], l - f + 1) = 0
                 /\ Distance(base[t], x, l - f + 1) = Distance(base[t], s, l - f + 1) => x = s
      BY <3>1, <3>2, DistanceIs
    <3>5. locks[t] \in 1..(l - f)
      <4>1. Distance(base[t], s, l - f + 1) \in 0..(l - f)
        BY <3>2, <3>4
      <4>2. Distance(base[t], s, l - f + 1) # 0
        BY <3>1, <3>2, <3>4
      <4> QED
        BY <4>1, <4>2, <3>1, <3>2
    <3>6. ~Busy(r, s) => FirstIdle(r)
      <4>1. queue[r] \in Seq(1..allocated)
        BY <1>0, Pointers
      <4>2. queue[r] # << >> => Head(queue[r]) = queue[r][1]
        BY <4>1
      <4>3. ~isRunning[s]
        BY <3>1, <3>2, <1>0, RingIsIdle
      <4> QED
        BY <4>2, <4>3 DEF Busy, FirstIdle
    <3>7. ASSUME NEW x \in f..l, Distance(base[t], x, l - f + 1) < locks[t] + 1
          PROVE  regionLock'[callee[x]] = t /\ (~Busy(r, s) => FirstIdle(callee[x]))
      <4>1. callee[x] \in Regions
        <5>1. x \in 1..allocated
          BY <3>1
        <5> QED
          BY <5>1, Pointers
      <4>2. CASE x = s
        BY <4>2, <3>6, <1>l, <1>s
      <4>3. CASE x # s
        <5>1. Distance(base[t], x, l - f + 1) < locks[t]
          BY <4>3, <3>2, <3>4, <3>5, <3>7
        <5>2. regionLock[callee[x]] = t /\ FirstIdle(callee[x])
          BY <5>1, <3>2
        <5> QED
          BY <5>2, <4>1, <1>l
      <4> QED
        BY <4>2, <4>3
    <3>i. \A x \in f..l : FirstIdle(callee[x])' <=> FirstIdle(callee[x])
      BY <1>0 DEF FirstIdle, sessionVars
    <3>8. CASE pc'[t] = "prSibling"
      <4>1. /\ ~Busy(r, s) /\ nextSibling[s] # base[t] /\ sib'[t] = nextSibling[s]
        BY <3>8, <1>0
      <4>2. locks'[t] = Distance(base[t], nextSibling[s], l - f + 1)
        BY <4>1, <3>2, <3>3, <1>0
      <4>3. ASSUME NEW x \in f..l, Distance(base[t], x, l - f + 1) < locks'[t]
            PROVE  regionLock'[callee[x]] = t /\ FirstIdle(callee[x])'
        BY <4>1, <4>3, <3>7, <3>i, <1>0
      <4> QED
        BY <4>1, <4>2, <4>3, <3>3, <3>8, <1>0 DEF sessionVars
    <3>9. CASE pc'[t] = "prMark"
      <4>1. locks'[t] \in 2..(l - f + 1) /\ step'[t] = 0
        BY <3>5, <3>1, <1>0
      <4>2. ASSUME NEW x \in f..l,
                   Distance(base[t], x, l - f + 1) \in step'[t]..(locks'[t] - 1)
            PROVE  regionLock'[callee[x]] = t
        <5>1. Distance(base[t], x, l - f + 1) < locks[t] + 1
          BY <4>2, <4>1, <3>5, <1>0
        <5> QED
          BY <5>1, <3>7
      <4>3. ready'[t] => locks'[t] = l - f + 1
        <5>1. ready'[t] => nextSibling[s] = base[t]
          BY <3>9, <1>0
        <5> QED
          BY <5>1, <3>1, <3>2, <3>3, <1>0
      <4>4. ASSUME NEW x \in f..l, ready'[t]
            PROVE  /\ ~(Distance(base[t], x, l - f + 1) < step'[t])
                   /\ ~isRunning[x] /\ FirstIdle(callee[x])'
        <5>1. Distance(base[t], x, l - f + 1) < locks[t] + 1
          BY <4>3, <4>4, <3>4, <3>1, <1>0
        <5>2. FirstIdle(callee[x])'
          BY <5>1, <4>4, <3>7, <3>i, <1>0
        <5>3. ~isRunning[x]
          BY <3>1, <1>0, RingIsIdle
        <5>4. ~(Distance(base[t], x, l - f + 1) < step'[t])
          BY <4>1, <3>4
        <5> QED
          BY <5>2, <5>3, <5>4
      <4> QED
        BY <4>1, <4>2, <4>3, <4>4, <3>9, <1>0 DEF sessionVars
    <3> QED
      BY <3>8, <3>9
  <2>3. ~(step'[t] > 0) /\ step'[t] <= locks'[t]
    BY <1>0 DEF Inv, TypeOK, ThreadTypes
  <2> QED
    BY <2>1, <2>2, <2>3 DEF PromoterOK
<1> QED
  BY <1>0, <1>1, <1>2, <1>3, <1>4, <1>5, NoAdder, SimpleStep

-----------------------------------------------------------------------------
(* Steps that change sessions or queues. *)

\* What a step of t must not do for the other processors to keep their claims:
\* touch the regions they have locked or the sessions their features have open.
LEMMA OthersKept ==
  ASSUME Inv, Excl, NEW t \in Regions, RingsKept, Others(t), OthersLocks(t),
         \A r \in Regions : regionLock[r] \in Regions \ {t} => queue'[r] = queue[r],
         \A s \in 1..allocated :
            /\ isRunning[s] => isRunning'[s]
            /\ regionLock[callee[s]] \in Regions \ {t} => (isRunning'[s] <=> isRunning[s])
            /\ isSubmitted[s] => isSubmitted'[s]
            /\ caller[s] # t => (isSubmitted'[s] <=> isSubmitted[s])
            /\ caller[s] # t => (isOpen'[s] <=> isOpen[s])
            /\ isOpen'[s] => isOpen[s]
  PROVE  \A u \in Regions \ {t} : LocksOK(u)' /\ BlockOK(u)' /\ AdderOK(u)' /\ PromoterOK(u)'
<1> SUFFICES ASSUME NEW u \in Regions, u # t
             PROVE  LocksOK(u)' /\ BlockOK(u)' /\ AdderOK(u)' /\ PromoterOK(u)'
  OBVIOUS
<1>1. /\ block'[u] = block[u] /\ base'[u] = base[u] /\ sib'[u] = sib[u]
      /\ locks'[u] = locks[u] /\ step'[u] = step[u] /\ ready'[u] = ready[u]
      /\ scan'[u] = scan[u] /\ cur'[u] = cur[u]
      /\ pc'[u] = pc[u] \/ (pc[u] = "waiting" /\ pc'[u] = "iterate")
  BY DEF Others
<1>2. /\ multiLock' = u <=> multiLock = u
      /\ \A r \in Regions : regionLock[r] = u => regionLock'[r] = u /\ queue'[r] = queue[r]
  BY DEF OthersLocks
<1>3. \A s \in 1..allocated :
            /\ isRunning[s] => isRunning'[s]
            /\ regionLock[callee[s]] = u => (isRunning'[s] <=> isRunning[s])
            /\ isSubmitted[s] => isSubmitted'[s]
            /\ caller[s] = u => (isSubmitted'[s] <=> isSubmitted[s])
            /\ caller[s] = u => (isOpen'[s] <=> isOpen[s])
            /\ isOpen'[s] => isOpen[s]
  OBVIOUS
<1> QED
  BY <1>1, <1>2, <1>3, ThreadKept

\* What is said of the sessions of a ring is kept by a step that leaves the
\* sessions of the ring alone and is not about submitting or marking them.
LEMMA RingStays ==
  ASSUME NEW t \in Regions, NEW f, NEW l, RingOK(f, l), Others(t),
         \A x \in f..l : /\ isSubmitted'[x] <=> isSubmitted[x]
                         /\ isRunning'[x] <=> isRunning[x],
         pc[t] \in {"mAppend", "prMark"} => base[t] \notin f..l
  PROVE  RingOK(f, l)'
<1>1. ASSUME NEW u \in Regions, pc[u] \in {"mAppend", "prMark"}, base[u] \in f..l
      PROVE  pc'[u] = pc[u] /\ base'[u] = base[u] /\ ready'[u] = ready[u]
  <2>1. u # t
    BY <1>1
  <2> QED
    BY <2>1, <1>1 DEF Others
<1> QED
  BY <1>1 DEF RingOK

\* The processor takes the first session of its region.
LEMMA TakeExcl ==
  ASSUME Inv, Excl, NEW t \in Regions, NEW s, Take(t, s),
         pc[t] \in {"iterate", "recheck"}, regionLock[t] = None,
         queue[t] # << >>, s = Head(queue[t]), ~Blocked(s),
         UNCHANGED <<allocated, freed, caller, callee, nextSibling, isOpen, isSubmitted,
                     queue, regionLock, multiLock, block, base, sib, locks, step, ready,
                     scan>>
  PROVE  Excl'
<1> USE NoneAssumption
<1>q. /\ queue[t] \in Seq(1..allocated) /\ s = queue[t][1] /\ 1 \in 1..Len(queue[t])
      /\ s \in 1..allocated
  <2>1. queue[t] \in Seq(1..allocated)
    BY Pointers
  <2>2. s = queue[t][1] /\ 1 \in 1..Len(queue[t])
    BY <2>1
  <2> QED
    BY <2>1, <2>2, SeqElements
<1>s. callee[s] = t /\ isSubmitted[s] /\ s \notin freed
  BY <1>q DEF Excl, QueueOK
<1>n. isRunning'[s] /\ \A x \in Sessions : x # s => isRunning'[x] = isRunning[x]
  BY <1>q, Pointers DEF Take, Inv, TypeOK, SessionTypes
<1>0. /\ pc'[t] = "exec" /\ cur'[t] = s
      /\ \A u \in Regions \ {t} : pc'[u] = pc[u] /\ cur'[u] = cur[u]
  BY DEF Take, Inv, TypeOK, ThreadTypes
<1>z. 1..allocated \subseteq Sessions
  BY Pointers
<1>r. RingsKept /\ \A f, l : RingAt(f, l)' <=> RingAt(f, l)
  BY RingsUnchanged
<1>1. RingsOK'
  BY <1>r DEF Excl, RingsOK
<1>2. FreshOK'
  <2>1. ~(s > allocated)
    BY <1>q DEF Inv, TypeOK, SessionTypes
  <2> QED
    BY <2>1, <1>n DEF Excl, FreshOK
<1>o. Others(t) /\ OthersLocks(t)
  BY <1>0 DEF Others, OthersLocks
<1>3. ASSUME NEW f \in 1..allocated', NEW l \in 1..allocated', RingAt(f, l)'
      PROVE  RingOK(f, l)'
  <2>1. RingOK(f, l) /\ RingAt(f, l)
    BY <1>3, <1>r DEF Excl
  <2>2. CASE isRunning[s] \/ s \notin f..l
    <3>1. \A x \in f..l : isRunning'[x] <=> isRunning[x]
      <4>1. \A x \in f..l : x \in 1..allocated
        BY <2>1 DEF RingAt, Inv, TypeOK, SessionTypes
      <4> QED
        BY <4>1, <2>2, <1>n, <1>z
    <3> QED
      BY <3>1, <2>1, <1>o, RingStays
  <2>3. CASE ~isRunning[s] /\ s \in f..l
    <3>1. nextSibling[s] = s
      BY <2>3 DEF Blocked, Singleton
    <3>2. f = l
      BY <3>1, <2>1, <2>3, NextIs DEF Inv, TypeOK, SessionTypes
    <3>3. \A x, y \in f..l : x = y
      BY <3>2
    <3> QED
      BY <3>3 DEF RingOK
  <2> QED
    BY <2>2, <2>3
<1>4. ASSUME NEW r \in Regions PROVE QueueOK(r)'
  <2>1. QueueOK(r) /\ queue[r] \in Seq(1..allocated)
    BY Pointers DEF Excl
  <2>2. ASSUME NEW i \in 1..Len(queue[r]), i > 1 PROVE ~isRunning'[queue[r][i]]
    <3>1. ~isRunning[queue[r][i]] /\ callee[queue[r][i]] = r /\ queue[r][i] \in 1..allocated
      BY <2>1, <2>2, SeqElements DEF QueueOK
    <3>2. queue[r][i] # s
      <4>1. QueueOK(t)
        BY DEF Excl
      <4> QED
        BY <4>1, <3>1, <2>2, <1>s, <1>q DEF QueueOK, Distinct
    <3> QED
      BY <3>1, <3>2, <1>n, <1>z
  <2>3. cur'[r] # None => cur'[r] = queue[r][1] /\ isRunning'[cur'[r]]
    <3>1. CASE r = t
      BY <3>1, <1>0, <1>n, <1>q
    <3>2. CASE r # t
      <4>1. cur[r] # None => cur[r] \in 1..allocated
        BY Pointers
      <4> QED
        BY <4>1, <3>2, <2>1, <1>0, <1>n, <1>z DEF QueueOK
    <3> QED
      BY <3>1, <3>2
  <2> QED
    BY <2>1, <2>2, <2>3 DEF QueueOK
<1>5. ASSUME NEW x \in 1..allocated' PROVE SessionOK(x)'
  <2>1. SessionOK(x) /\ x \in Sessions
    BY <1>z DEF Excl
  <2> QED
    BY <2>1, <1>s, <1>n DEF SessionOK
<1>6. LocksOK(t)'
  <2>1. LocksOK(t)
    BY DEF Excl
  <2> QED
    BY <2>1, <1>0 DEF LocksOK, MultiPCs, OwnPCs
<1>7. BlockOK(t)'
  BY <1>0, BlockStays DEF ClientPCs, SubmitPCs
<1>8. \A u \in Regions \ {t} : LocksOK(u)' /\ BlockOK(u)' /\ AdderOK(u)' /\ PromoterOK(u)'
  <2>1. ASSUME NEW x \in 1..allocated
        PROVE  /\ isRunning[x] => isRunning'[x]
               /\ regionLock[callee[x]] \in Regions \ {t} => (isRunning'[x] <=> isRunning[x])
    BY <1>n, <1>s, <1>z
  <2> QED
    BY <2>1, <1>r, <1>o, OthersKept
<1> QED
  BY <1>0, <1>1, <1>2, <1>3, <1>4, <1>5, <1>6, <1>7, <1>8, NoAdder, NoPromoter DEF Excl

\* The processor looks at its first session.
LEMMA IterateExcl ==
  ASSUME Inv, Excl, NEW t \in Regions, Iterate(t)
  PROVE  Excl'
<1> USE NoneAssumption
<1>0. /\ pc[t] = "iterate" /\ regionLock[t] = None
      /\ UNCHANGED <<allocated, freed, caller, callee, nextSibling, isOpen,
                     isSubmitted, queue, multiLock, block, base, sib, locks, step, ready,
                     scan>>
  BY DEF Iterate
<1>1. CASE /\ pc' = [pc EXCEPT ![t] = "idle"] /\ UNCHANGED <<isRunning, cur>>
           /\ regionLock' = [regionLock EXCEPT ![t] = t]
  <2>1. /\ pc'[t] = "idle" /\ regionLock'[t] = t
        /\ \A u \in Regions \ {t} : pc'[u] = pc[u] /\ regionLock'[u] = regionLock[u]
    BY <1>1 DEF Inv, TypeOK, ThreadTypes, SharedTypes
  <2>2. UNCHANGED coreVars /\ Others(t) /\ OthersLocks(t)
    BY <2>1, <1>0, <1>1 DEF coreVars, Others, OthersLocks
  <2>3. LocksOK(t)'
    <3>1. LocksOK(t)
      BY DEF Excl
    <3> QED
      BY <3>1, <2>1, <1>0, <1>1 DEF LocksOK, MultiPCs, OwnPCs, ClientPCs
  <2> QED
    BY <2>1, <2>2, <2>3, <1>0, PlainStep
<1>2. CASE pc' = [pc EXCEPT ![t] = "promote"] /\ UNCHANGED <<isRunning, cur, regionLock>>
  <2>1. pc'[t] = "promote" /\ \A u \in Regions \ {t} : pc'[u] = pc[u]
    BY <1>2 DEF Inv, TypeOK, ThreadTypes
  <2>2. UNCHANGED coreVars /\ Others(t) /\ OthersLocks(t)
    BY <2>1, <1>0, <1>2 DEF coreVars, Others, OthersLocks
  <2>3. LocksOK(t)'
    <3>1. LocksOK(t)
      BY DEF Excl
    <3> QED
      BY <3>1, <2>1, <1>0, <1>2 DEF LocksOK, MultiPCs, OwnPCs, ClientPCs
  <2> QED
    BY <2>1, <2>2, <2>3, <1>0, PlainStep
<1>3. CASE /\ queue[t] # << >> /\ ~Promotable(queue[t])
           /\ Take(t, Head(queue[t])) /\ UNCHANGED regionLock
  <2>1. ~Blocked(Head(queue[t]))
    BY <1>3 DEF Promotable
  <2> QED
    BY <2>1, <1>0, <1>3, TakeExcl
<1> QED
  BY <1>1, <1>2, <1>3 DEF Iterate

\* ... and again after the promotion.
LEMMA RecheckExcl ==
  ASSUME Inv, Excl, NEW t \in Regions, Recheck(t)
  PROVE  Excl'
<1> USE NoneAssumption
<1>0. /\ pc[t] = "recheck" /\ regionLock[t] = None
      /\ UNCHANGED <<allocated, freed, caller, callee, nextSibling, isOpen,
                     isSubmitted, queue, multiLock, block, base, sib, locks, step, ready,
                     scan>>
  BY DEF Recheck
<1>1. CASE /\ pc' = [pc EXCEPT ![t] = "idle"] /\ UNCHANGED <<isRunning, cur>>
           /\ regionLock' = [regionLock EXCEPT ![t] = t]
  <2>1. /\ pc'[t] = "idle" /\ regionLock'[t] = t
        /\ \A u \in Regions \ {t} : pc'[u] = pc[u] /\ regionLock'[u] = regionLock[u]
    BY <1>1 DEF Inv, TypeOK, ThreadTypes, SharedTypes
  <2>2. UNCHANGED coreVars /\ Others(t) /\ OthersLocks(t)
    BY <2>1, <1>0, <1>1 DEF coreVars, Others, OthersLocks
  <2>3. LocksOK(t)'
    <3>1. LocksOK(t)
      BY DEF Excl
    <3> QED
      BY <3>1, <2>1, <1>0, <1>1 DEF LocksOK, MultiPCs, OwnPCs, ClientPCs
  <2> QED
    BY <2>1, <2>2, <2>3, <1>0, PlainStep
<1>2. CASE ~Blocked(Head(queue[t])) /\ Take(t, Head(queue[t])) /\ UNCHANGED regionLock
  <2>1. queue[t] # << >>
    BY <1>0 DEF Inv, LocalsSet, PromotePCs
  <2> QED
    BY <2>1, <1>0, <1>2, TakeExcl
<1> QED
  BY <1>1, <1>2 DEF Recheck

\* The processor unlinks and frees the session it has executed.
LEMMA RemoveSessionExcl ==
  ASSUME Inv, Excl, NEW t \in Regions, RemoveSession(t)
  PROVE  Excl'
<1> USE NoneAssumption
<1>c. /\ pc[t] = "remove" /\ regionLock[t] = None /\ cur[t] # None /\ ~isOpen[cur[t]]
      /\ queue[t] # << >> /\ cur[t] = queue[t][1] /\ isRunning[cur[t]]
  BY DEF RemoveSession, Inv, LocalsSet, Excl, LocksOK, QueueOK
<1>s. PICK s : s = cur[t]
  OBVIOUS
<1>q. /\ queue[t] \in Seq(1..allocated) /\ Distinct(queue[t]) /\ s \in 1..allocated
      /\ s \in Sessions
  BY <1>c, <1>s, Pointers DEF Excl, QueueOK
<1>w. PICK w : w = Without(queue[t], s)
  OBVIOUS
<1>0. /\ pc'[t] = "decrement" /\ cur'[t] = None /\ queue'[t] = w /\ freed' = freed \union {s}
      /\ \A u \in Regions \ {t} : pc'[u] = pc[u] /\ cur'[u] = cur[u] /\ queue'[u] = queue[u]
      /\ UNCHANGED <<allocated, caller, callee, nextSibling, isOpen,
                     isSubmitted, isRunning, calls, mustWait, logged, applied,
                     regionLock, multiLock, count, call, block, base, sib,
                     locks, step, ready, scan, crashed>>
  BY <1>s, <1>w DEF RemoveSession, Inv, TypeOK, ThreadTypes, SharedTypes
<1>v. /\ w \in Seq(1..allocated) /\ Len(w) = Len(queue[t]) - 1 /\ Distinct(w)
      /\ \A i \in 1..Len(w) : w[i] = queue[t][i+1]
  <2> DEFINE S == 1..allocated
  <2>1. queue[t] \in Seq(S)
    BY <1>q
  <2> HIDE DEF S
  <2>2. /\ w \in Seq(S) /\ Len(w) = Len(queue[t]) - 1 /\ Distinct(w)
        /\ \A i \in 1..Len(w) : w[i] = queue[t][i+1]
    BY <2>1, <1>q, <1>c, <1>s, <1>w, WithoutFirstIs
  <2> QED
    BY <2>2 DEF S
<1>r. RingsKept /\ \A f, l : RingAt(f, l)' <=> RingAt(f, l)
  BY <1>0, RingsUnchanged
<1>o. Others(t) /\ OthersLocks(t)
  BY <1>0 DEF Others, OthersLocks
<1>1. RingsOK'
  BY <1>0, <1>r DEF Excl, RingsOK
<1>2. FreshOK'
  <2>1. ~(s > allocated)
    BY <1>q DEF Inv, TypeOK, SessionTypes
  <2> QED
    BY <2>1, <1>0 DEF Excl, FreshOK
<1>3. ASSUME NEW f \in 1..allocated', NEW l \in 1..allocated', RingAt(f, l)'
      PROVE  RingOK(f, l)'
  <2>1. RingOK(f, l)
    BY <1>0, <1>3, <1>r DEF Excl
  <2> QED
    BY <2>1, <1>0, <1>c, <1>o, RingStays
<1>4. ASSUME NEW r \in Regions PROVE QueueOK(r)'
  <2>1. QueueOK(r) /\ queue[r] \in Seq(1..allocated)
    BY Pointers DEF Excl
  <2>2. CASE r = t
    <3>1. ASSUME NEW i \in 1..Len(w)
          PROVE  /\ callee[w[i]] = t /\ isSubmitted[w[i]] /\ w[i] \notin freed'
                 /\ ~isRunning[w[i]]
      <4>1. i + 1 \in 1..Len(queue[t]) /\ i + 1 > 1 /\ 1 \in 1..Len(queue[t])
        BY <1>v, <1>q
      <4>2. w[i] # s
        <5>1. w[i] = queue[t][i+1]
          BY <1>v
        <5>2. i + 1 # 1
          BY <4>1
        <5>3. queue[t][i+1] # queue[t][1]
          BY <5>2, <4>1, <1>q DEF Distinct
        <5> QED
          BY <5>1, <5>3, <1>c, <1>s
      <4> QED
        BY <4>1, <4>2, <2>1, <2>2, <1>v, <1>0 DEF QueueOK
    <3> QED
      BY <3>1, <2>2, <1>0, <1>v DEF QueueOK
  <2>3. CASE r # t
    <3>1. \A i \in 1..Len(queue[r]) : queue[r][i] # s
      <4>1. callee[s] = t
        <5>1. 1 \in 1..Len(queue[t])
          BY <1>q, <1>c
        <5> QED
          BY <5>1, <1>c, <1>s DEF Excl, QueueOK
      <4> QED
        BY <4>1, <2>1, <2>3 DEF QueueOK
    <3> QED
      BY <3>1, <2>1, <2>3, <1>0 DEF QueueOK
  <2> QED
    BY <2>2, <2>3
<1>5. ASSUME NEW x \in 1..allocated' PROVE SessionOK(x)'
  <2>1. SessionOK(x) /\ x \in 1..allocated
    BY <1>0 DEF Excl
  <2>2. ASSUME isSubmitted[x], x \notin freed, x # s
        PROVE  \E i \in 1..Len(queue'[callee[x]]) : queue'[callee[x]][i] = x
    <3>1. PICK i \in 1..Len(queue[callee[x]]) : queue[callee[x]][i] = x
      BY <2>1, <2>2 DEF SessionOK
    <3>2. callee[x] \in Regions
      BY <2>1, Pointers
    <3>3. CASE callee[x] = t
      <4>1. i # 1
        BY <3>1, <3>3, <2>2, <1>c, <1>s
      <4>2. i - 1 \in 1..Len(w) /\ w[i - 1] = x
        BY <4>1, <3>1, <3>3, <1>v, <1>q
      <4> QED
        BY <4>2, <3>3, <1>0
    <3>4. CASE callee[x] # t
      BY <3>1, <3>2, <3>4, <1>0
    <3> QED
      BY <3>3, <3>4
  <2> QED
    BY <2>1, <2>2, <1>0, <1>c, <1>s DEF SessionOK
<1>6. LocksOK(t)'
  <2>1. LocksOK(t)
    BY DEF Excl
  <2> QED
    BY <2>1, <1>0, <1>c DEF LocksOK, MultiPCs, OwnPCs
<1>7. BlockOK(t)'
  BY <1>0, <1>c, BlockStays DEF ClientPCs, SubmitPCs
<1>8. \A u \in Regions \ {t} : LocksOK(u)' /\ BlockOK(u)' /\ AdderOK(u)' /\ PromoterOK(u)'
  <2>1. \A q \in Regions : regionLock[q] \in Regions \ {t} => queue'[q] = queue[q]
    BY <1>0, <1>c
  <2> QED
    BY <2>1, <1>0, <1>r, <1>o, OthersKept
<1> QED
  BY <1>0, <1>1, <1>2, <1>3, <1>4, <1>5, <1>6, <1>7, <1>8, NoAdder, NoPromoter DEF Excl

\* The client closes a session.
LEMMA CloseSessionExcl ==
  ASSUME Inv, Excl, NEW t \in Regions, CloseSession(t)
  PROVE  Excl'
<1> USE NoneAssumption
<1>b. /\ block[t] \in Seq(1..allocated) /\ block[t] # << >> /\ allocated \in Nat
      /\ Head(block[t]) = block[t][1] /\ 1 \in 1..Len(block[t])
      /\ Tail(block[t]) \in Seq(1..allocated) /\ Len(Tail(block[t])) = Len(block[t]) - 1
      /\ \A i \in 1..Len(Tail(block[t])) : Tail(block[t])[i] = block[t][i + 1]
  <2>1. block[t] \in Seq(1..allocated) /\ block[t] # << >> /\ allocated \in Nat
    BY DEF CloseSession, Inv, TypeOK, ThreadTypes, SessionTypes
  <2> QED
    BY <2>1, SeqTail
<1>s. PICK s, rest : s = block[t][1] /\ rest = Tail(block[t])
  OBVIOUS
<1>c. caller[s] = t /\ isOpen[s] /\ s \in 1..allocated /\ s \in Sessions
  BY <1>b, <1>s, BlockCaller, Pointers
<1>0. /\ pc[t] \in {"body", "closing"}
      /\ pc'[t] = IF rest = << >> THEN "body" ELSE "closing"
      /\ block'[t] = rest
      /\ freed' = IF isSubmitted[s] THEN freed ELSE freed \union {s}
      /\ \A u \in Regions \ {t} : pc'[u] = pc[u] /\ block'[u] = block[u]
      /\ UNCHANGED <<allocated, caller, callee, nextSibling, isSubmitted,
                     isRunning, calls, mustWait, logged, applied, queue,
                     regionLock, multiLock, count, cur, call, base, sib, locks,
                     step, ready, scan, crashed>>
  BY <1>b, <1>s DEF CloseSession, Inv, TypeOK, ThreadTypes
<1>p. ~isOpen'[s] /\ \A x \in Sessions : x # s => isOpen'[x] = isOpen[x]
  BY <1>b, <1>s, <1>c DEF CloseSession, Closed, Inv, TypeOK, SessionTypes
<1>z. 1..allocated \subseteq Sessions
  BY Pointers
<1>r. RingsKept /\ \A f, l : RingAt(f, l)' <=> RingAt(f, l)
  BY <1>0, RingsUnchanged
<1>o. Others(t) /\ OthersLocks(t)
  BY <1>0 DEF Others, OthersLocks
<1>1. RingsOK'
  BY <1>0, <1>r DEF Excl, RingsOK
<1>2. FreshOK'
  <2>1. ~(s > allocated)
    BY <1>c, <1>b
  <2> QED
    BY <2>1, <1>0 DEF Excl, FreshOK
<1>3. ASSUME NEW f \in 1..allocated', NEW l \in 1..allocated', RingAt(f, l)'
      PROVE  RingOK(f, l)'
  <2>1. RingOK(f, l)
    BY <1>0, <1>3, <1>r DEF Excl
  <2> QED
    BY <2>1, <1>0, <1>o, RingStays
<1>4. ASSUME NEW r \in Regions PROVE QueueOK(r)'
  <2>1. QueueOK(r)
    BY DEF Excl
  <2> QED
    BY <2>1, <1>0 DEF QueueOK
<1>5. ASSUME NEW x \in 1..allocated' PROVE SessionOK(x)'
  <2>1. SessionOK(x) /\ x \in Sessions
    BY <1>0, <1>z DEF Excl
  <2> QED
    BY <2>1, <1>0, <1>p DEF SessionOK
<1>6. LocksOK(t)'
  <2>1. LocksOK(t)
    BY DEF Excl
  <2> QED
    BY <2>1, <1>0 DEF LocksOK, MultiPCs, OwnPCs, ClientPCs
<1>7. BlockOK(t)'
  <2>1. ASSUME rest # << >>
        PROVE  \E f, l \in 1..allocated' :
          /\ RingAt(f, l)' /\ caller'[f] = t /\ EndOfRing(rest, f, l)
          /\ \A i \in 1..Len(rest) : isOpen'[rest[i]]
    <3>1. PICK f \in 1..allocated, l \in 1..allocated :
          /\ RingAt(f, l) /\ caller[f] = t /\ EndOfRing(block[t], f, l)
          /\ \A i \in 1..Len(block[t]) : isOpen[block[t][i]]
      BY <1>b DEF Excl, BlockOK
    <3>2. EndOfRing(rest, f, l)
      <4>1. Len(block[t]) \in Nat /\ f \in Nat /\ l \in Nat
        BY <1>b
      <4>r. Len(rest) = Len(block[t]) - 1
        BY <1>b, <1>s
      <4>2. ASSUME NEW i \in 1..Len(rest) PROVE rest[i] = l - Len(rest) + i
        <5>1. i + 1 \in 1..Len(block[t]) /\ rest[i] = block[t][i + 1]
          BY <4>1, <1>b, <1>s
        <5>2. block[t][i + 1] = l - Len(block[t]) + (i + 1)
          BY <5>1, <3>1 DEF EndOfRing
        <5> QED
          BY <5>1, <5>2, <4>1, <4>r
      <4>3. Len(rest) <= l - f + 1
        BY <4>1, <3>1, <1>b, <1>s DEF EndOfRing
      <4> QED
        BY <4>2, <4>3 DEF EndOfRing
    <3>3. ASSUME NEW i \in 1..Len(rest) PROVE isOpen'[rest[i]]
      <4>1. Len(block[t]) \in Nat /\ f \in Nat /\ l \in Nat
        BY <1>b
      <4>2. i + 1 \in 1..Len(block[t]) /\ rest[i] = block[t][i + 1]
        BY <4>1, <1>b, <1>s
      <4>3. block[t][i + 1] = l - Len(block[t]) + (i + 1) /\ s = l - Len(block[t]) + 1
        BY <4>2, <3>1, <1>b, <1>s DEF EndOfRing
      <4>4. rest[i] # s
        BY <4>1, <4>2, <4>3
      <4>5. rest[i] \in Sessions
        BY <4>2, <1>b, <1>z, SeqElements
      <4> QED
        BY <4>2, <4>4, <4>5, <3>1, <1>p
    <3> QED
      BY <3>1, <3>2, <3>3, <1>0, <1>r
  <2>2. pc'[t] # "closing" => rest = << >>
    BY <1>0
  <2> QED
    BY <2>1, <2>2, <1>0 DEF BlockOK, ClientPCs
<1>8. \A u \in Regions \ {t} : LocksOK(u)' /\ BlockOK(u)' /\ AdderOK(u)' /\ PromoterOK(u)'
  <2>1. ASSUME NEW x \in 1..allocated
        PROVE  /\ caller[x] # t => (isOpen'[x] <=> isOpen[x])
               /\ isOpen'[x] => isOpen[x]
    BY <1>p, <1>c, <1>z
  <2> QED
    BY <2>1, <1>0, <1>r, <1>o, OthersKept
<1> QED
  BY <1>0, <1>1, <1>2, <1>3, <1>4, <1>5, <1>6, <1>7, <1>8, NoAdder, NoPromoter DEF Excl

\* What appending the session s to the queue of its region does to the queues and
\* the sessions.
LEMMA AppendKeeps ==
  ASSUME Inv, Excl, NEW s \in 1..allocated, NEW r \in Regions, callee[s] = r,
         ~isSubmitted[s], s \notin freed,
         queue' = [queue EXCEPT ![r] = AddLast(@, s)],
         isSubmitted' = [isSubmitted EXCEPT ![s] = TRUE],
         UNCHANGED <<allocated, freed, caller, callee, nextSibling, isOpen, isRunning, cur>>
  PROVE  /\ \A q \in Regions : QueueOK(q)'
         /\ \A x \in 1..allocated' : SessionOK(x)'
         /\ FreshOK' /\ RingsOK'
         /\ isSubmitted'[s] /\ \A x \in Sessions : x # s => isSubmitted'[x] = isSubmitted[x]
         /\ \A q \in Regions \ {r} : queue'[q] = queue[q]
<1> USE NoneAssumption
<1>z. 1..allocated \subseteq Sessions
  <2>1. 1..allocated \subseteq 1..MaxSessions
    BY BoundsAssumption DEF Inv, TypeOK, SessionTypes
  <2> QED
    BY <2>1 DEF Sessions
<1>n. isSubmitted'[s] /\ \A x \in Sessions : x # s => isSubmitted'[x] = isSubmitted[x]
  BY <1>z DEF Inv, TypeOK, SessionTypes
<1>q. queue \in [Regions -> Seq(1..allocated)]
  BY DEF Inv, TypeOK, SharedTypes
<1>m. PICK m : m = AddLast(queue[r], s)
  OBVIOUS
<1>u. queue'[r] = m /\ \A q \in Regions \ {r} : queue'[q] = queue[q]
  BY <1>q, <1>m
<1>d. Distinct(queue[r]) /\ \A i \in 1..Len(queue[r]) : queue[r][i] # s
  BY DEF Excl, QueueOK
<1>v. /\ Len(m) = Len(queue[r]) + 1 /\ m[Len(m)] = s /\ Distinct(m)
      /\ \A i \in 1..Len(queue[r]) : m[i] = queue[r][i]
      /\ Len(queue[r]) \in Nat
  <2> DEFINE S == 1..allocated
  <2>1. queue[r] \in Seq(S) /\ s \in S
    BY <1>q
  <2> HIDE DEF S
  <2>2. Len(queue[r]) \in Nat
    BY <2>1
  <2> QED
    BY <2>1, <2>2, <1>d, <1>m, AddLastIs
<1>i. ~isRunning[s]
  BY DEF Excl, SessionOK
<1>1. ASSUME NEW q \in Regions PROVE QueueOK(q)'
  <2>1. QueueOK(q) /\ queue[q] \in Seq(1..allocated)
    BY <1>q DEF Excl
  <2>e. \A i \in 1..Len(queue[q]) :
          /\ callee[queue[q][i]] = q /\ isSubmitted'[queue[q][i]] /\ queue[q][i] \notin freed
          /\ i > 1 => ~isRunning[queue[q][i]]
    <3>1. \A i \in 1..Len(queue[q]) : queue[q][i] \in Sessions
      BY <2>1, <1>z, SeqElements
    <3> QED
      BY <3>1, <2>1, <1>n DEF QueueOK
  <2>2. CASE q = r
    <3>1. ASSUME NEW i \in 1..Len(m)
          PROVE  /\ callee[m[i]] = r /\ isSubmitted'[m[i]] /\ m[i] \notin freed
                 /\ i > 1 => ~isRunning[m[i]]
      <4>1. CASE i = Len(m)
        BY <4>1, <1>v, <1>i, <1>n
      <4>2. CASE i # Len(m)
        <5>1. i \in 1..Len(queue[r])
          BY <4>2, <1>v
        <5>2. m[i] = queue[r][i]
          BY <5>1, <1>v
        <5> QED
          BY <5>1, <5>2, <2>2, <2>e
      <4> QED
        BY <4>1, <4>2
    <3>2. cur[r] # None => cur[r] = m[1] /\ isRunning[cur[r]]
      <4>1. cur[r] # None => queue[r] # << >>
        BY DEF Inv, LocalsSet
      <4>2. queue[r] # << >> => 1 \in 1..Len(queue[r])
        BY <2>1, <2>2
      <4> QED
        BY <4>1, <4>2, <2>1, <2>2, <1>v DEF QueueOK
    <3> QED
      BY <3>1, <3>2, <2>2, <1>u, <1>v DEF QueueOK
  <2>3. CASE q # r
    BY <2>1, <2>3, <2>e, <1>u DEF QueueOK
  <2> QED
    BY <2>2, <2>3
<1>2. ASSUME NEW x \in 1..allocated' PROVE SessionOK(x)'
  <2>1. SessionOK(x) /\ x \in Sessions /\ callee[x] \in Regions
    <3>1. x \in 1..allocated
      OBVIOUS
    <3> QED
      BY <3>1, <1>z, Pointers DEF Excl
  <2>2. CASE x = s
    <3>1. Len(m) \in 1..Len(m)
      BY <1>v
    <3> QED
      BY <3>1, <2>1, <2>2, <1>u, <1>v, <1>n DEF SessionOK
  <2>3. CASE x # s
    <3>1. ASSUME isSubmitted[x], x \notin freed
          PROVE  \E i \in 1..Len(queue'[callee[x]]) : queue'[callee[x]][i] = x
      <4>1. PICK i \in 1..Len(queue[callee[x]]) : queue[callee[x]][i] = x
        BY <3>1, <2>1 DEF SessionOK
      <4>2. CASE callee[x] = r
        <5>1. i \in 1..Len(m) /\ m[i] = x
          BY <4>1, <4>2, <1>v
        <5> QED
          BY <5>1, <4>2, <1>u
      <4>3. CASE callee[x] # r
        BY <4>1, <4>3, <2>1, <1>u
      <4> QED
        BY <4>2, <4>3
    <3> QED
      BY <3>1, <2>1, <2>3, <1>n DEF SessionOK
  <2> QED
    BY <2>2, <2>3
<1>3. FreshOK'
  <2>1. ~(s > allocated)
    BY DEF Inv, TypeOK, SessionTypes
  <2> QED
    BY <2>1, <1>n DEF Excl, FreshOK
<1>4. RingsOK'
  BY RingsUnchanged DEF Excl, RingsOK
<1> QED
  BY <1>1, <1>2, <1>3, <1>4, <1>n, <1>u

\* A singleton session is submitted.
LEMMA AppendSessionExcl ==
  ASSUME Inv, Excl, NEW t \in Regions, AppendSession(t)
  PROVE  Excl'
<1> USE NoneAssumption
<1>s. PICK s, r : s = base[t] /\ r = callee[s]
  OBVIOUS
<1>0. /\ pc[t] = "append" /\ regionLock[r] = None
      /\ queue' = [queue EXCEPT ![r] = AddLast(@, s)]
      /\ isSubmitted' = [isSubmitted EXCEPT ![s] = TRUE]
      /\ CallLogged(t, s, Woken(pc, r))
      /\ UNCHANGED <<allocated, freed, caller, callee, nextSibling, isOpen,
                     isRunning, calls, mustWait, logged, applied, regionLock,
                     multiLock, count, cur, call, block, sib, locks, step,
                     ready, scan, crashed>>
  BY <1>s DEF AppendSession
<1>a. /\ s \in 1..allocated /\ r \in Regions /\ caller[s] = t /\ s \notin freed
      /\ block[t] # << >> /\ nextSibling[s] = s /\ ~isSubmitted[s]
  <2>1. s \in 1..allocated /\ caller[s] = t /\ block[t] # << >> /\ s \notin freed
    BY <1>0, <1>s, OwnRing
  <2>2. Singleton(s) /\ ~isSubmitted[s]
    BY <1>0, <1>s DEF Excl, AdderOK
  <2>3. r \in Regions
    BY <2>1, <1>s, Pointers
  <2> QED
    BY <2>1, <2>2, <2>3 DEF Singleton
<1>p. /\ pc'[t] \in {"sync", "body"}
      /\ \A u \in Regions \ {t} : /\ pc'[u] = pc[u] \/ (pc[u] = "waiting" /\ pc'[u] = "iterate")
                                  /\ base'[u] = base[u]
  <2>1. pc \in [Regions -> PCs] /\ base \in [Regions -> (1..allocated) \union {None}]
    BY DEF Inv, TypeOK, ThreadTypes
  <2>2. /\ Woken(pc, r) \in [Regions -> PCs]
        /\ \A u \in Regions : \/ Woken(pc, r)[u] = pc[u]
                              \/ pc[u] = "waiting" /\ Woken(pc, r)[u] = "iterate"
    <3>1. r \in Regions
      BY <1>a
    <3> QED
      BY <3>1, <2>1, WokenIs
  <2>3. /\ pc' = [Woken(pc, r) EXCEPT ![t] = IF mustWait[s] THEN "sync" ELSE "body"]
        /\ base' = [base EXCEPT ![t] = IF mustWait[s] THEN s ELSE None]
    BY <1>0 DEF CallLogged
  <2> QED
    BY <2>1, <2>2, <2>3
<1>k. /\ \A q \in Regions : QueueOK(q)'
      /\ \A x \in 1..allocated' : SessionOK(x)'
      /\ FreshOK' /\ RingsOK'
      /\ isSubmitted'[s] /\ \A x \in Sessions : x # s => isSubmitted'[x] = isSubmitted[x]
      /\ \A q \in Regions \ {r} : queue'[q] = queue[q]
  <2>1. callee[s] = r
    BY <1>s
  <2> QED
    BY <2>1, <1>0, <1>a, AppendKeeps
<1>r. RingsKept /\ \A f, l : RingAt(f, l)' <=> RingAt(f, l)
  BY <1>0, RingsUnchanged
<1>o. Others(t) /\ OthersLocks(t)
  BY <1>0, <1>p DEF Others, OthersLocks
<1>z. 1..allocated \subseteq Sessions
  BY Pointers
<1>3. ASSUME NEW f \in 1..allocated', NEW l \in 1..allocated', RingAt(f, l)'
      PROVE  RingOK(f, l)'
  <2>1. RingOK(f, l) /\ RingAt(f, l) /\ allocated \in Nat
    BY <1>0, <1>3, <1>r DEF Excl, Inv, TypeOK, SessionTypes
  <2>2. CASE s \notin f..l
    <3>1. \A x \in f..l : x \in 1..allocated
      BY <2>1 DEF RingAt
    <3> QED
      BY <3>1, <2>1, <2>2, <1>0, <1>o, <1>k, <1>z, RingStays
  <2>3. CASE s \in f..l
    <3>1. f = l
      BY <2>1, <2>3, <1>a, NextIs
    <3>2. \A x, y \in f..l : x = y
      BY <3>1
    <3> QED
      BY <3>2 DEF RingOK
  <2> QED
    BY <2>2, <2>3
<1>6. LocksOK(t)'
  <2>1. LocksOK(t)
    BY DEF Excl
  <2> QED
    BY <2>1, <1>0, <1>p DEF LocksOK, MultiPCs, OwnPCs, ClientPCs
<1>7. BlockOK(t)'
  BY <1>0, <1>a, <1>p, BlockStays DEF ClientPCs, SubmitPCs
<1>8. \A u \in Regions \ {t} : LocksOK(u)' /\ BlockOK(u)' /\ AdderOK(u)' /\ PromoterOK(u)'
  <2>1. ASSUME NEW x \in 1..allocated
        PROVE  /\ isSubmitted[x] => isSubmitted'[x]
               /\ caller[x] # t => (isSubmitted'[x] <=> isSubmitted[x])
    BY <1>k, <1>a, <1>z
  <2>2. \A q \in Regions : regionLock[q] \in Regions \ {t} => queue'[q] = queue[q]
    BY <1>0, <1>k
  <2> QED
    BY <2>1, <2>2, <1>0, <1>r, <1>o, OthersKept
<1> QED
  BY <1>k, <1>p, <1>3, <1>6, <1>7, <1>8, NoAdder, NoPromoter DEF Excl

\* A session of a multisession is submitted.
LEMMA AppendSiblingExcl ==
  ASSUME Inv, Excl, NEW t \in Regions, AppendSibling(t)
  PROVE  Excl'
<1> USE NoneAssumption
<1>s. PICK s, r : s = sib[t] /\ r = callee[s]
  OBVIOUS
<1>b. s \in 1..allocated /\ r \in Regions /\ base[t] \in 1..allocated /\ allocated \in Nat
  <2>1. pc[t] = "mAppend"
    BY DEF AppendSibling
  <2>2. s \in 1..allocated /\ base[t] \in 1..allocated
    BY <2>1, <1>s, Pointers DEF SiblingPCs, BasePCs
  <2>3. r \in Regions
    BY <2>2, <1>s, Pointers
  <2> QED
    BY <2>2, <2>3 DEF Inv, TypeOK, SessionTypes
<1>0. /\ pc[t] = "mAppend"
      /\ queue' = [queue EXCEPT ![r] = AddLast(@, s)]
      /\ isSubmitted' = [isSubmitted EXCEPT ![s] = TRUE]
      /\ sib'[t] = nextSibling[s]
      /\ pc'[t] = IF nextSibling[s] = base[t] THEN "mWake" ELSE "mAppend"
      /\ \A u \in Regions \ {t} : pc'[u] = pc[u] /\ sib'[u] = sib[u]
      /\ UNCHANGED <<allocated, freed, caller, callee, nextSibling, isOpen,
                     isRunning, calls, mustWait, logged, applied, multiLock,
                     cur, call, block, base, locks, step, ready, scan, crashed>>
  BY <1>s DEF AppendSibling, Inv, TypeOK, ThreadTypes
<1>l. regionLock'[r] = None /\ \A q \in Regions \ {r} : regionLock'[q] = regionLock[q]
  BY <1>s, <1>b DEF AppendSibling, Inv, TypeOK, SharedTypes
<1>g. PICK f \in 1..allocated, l \in 1..allocated :
        /\ RingAt(f, l) /\ base[t] \in f..l
        /\ \A x \in f..l : isOpen[x] /\ x \notin freed
  BY <1>0, OwnRing
<1>h. f \in Nat /\ l \in Nat
  BY <1>g
<1>a. /\ s \in f..l
      /\ \A x \in f..l :
            IF Distance(base[t], x, l - f + 1) < Distance(base[t], s, l - f + 1)
            THEN isSubmitted[x]
            ELSE ~isSubmitted[x] /\ regionLock[callee[x]] = t
  BY <1>0, <1>s, <1>g DEF Excl, AdderOK
<1>d. ASSUME NEW x \in f..l
      PROVE  /\ Distance(base[t], x, l - f + 1) \in 0..(l - f)
             /\ Distance(base[t], s, l - f + 1) \in 0..(l - f)
             /\ Distance(base[t], x, l - f + 1) = Distance(base[t], s, l - f + 1) => x = s
  BY <1>g, <1>h, <1>a, DistanceIs
<1>e. /\ nextSibling[s] \in f..l
      /\ nextSibling[s] = base[t] => Distance(base[t], s, l - f + 1) = l - f
      /\ nextSibling[s] # base[t] => Distance(base[t], nextSibling[s], l - f + 1)
                                       = Distance(base[t], s, l - f + 1) + 1
  BY <1>g, <1>b, <1>a, NextIs
<1>f. ~isSubmitted[s] /\ regionLock[r] = t /\ s \notin freed /\ caller[s] = t
  <2>1. ~(Distance(base[t], s, l - f + 1) < Distance(base[t], s, l - f + 1))
    BY <1>a, <1>d
  <2>2. caller[s] = caller[base[t]]
    BY <1>g, <1>a DEF RingAt
  <2>3. caller[base[t]] = t
    BY <1>0, OwnRing
  <2> QED
    BY <2>1, <2>2, <2>3, <1>a, <1>g, <1>s
<1>k. /\ \A q \in Regions : QueueOK(q)'
      /\ \A x \in 1..allocated' : SessionOK(x)'
      /\ FreshOK' /\ RingsOK'
      /\ isSubmitted'[s] /\ \A x \in Sessions : x # s => isSubmitted'[x] = isSubmitted[x]
      /\ \A q \in Regions \ {r} : queue'[q] = queue[q]
  <2>1. callee[s] = r
    BY <1>s
  <2> QED
    BY <2>1, <1>0, <1>b, <1>f, AppendKeeps
<1>r. RingsKept /\ \A x, y : RingAt(x, y)' <=> RingAt(x, y)
  BY <1>0, RingsUnchanged
<1>o. Others(t) /\ OthersLocks(t)
  BY <1>0, <1>l, <1>f, <1>b DEF Others, OthersLocks
<1>z. 1..allocated \subseteq Sessions
  BY Pointers
<1>x. \A x \in f..l : x \in 1..allocated /\ x \in Sessions
  BY <1>g, <1>b, <1>z DEF RingAt
<1>y. ASSUME NEW x \in f..l,
             Distance(base[t], x, l - f + 1) <= Distance(base[t], s, l - f + 1)
      PROVE  isSubmitted'[x]
  <2>1. CASE x = s
    BY <2>1, <1>k
  <2>2. CASE x # s
    <3>1. Distance(base[t], x, l - f + 1) < Distance(base[t], s, l - f + 1)
      BY <2>2, <1>d, <1>y
    <3> QED
      BY <3>1, <2>2, <1>a, <1>k, <1>x
  <2> QED
    BY <2>1, <2>2
<1>3. ASSUME NEW g \in 1..allocated', NEW m \in 1..allocated', RingAt(g, m)'
      PROVE  RingOK(g, m)'
  <2>1. RingOK(g, m) /\ RingAt(g, m)
    BY <1>0, <1>3, <1>r DEF Excl
  <2>2. CASE base[t] \notin g..m
    <3>1. s \notin g..m
      <4>1. s \in g..m => g = f /\ m = l
        BY <2>1, <1>g, <1>a, <1>b, RingUnique
      <4> QED
        BY <4>1, <2>2, <1>g
    <3>2. \A x \in g..m : x \in 1..allocated
      BY <2>1, <1>b DEF RingAt
    <3> QED
      BY <3>1, <3>2, <2>1, <2>2, <1>0, <1>o, <1>k, <1>z, RingStays
  <2>3. CASE base[t] \in g..m
    <3>1. g = f /\ m = l
      BY <2>1, <2>3, <1>g, <1>b, RingUnique
    <3>2. \/ \A x \in f..l : isSubmitted'[x]
          \/ pc'[t] = "mAppend" /\ base'[t] \in f..l
      <4>1. CASE nextSibling[s] = base[t]
        <5>1. \A x \in f..l : Distance(base[t], x, l - f + 1) <= Distance(base[t], s, l - f + 1)
          BY <4>1, <1>d, <1>e, <1>h
        <5> QED
          BY <5>1, <1>y
      <4>2. CASE nextSibling[s] # base[t]
        BY <4>2, <1>0, <1>g
      <4> QED
        BY <4>1, <4>2
    <3>3. ASSUME NEW u \in Regions, pc[u] = "prMark"
          PROVE  pc'[u] = pc[u] /\ base'[u] = base[u] /\ ready'[u] = ready[u]
      BY <3>3, <1>0
    <3> QED
      BY <3>1, <3>2, <3>3, <2>1, <1>0 DEF RingOK
  <2> QED
    BY <2>2, <2>3
<1>6. LocksOK(t)'
  <2>1. LocksOK(t)
    BY DEF Excl
  <2> QED
    BY <2>1, <1>0 DEF LocksOK, MultiPCs, OwnPCs, ClientPCs
<1>7. BlockOK(t)'
  <2>1. block[t] # << >>
    BY <1>0, OwnRing
  <2> QED
    BY <2>1, <1>0, BlockStays DEF ClientPCs, SubmitPCs
<1>8. \A u \in Regions \ {t} : LocksOK(u)' /\ BlockOK(u)' /\ AdderOK(u)' /\ PromoterOK(u)'
  <2>1. ASSUME NEW x \in 1..allocated
        PROVE  /\ isSubmitted[x] => isSubmitted'[x]
               /\ caller[x] # t => (isSubmitted'[x] <=> isSubmitted[x])
    BY <1>k, <1>f, <1>z
  <2>2. \A q \in Regions : regionLock[q] \in Regions \ {t} => queue'[q] = queue[q]
    BY <1>f, <1>k
  <2> QED
    BY <2>1, <2>2, <1>0, <1>r, <1>o, OthersKept
<1>9. AdderOK(t)'
  <2>1. ASSUME NEW g \in 1..allocated', NEW m \in 1..allocated', RingAt(g, m)',
               base'[t] \in g..m, pc'[t] = "mAppend"
        PROVE  /\ sib'[t] \in g..m
               /\ \A x \in g..m :
                    IF Distance(base'[t], x, m - g + 1) < Distance(base'[t], sib'[t], m - g + 1)
                    THEN isSubmitted'[x]
                    ELSE ~isSubmitted'[x] /\ regionLock'[callee'[x]] = t
    <3>1. g = f /\ m = l
      BY <2>1, <1>0, <1>r, <1>g, <1>b, RingUnique
    <3>2. nextSibling[s] # base[t] /\ base'[t] = base[t]
      BY <2>1, <1>0
    <3>3. ASSUME NEW x \in f..l
          PROVE  IF Distance(base[t], x, l - f + 1) < Distance(base[t], nextSibling[s], l - f + 1)
                 THEN isSubmitted'[x]
                 ELSE ~isSubmitted'[x] /\ regionLock'[callee[x]] = t
      <4>1. CASE Distance(base[t], x, l - f + 1) < Distance(base[t], nextSibling[s], l - f + 1)
        <5>1. Distance(base[t], x, l - f + 1) <= Distance(base[t], s, l - f + 1)
          BY <4>1, <3>2, <1>d, <1>e
        <5> QED
          BY <5>1, <4>1, <1>y
      <4>2. CASE ~(Distance(base[t], x, l - f + 1) < Distance(base[t], nextSibling[s], l - f + 1))
        <5>1. /\ ~(Distance(base[t], x, l - f + 1) < Distance(base[t], s, l - f + 1))
              /\ Distance(base[t], x, l - f + 1) # Distance(base[t], s, l - f + 1)
          BY <4>2, <3>2, <1>d, <1>e
        <5>2. x # s
          BY <5>1
        <5>3. ~isSubmitted[x] /\ regionLock[callee[x]] = t
          BY <5>1, <1>a
        <5>4. callee[x] # r /\ callee[x] \in Regions
          BY <5>2, <1>g, <1>a, <1>s, <1>x, Pointers DEF RingAt
        <5> QED
          BY <5>2, <5>3, <5>4, <4>2, <1>k, <1>l, <1>x
      <4> QED
        BY <4>1, <4>2
    <3> QED
      BY <3>1, <3>2, <3>3, <1>0, <1>e
  <2>2. pc'[t] \notin {"increment", "append", "mLock", "mRegion"}
    BY <1>0
  <2> QED
    BY <2>1, <2>2 DEF AdderOK
<1>n. PromoterOK(t)'
  BY <1>0, NoPromoter
<1> QED
  BY <1>k, <1>n, <1>3, <1>6, <1>7, <1>8, <1>9 DEF Excl

\* None of the sessions before the place p of the queue of r is running.
IdleBefore(r, p) == \A i \in 1..Len(queue[r]) : i < p => ~isRunning[queue[r][i]]

\* The session s, at the place p of the queue of r, is moved to the front and marked;
\* none of those before it is running.
Promoted(r, p, s) ==
  /\ p \in 1..Len(queue[r]) /\ s = queue[r][p] /\ cur[r] = None /\ IdleBefore(r, p)
  /\ queue' = [queue EXCEPT ![r] = MoveToFirst(@, s)]
  /\ isRunning' = [isRunning EXCEPT ![s] = TRUE]
  /\ UNCHANGED <<allocated, freed, caller, callee, nextSibling, isOpen, isSubmitted, cur>>

\* What that does to the queues and the sessions.
LEMMA MoveKeeps ==
  ASSUME Inv, Excl, NEW r \in Regions, NEW p, NEW s, Promoted(r, p, s)
  PROVE  /\ \A q \in Regions : QueueOK(q)'
         /\ \A x \in 1..allocated' : SessionOK(x)'
         /\ FreshOK' /\ RingsOK'
         /\ isRunning'[s] /\ \A x \in Sessions : x # s => isRunning'[x] = isRunning[x]
         /\ \A q \in Regions \ {r} : queue'[q] = queue[q]
         /\ s \in 1..allocated /\ callee[s] = r
<1> USE NoneAssumption
<1>0. /\ p \in 1..Len(queue[r]) /\ s = queue[r][p] /\ cur[r] = None /\ IdleBefore(r, p)
      /\ queue' = [queue EXCEPT ![r] = MoveToFirst(@, s)]
      /\ isRunning' = [isRunning EXCEPT ![s] = TRUE]
      /\ UNCHANGED <<allocated, freed, caller, callee, nextSibling, isOpen, isSubmitted, cur>>
  BY DEF Promoted
<1>z. 1..allocated \subseteq Sessions
  <2>1. 1..allocated \subseteq 1..MaxSessions
    BY <1>0, BoundsAssumption DEF Inv, TypeOK, SessionTypes
  <2> QED
    BY <1>0, <2>1 DEF Sessions
<1>q. queue \in [Regions -> Seq(1..allocated)]
  BY <1>0 DEF Inv, TypeOK, SharedTypes
<1>s. s \in 1..allocated /\ callee[s] = r /\ isSubmitted[s]
  <2>1. \A i \in 1..Len(queue[r]) : queue[r][i] \in 1..allocated
    BY <1>0, <1>q, SeqElements
  <2> QED
    BY <1>0, <2>1 DEF Excl, QueueOK
<1>n. isRunning'[s] /\ \A x \in Sessions : x # s => isRunning'[x] = isRunning[x]
  BY <1>0, <1>s, <1>z DEF Inv, TypeOK, SessionTypes
<1>m. PICK m : m = MoveToFirst(queue[r], s)
  OBVIOUS
<1>u. queue'[r] = m /\ \A q \in Regions \ {r} : queue'[q] = queue[q]
  BY <1>0, <1>q, <1>m
<1>d. Distinct(queue[r]) /\ queue[r] \in Seq(1..allocated)
  BY <1>0, <1>q DEF Excl, QueueOK
<1>v. /\ Len(m) = Len(queue[r]) /\ m[1] = s /\ Distinct(m)
      /\ \A i \in 2..p : m[i] = queue[r][i-1]
      /\ \A i \in (p + 1)..Len(queue[r]) : m[i] = queue[r][i]
      /\ Len(queue[r]) \in Nat
  <2> DEFINE S == 1..allocated
  <2>1. queue[r] \in Seq(S)
    BY <1>0, <1>d
  <2> HIDE DEF S
  <2>2. Len(queue[r]) \in Nat
    BY <1>0, <2>1
  <2> QED
    BY <1>0, <2>1, <2>2, <1>d, <1>m, MoveToFirstIs
<1>1. ASSUME NEW q \in Regions PROVE QueueOK(q)'
  <2>1. QueueOK(q) /\ queue[q] \in Seq(1..allocated)
    BY <1>0, <1>q DEF Excl
  <2>2. CASE q = r
    <3>1. ASSUME NEW i \in 1..Len(m)
          PROVE  /\ callee[m[i]] = r /\ isSubmitted[m[i]] /\ m[i] \notin freed
                 /\ i > 1 => ~isRunning'[m[i]]
      <4>1. CASE i = 1
        BY <1>0, <4>1, <2>1, <2>2, <1>v DEF QueueOK
      <4>2. CASE i \in 2..p
        <5>1. m[i] = queue[r][i-1] /\ i - 1 \in 1..Len(queue[r]) /\ i - 1 < p
          BY <1>0, <4>2, <1>v
        <5>2. ~isRunning[m[i]]
          BY <1>0, <5>1 DEF IdleBefore
        <5>3. m[i] # s
          BY <1>0, <4>2, <3>1, <1>v DEF Distinct
        <5>4. m[i] \in Sessions
          BY <1>0, <5>1, <2>1, <2>2, <1>z, SeqElements
        <5> QED
          BY <1>0, <5>1, <5>2, <5>3, <5>4, <2>1, <2>2, <1>n DEF QueueOK
      <4>3. CASE i \in (p + 1)..Len(queue[r])
        <5>1. m[i] = queue[r][i] /\ i \in 1..Len(queue[r]) /\ i > 1
          BY <1>0, <4>3, <1>v
        <5>2. ~isRunning[m[i]]
          BY <1>0, <5>1, <2>1, <2>2 DEF QueueOK
        <5>3. m[i] # s
          BY <1>0, <5>1, <3>1, <1>v DEF Distinct
        <5>4. m[i] \in Sessions
          BY <1>0, <5>1, <2>1, <2>2, <1>z, SeqElements
        <5> QED
          BY <1>0, <5>1, <5>2, <5>3, <5>4, <2>1, <2>2, <1>n DEF QueueOK
      <4> QED
        BY <1>0, <4>1, <4>2, <4>3, <3>1, <1>v
    <3> QED
      BY <1>0, <3>1, <2>2, <1>u, <1>v DEF QueueOK
  <2>3. CASE q # r
    <3>1. ASSUME NEW i \in 1..Len(queue[q])
          PROVE  i > 1 => ~isRunning'[queue[q][i]]
      <4>1. queue[q][i] \in Sessions /\ callee[queue[q][i]] = q
        BY <1>0, <2>1, <1>z, SeqElements DEF QueueOK
      <4> QED
        BY <1>0, <4>1, <2>1, <2>3, <1>s, <1>n DEF QueueOK
    <3>2. cur[q] # None => cur[q] = queue[q][1] /\ isRunning'[cur[q]]
      <4>1. cur[q] # None => cur[q] \in Sessions
        BY <1>0, <1>z, Pointers
      <4> QED
        BY <1>0, <4>1, <2>1, <1>n DEF QueueOK
    <3> QED
      BY <1>0, <3>1, <3>2, <2>1, <2>3, <1>u DEF QueueOK
  <2> QED
    BY <1>0, <2>2, <2>3
<1>2. ASSUME NEW x \in 1..allocated' PROVE SessionOK(x)'
  <2>1. SessionOK(x) /\ x \in Sessions /\ callee[x] \in Regions
    <3>1. x \in 1..allocated
      BY <1>0
    <3> QED
      BY <1>0, <3>1, <1>z, Pointers DEF Excl
  <2>2. ASSUME isSubmitted[x], x \notin freed
        PROVE  \E i \in 1..Len(queue'[callee[x]]) : queue'[callee[x]][i] = x
    <3>1. PICK i \in 1..Len(queue[callee[x]]) : queue[callee[x]][i] = x
      BY <1>0, <2>1, <2>2 DEF SessionOK
    <3>2. CASE callee[x] = r
      <4>1. \E j \in 1..Len(m) : m[j] = x
        <5>1. CASE i = p
          BY <1>0, <5>1, <3>1, <3>2, <1>v
        <5>2. CASE i < p
          <6>1. i + 1 \in 2..p /\ i + 1 \in 1..Len(m) /\ (i + 1) - 1 = i
            BY <1>0, <5>2, <3>1, <3>2, <1>v
          <6>2. m[i + 1] = queue[r][(i + 1) - 1]
            BY <6>1, <1>v
          <6> QED
            BY <6>1, <6>2, <3>1, <3>2
        <5>3. CASE i > p
          <6>1. i \in (p + 1)..Len(queue[r]) /\ i \in 1..Len(m)
            BY <1>0, <5>3, <3>1, <3>2, <1>v
          <6> QED
            BY <1>0, <6>1, <3>1, <3>2, <1>v
        <5> QED
          BY <1>0, <5>1, <5>2, <5>3, <3>1, <3>2, <1>v
      <4> QED
        BY <1>0, <4>1, <3>2, <1>u
    <3>3. CASE callee[x] # r
      BY <1>0, <3>1, <3>3, <2>1, <1>u
    <3> QED
      BY <1>0, <3>2, <3>3
  <2> QED
    BY <1>0, <2>1, <2>2, <1>n, <1>s DEF SessionOK
<1>3. FreshOK'
  <2>1. ~(s > allocated)
    BY <1>0, <1>s DEF Inv, TypeOK, SessionTypes
  <2> QED
    BY <1>0, <2>1, <1>n DEF Excl, FreshOK
<1>4. RingsOK'
  BY <1>0, RingsUnchanged DEF Excl, RingsOK
<1> QED
  BY <1>0, <1>1, <1>2, <1>3, <1>4, <1>n, <1>u, <1>s

\* The promoting processor looks at the sessions of its region, one after the other.
LEMMA PromoteScanExcl ==
  ASSUME Inv, Excl, NEW t \in Regions, PromoteScan(t)
  PROVE  Excl'
<1> USE NoneAssumption
<1>s. PICK s : s = queue[t][scan[t]]
  OBVIOUS
<1>0. /\ pc[t] = "prScan"
      /\ UNCHANGED <<allocated, freed, caller, callee, nextSibling, isOpen,
                     isSubmitted, calls, mustWait, logged, applied, regionLock,
                     multiLock, count, cur, call, block, step, scan, crashed>>
  BY DEF PromoteScan
<1>a. /\ regionLock[t] = t /\ cur[t] = None /\ LocksOK(t)
      /\ \A i \in 1..Len(queue[t]) : i < scan[t] => ~isRunning[queue[t][i]]
      /\ queue[t] \in Seq(1..allocated) /\ scan[t] \in Nat /\ scan[t] > 0
      /\ allocated \in Nat
  <2>1. LocksOK(t) /\ PromoterOK(t) /\ LocalsSet(t)
    BY DEF Excl, Inv
  <2>2. regionLock[t] = t /\ cur[t] = None
    BY <2>1, <1>0 DEF LocksOK, OwnPCs, ClientPCs
  <2>3. \A i \in 1..Len(queue[t]) : i < scan[t] => ~isRunning[queue[t][i]]
    BY <2>1, <1>0 DEF PromoterOK
  <2> QED
    BY <2>1, <2>2, <2>3, <1>0 DEF LocalsSet, Inv, TypeOK, ThreadTypes, SharedTypes, SessionTypes
<1>r. RingsKept /\ \A x, y : RingAt(x, y)' <=> RingAt(x, y)
  BY <1>0, RingsUnchanged
<1>1. CASE /\ scan[t] > Len(queue[t]) /\ pc' = [pc EXCEPT ![t] = "prDone"]
           /\ UNCHANGED <<queue, isRunning, base, sib, locks, ready>>
  <2>1. pc'[t] = "prDone" /\ \A u \in Regions \ {t} : pc'[u] = pc[u]
    BY <1>1 DEF Inv, TypeOK, ThreadTypes
  <2>2. UNCHANGED coreVars /\ Others(t) /\ OthersLocks(t)
    BY <2>1, <1>0, <1>1 DEF coreVars, Others, OthersLocks
  <2>3. LocksOK(t)'
    BY <2>1, <1>0, <1>1, <1>a DEF LocksOK, MultiPCs, OwnPCs, ClientPCs
  <2> QED
    BY <2>1, <2>2, <2>3, <1>0, PlainStep
<1>2. CASE /\ scan[t] <= Len(queue[t]) /\ ~Blocked(s)
           /\ queue' = [queue EXCEPT ![t] = MoveToFirst(@, s)]
           /\ isRunning' = [isRunning EXCEPT ![s] = TRUE]
           /\ pc' = [pc EXCEPT ![t] = "prDone"]
           /\ UNCHANGED <<base, sib, locks, ready>>
  <2>0. pc'[t] = "prDone" /\ \A u \in Regions \ {t} : pc'[u] = pc[u]
    BY <1>2 DEF Inv, TypeOK, ThreadTypes
  <2>k. /\ \A q \in Regions : QueueOK(q)'
        /\ \A x \in 1..allocated' : SessionOK(x)'
        /\ FreshOK' /\ RingsOK'
        /\ isRunning'[s] /\ \A x \in Sessions : x # s => isRunning'[x] = isRunning[x]
        /\ \A q \in Regions \ {t} : queue'[q] = queue[q]
        /\ s \in 1..allocated /\ callee[s] = t
    <3>1. PICK p : p = scan[t]
      OBVIOUS
    <3>2. p \in 1..Len(queue[t]) /\ s = queue[t][p]
      BY <3>1, <1>2, <1>a, <1>s
    <3>3. IdleBefore(t, p)
      BY <3>1, <1>a DEF IdleBefore
    <3>4. UNCHANGED <<allocated, freed, caller, callee, nextSibling, isOpen, isSubmitted, cur>>
      BY <1>0
    <3>5. /\ cur[t] = None
          /\ queue' = [queue EXCEPT ![t] = MoveToFirst(@, s)]
          /\ isRunning' = [isRunning EXCEPT ![s] = TRUE]
      BY <1>2, <1>a
    <3>6. Promoted(t, p, s)
      BY <3>2, <3>3, <3>4, <3>5 DEF Promoted
    <3> QED
      BY <3>6, MoveKeeps
  <2>z. 1..allocated \subseteq Sessions
    BY Pointers
  <2>o. Others(t) /\ OthersLocks(t)
    BY <2>0, <1>0, <1>2 DEF Others, OthersLocks
  <2>3. ASSUME NEW f \in 1..allocated', NEW l \in 1..allocated', RingAt(f, l)'
        PROVE  RingOK(f, l)'
    <3>1. RingOK(f, l) /\ RingAt(f, l)
      BY <2>3, <1>0, <1>r DEF Excl
    <3>2. CASE isRunning[s] \/ s \notin f..l
      <4>1. \A x \in f..l : isRunning'[x] <=> isRunning[x]
        <5>1. \A x \in f..l : x \in 1..allocated
          BY <3>1, <1>a DEF RingAt
        <5> QED
          BY <5>1, <3>2, <2>k, <2>z
      <4> QED
        BY <4>1, <3>1, <2>o, <1>0, RingStays
    <3>3. CASE ~isRunning[s] /\ s \in f..l
      <4>1. nextSibling[s] = s
        BY <3>3, <1>2 DEF Blocked, Singleton
      <4>2. f = l
        BY <4>1, <3>1, <3>3, <1>a, NextIs
      <4>3. \A x, y \in f..l : x = y
        BY <4>2
      <4> QED
        BY <4>3 DEF RingOK
    <3> QED
      BY <3>2, <3>3
  <2>6. LocksOK(t)'
    BY <2>0, <1>0, <1>a DEF LocksOK, MultiPCs, OwnPCs, ClientPCs
  <2>7. BlockOK(t)'
    BY <2>0, <1>0, BlockStays DEF ClientPCs, SubmitPCs
  <2>8. \A u \in Regions \ {t} : LocksOK(u)' /\ BlockOK(u)' /\ AdderOK(u)' /\ PromoterOK(u)'
    <3>1. ASSUME NEW x \in 1..allocated
          PROVE  /\ isRunning[x] => isRunning'[x]
                 /\ regionLock[callee[x]] \in Regions \ {t} => (isRunning'[x] <=> isRunning[x])
      BY <2>k, <2>z, <1>a
    <3>2. \A q \in Regions : regionLock[q] \in Regions \ {t} => queue'[q] = queue[q]
      BY <2>k, <1>a
    <3> QED
      BY <3>1, <3>2, <2>o, <1>0, <1>r, OthersKept
  <2> QED
    BY <2>0, <2>k, <2>3, <2>6, <2>7, <2>8, NoAdder, NoPromoter DEF Excl
<1>3. CASE /\ scan[t] <= Len(queue[t]) /\ Blocked(s)
           /\ base' = [base EXCEPT ![t] = s]
           /\ sib' = [sib EXCEPT ![t] = nextSibling[s]]
           /\ locks' = [locks EXCEPT ![t] = 1]
           /\ ready' = [ready EXCEPT ![t] = TRUE]
           /\ pc' = [pc EXCEPT ![t] = "prSibling"]
           /\ UNCHANGED <<queue, isRunning>>
  <2>0. /\ pc'[t] = "prSibling" /\ base'[t] = s /\ sib'[t] = nextSibling[s] /\ locks'[t] = 1
        /\ \A u \in Regions \ {t} : /\ pc'[u] = pc[u] /\ base'[u] = base[u] /\ sib'[u] = sib[u]
                                    /\ locks'[u] = locks[u] /\ ready'[u] = ready[u]
    BY <1>3 DEF Inv, TypeOK, ThreadTypes
  <2>1. UNCHANGED coreVars /\ Others(t) /\ OthersLocks(t)
    BY <2>0, <1>0, <1>3 DEF coreVars, Others, OthersLocks
  <2>2. LocksOK(t)'
    BY <2>0, <1>0, <1>a DEF LocksOK, MultiPCs, OwnPCs, ClientPCs
  <2>3. BlockOK(t)'
    BY <2>0, <2>1, <1>0, BlockStays DEF ClientPCs, SubmitPCs, coreVars
  <2>4. scan[t] \in 1..Len(queue[t])
    BY <1>3, <1>a
  <2>5. /\ callee[s] = t /\ isSubmitted[s] /\ ~isRunning[s] /\ nextSibling[s] # s
        /\ s \in 1..allocated
    BY <2>4, <1>3, <1>s, <1>a, SeqElements DEF Excl, QueueOK, Blocked, Singleton
  <2>6. FirstIdle(t)
    <3>1. CASE scan[t] = 1
      BY <3>1, <2>5, <1>s DEF FirstIdle
    <3>2. CASE scan[t] # 1
      <4>1. 1 \in 1..Len(queue[t]) /\ 1 < scan[t]
        BY <3>2, <2>4, <1>a
      <4> QED
        BY <4>1, <1>a DEF FirstIdle
    <3> QED
      BY <3>1, <3>2
  <2>7. PromoterOK(t)'
    <3>1. ASSUME NEW f \in 1..allocated', NEW l \in 1..allocated', RingAt(f, l)',
                 base'[t] \in f..l
          PROVE  /\ sib'[t] \in f..l /\ sib'[t] # base'[t]
                 /\ locks'[t] = Distance(base'[t], sib'[t], l - f + 1)
                 /\ \A x \in f..l : Distance(base'[t], x, l - f + 1) < locks'[t] =>
                      regionLock'[callee'[x]] = t /\ FirstIdle(callee[x])'
      <4>1. RingAt(f, l) /\ s \in f..l /\ f \in Nat /\ l \in Nat
        BY <3>1, <2>0, <1>0, <1>a, <1>r
      <4>2. /\ nextSibling[s] \in f..l
            /\ Distance(s, nextSibling[s], l - f + 1) = Distance(s, s, l - f + 1) + 1
        BY <4>1, <2>5, <1>a, NextIs
      <4>3. ASSUME NEW x \in f..l
            PROVE  /\ Distance(s, x, l - f + 1) \in 0..(l - f)
                   /\ Distance(s, s, l - f + 1) = 0
                   /\ Distance(s, x, l - f + 1) = Distance(s, s, l - f + 1) => x = s
        BY <4>1, DistanceIs
      <4>4. ASSUME NEW x \in f..l, Distance(s, x, l - f + 1) < 1
            PROVE  regionLock'[callee'[x]] = t /\ FirstIdle(callee[x])'
        <5>1. x = s
          BY <4>1, <4>3, <4>4
        <5>2. callee[x] = t
          BY <5>1, <2>5
        <5>3. FirstIdle(callee[x])
          BY <5>2, <2>6
        <5> QED
          BY <5>2, <5>3, <1>0, <1>3, <1>a DEF FirstIdle
      <4> QED
        BY <4>1, <4>2, <4>3, <4>4, <2>0, <2>5
    <3>2. /\ \A i \in 1..Len(queue'[t]) : i < scan'[t] => ~isRunning'[queue'[t][i]]
          /\ scan'[t] \in 1..Len(queue'[t]) /\ base'[t] = queue'[t][scan'[t]]
          /\ ~isRunning'[base'[t]]
          /\ callee'[base'[t]] = t /\ isSubmitted'[base'[t]] /\ ~Singleton(base[t])'
      BY <2>0, <2>4, <2>5, <1>0, <1>3, <1>a, <1>s DEF Singleton
    <3> QED
      BY <3>1, <3>2, <2>0 DEF PromoterOK, Searching
  <2> QED
    BY <2>0, <2>1, <2>2, <2>3, <2>7, <1>0, NoAdder, SimpleStep
<1> QED
  BY <1>1, <1>2, <1>3, <1>s DEF PromoteScan

\* The session s that the second loop of the promotion is at: its ring, and how far
\* it is from the session that is promoted.
LEMMA MarkedSession ==
  ASSUME Inv, Excl, NEW t \in Regions, pc[t] = "prMark", step[t] < locks[t],
         NEW s, s = IF step[t] = 0 THEN base[t] ELSE nextSibling[sib[t]],
         NEW f \in 1..allocated, NEW l \in 1..allocated, RingAt(f, l), base[t] \in f..l
  PROVE  /\ s \in f..l /\ Distance(base[t], s, l - f + 1) = step[t]
         /\ regionLock[callee[s]] = t
<1>0. f \in Nat /\ l \in Nat /\ step[t] \in Nat /\ locks[t] \in Nat /\ allocated \in Nat
  BY DEF Inv, TypeOK, ThreadTypes, SessionTypes
<1>1. /\ locks[t] \in 2..(l - f + 1)
      /\ step[t] > 0 => /\ sib[t] \in f..l
                        /\ Distance(base[t], sib[t], l - f + 1) = step[t] - 1
      /\ \A x \in f..l : Distance(base[t], x, l - f + 1) \in step[t]..(locks[t] - 1) =>
           regionLock[callee[x]] = t
  BY DEF Excl, PromoterOK
<1>2. s \in f..l /\ Distance(base[t], s, l - f + 1) = step[t]
  <2>1. CASE step[t] = 0
    <3>1. s = base[t]
      BY <2>1
    <3>2. Distance(base[t], base[t], l - f + 1) = 0
      BY <1>0, DistanceIs
    <3> QED
      BY <3>1, <3>2, <2>1
  <2>2. CASE step[t] # 0
    <3>1. sib[t] \in f..l /\ Distance(base[t], sib[t], l - f + 1) = step[t] - 1
      BY <2>2, <1>0, <1>1
    <3>2. s = nextSibling[sib[t]]
      BY <2>2
    <3>3. /\ nextSibling[sib[t]] \in f..l
          /\ nextSibling[sib[t]] = base[t] => Distance(base[t], sib[t], l - f + 1) = l - f
          /\ nextSibling[sib[t]] # base[t] => Distance(base[t], nextSibling[sib[t]], l - f + 1)
                                                = Distance(base[t], sib[t], l - f + 1) + 1
      BY <3>1, <1>0, NextIs
    <3>4. nextSibling[sib[t]] # base[t]
      BY <3>1, <3>3, <1>0, <1>1
    <3> QED
      BY <3>1, <3>2, <3>3, <3>4, <1>0
  <2> QED
    BY <2>1, <2>2
<1>3. Distance(base[t], s, l - f + 1) \in step[t]..(locks[t] - 1)
  BY <1>0, <1>2
<1> QED
  BY <1>1, <1>2, <1>3

\* The sessions of a multisession that is promoted are in the queues of their regions.
LEMMA RingIsThere ==
  ASSUME Inv, Excl, NEW t \in Regions, pc[t] \in {"prSibling", "prMark"},
         NEW f \in 1..allocated, NEW l \in 1..allocated, RingAt(f, l), base[t] \in f..l,
         NEW s \in f..l, ~isRunning[s]
  PROVE  /\ s \notin freed
         /\ \E i \in 1..Len(queue[callee[s]]) : queue[callee[s]][i] = s
<1>1. multiLock = t /\ isSubmitted[base[t]]
  BY DEF Excl, LocksOK, MultiPCs, PromoterOK
<1>2. ASSUME NEW u \in Regions, pc[u] = "mAppend" PROVE FALSE
  <2>1. multiLock = u
    BY <1>2 DEF Excl, LocksOK, MultiPCs
  <2> QED
    BY <2>1, <1>1, <1>2
<1>3. isSubmitted[s]
  BY <1>1, <1>2 DEF Excl, RingOK
<1>4. s \in 1..allocated
  BY DEF RingAt, Inv, TypeOK, SessionTypes
<1> QED
  BY <1>3, <1>4 DEF Excl, SessionOK

\* A session of a multisession is moved to the front of its region and marked.
LEMMA MarkExcl ==
  ASSUME Inv, Excl, NEW t \in Regions, PromoteMark(t), step[t] < locks[t], ready[t]
  PROVE  Excl'
<1> USE NoneAssumption
<1>s. PICK s, r : s = (IF step[t] = 0 THEN base[t] ELSE nextSibling[sib[t]]) /\ r = callee[s]
  OBVIOUS
<1>0. /\ pc[t] = "prMark"
      /\ queue' = [queue EXCEPT ![r] = MoveToFirst(@, s)]
      /\ isRunning' = [isRunning EXCEPT ![s] = TRUE]
      /\ regionLock' = IF s = base[t] THEN regionLock ELSE [regionLock EXCEPT ![r] = None]
      /\ sib'[t] = s /\ step'[t] = step[t] + 1
      /\ \A u \in Regions \ {t} : sib'[u] = sib[u] /\ step'[u] = step[u]
      /\ UNCHANGED <<pc, scan>>
      /\ UNCHANGED <<allocated, freed, caller, callee, nextSibling, isOpen,
                     isSubmitted, calls, mustWait, logged, applied, multiLock,
                     count, cur, call, block, base, locks, ready, crashed>>
  <2>1. step[t] # locks[t]
    BY DEF Inv, TypeOK, ThreadTypes
  <2>2. /\ pc[t] = "prMark"
        /\ queue' = [queue EXCEPT ![r] = MoveToFirst(@, s)]
        /\ isRunning' = [isRunning EXCEPT ![s] = TRUE]
        /\ regionLock' = IF s = base[t] THEN regionLock ELSE [regionLock EXCEPT ![r] = None]
        /\ sib' = [sib EXCEPT ![t] = s]
        /\ step' = [step EXCEPT ![t] = @ + 1]
        /\ UNCHANGED <<pc, scan>>
        /\ UNCHANGED <<allocated, freed, caller, callee, nextSibling, isOpen,
                       isSubmitted, calls, mustWait, logged, applied, multiLock,
                       count, cur, call, block, base, locks, ready, crashed>>
    BY <2>1, <1>s DEF PromoteMark, Marked
  <2>3. /\ sib \in [Regions -> (1..allocated) \union {None}]
        /\ step \in [Regions -> Nat]
    BY DEF Inv, TypeOK, ThreadTypes
  <2>4. /\ sib'[t] = s /\ step'[t] = step[t] + 1
        /\ \A u \in Regions \ {t} : sib'[u] = sib[u] /\ step'[u] = step[u]
    BY <2>2, <2>3
  <2> QED
    BY <2>2, <2>4
<1>b. base[t] \in 1..allocated /\ allocated \in Nat /\ step[t] \in Nat /\ locks[t] \in Nat
  <2>1. base[t] \in 1..allocated
    BY <1>0, Pointers DEF BasePCs
  <2> QED
    BY <2>1 DEF Inv, TypeOK, SessionTypes, ThreadTypes
<1>g. PICK f \in 1..allocated, l \in 1..allocated : RingAt(f, l) /\ base[t] \in f..l
  BY <1>b, RingOf
<1>h. f \in Nat /\ l \in Nat
  BY <1>g
<1>a. s \in f..l /\ Distance(base[t], s, l - f + 1) = step[t] /\ regionLock[r] = t
  BY <1>0, <1>g, <1>s, MarkedSession
<1>p. /\ locks[t] = l - f + 1
      /\ \A x \in f..l : Distance(base[t], x, l - f + 1) \in step[t]..(locks[t] - 1) =>
           regionLock[callee[x]] = t
      /\ \A x \in f..l : IF Distance(base[t], x, l - f + 1) < step[t]
                         THEN isRunning[x]
                         ELSE ~isRunning[x] /\ FirstIdle(callee[x])
      /\ callee[base[t]] = t /\ isSubmitted[base[t]] /\ ~Singleton(base[t])
      /\ locks[t] \in 2..(l - f + 1)
  BY <1>0, <1>g DEF Excl, PromoterOK
<1>d. ASSUME NEW x \in f..l
      PROVE  /\ Distance(base[t], x, l - f + 1) \in 0..(l - f)
             /\ Distance(base[t], x, l - f + 1) = Distance(base[t], s, l - f + 1) => x = s
  BY <1>g, <1>h, <1>a, DistanceIs
<1>z. 1..allocated \subseteq Sessions
  BY Pointers
<1>x. \A x \in f..l : x \in 1..allocated /\ x \in Sessions
  BY <1>g, <1>b, <1>z DEF RingAt
<1>c. r \in Regions /\ s \in 1..allocated
  BY <1>a, <1>x, <1>s, Pointers
<1>i. ~isRunning[s] /\ FirstIdle(r)
  <2>1. ~(Distance(base[t], s, l - f + 1) < step[t])
    BY <1>a, <1>b
  <2> QED
    BY <2>1, <1>a, <1>p, <1>s
<1>q. PICK p \in 1..Len(queue[r]) : s = queue[r][p]
  BY <1>0, <1>a, <1>g, <1>i, <1>s, RingIsThere
<1>e. queue[r] \in Seq(1..allocated) /\ 1 \in 1..Len(queue[r]) /\ queue[r] # << >>
  <2>1. queue[r] \in Seq(1..allocated)
    BY <1>c, Pointers
  <2> QED
    BY <2>1, <1>q
<1>j. \A i \in 1..Len(queue[r]) : ~isRunning[queue[r][i]]
  <2>1. ~isRunning[queue[r][1]]
    BY <1>i, <1>e DEF FirstIdle
  <2>2. \A i \in 1..Len(queue[r]) : i > 1 => ~isRunning[queue[r][i]]
    BY <1>c DEF Excl, QueueOK
  <2>3. \A i \in 1..Len(queue[r]) : i = 1 \/ i > 1
    BY <1>e
  <2> QED
    BY <2>1, <2>2, <2>3
<1>k. /\ \A q \in Regions : QueueOK(q)'
      /\ \A x \in 1..allocated' : SessionOK(x)'
      /\ FreshOK' /\ RingsOK'
      /\ isRunning'[s] /\ \A x \in Sessions : x # s => isRunning'[x] = isRunning[x]
      /\ \A q \in Regions \ {r} : queue'[q] = queue[q]
  <2>1. cur[r] = None
    <3>1. cur[r] # None => isRunning[queue[r][1]]
      BY <1>c DEF Excl, QueueOK
    <3> QED
      BY <3>1, <1>e, <1>j
  <2>2. IdleBefore(r, p)
    BY <1>j DEF IdleBefore
  <2>3. UNCHANGED <<allocated, freed, caller, callee, nextSibling, isOpen, isSubmitted, cur>>
    BY <1>0
  <2>4. /\ queue' = [queue EXCEPT ![r] = MoveToFirst(@, s)]
        /\ isRunning' = [isRunning EXCEPT ![s] = TRUE]
    BY <1>0
  <2>5. r \in Regions /\ s = queue[r][p]
    BY <1>c, <1>q
  <2>6. Promoted(r, p, s)
    BY <2>1, <2>2, <2>3, <2>4, <2>5 DEF Promoted
  <2> QED
    BY <2>5, <2>6, MoveKeeps
<1>r. RingsKept /\ \A x, y : RingAt(x, y)' <=> RingAt(x, y)
  BY <1>0, RingsUnchanged
<1>l. /\ \A q \in Regions \ {r} : regionLock'[q] = regionLock[q]
      /\ regionLock'[r] = t \/ (regionLock'[r] = None /\ s # base[t])
      /\ r # t => s # base[t]
  BY <1>0, <1>a, <1>c, <1>p, <1>s DEF Inv, TypeOK, SharedTypes
<1>o. Others(t) /\ OthersLocks(t)
  <2>1. Others(t)
    BY <1>0 DEF Others
  <2>2. OthersLocks(t)
    BY <1>0, <1>l, <1>a, <1>c DEF OthersLocks
  <2> QED
    BY <2>1, <2>2
<1>3. ASSUME NEW g \in 1..allocated', NEW m \in 1..allocated', RingAt(g, m)'
      PROVE  RingOK(g, m)'
  <2>1. RingOK(g, m) /\ RingAt(g, m)
    BY <1>0, <1>3, <1>r DEF Excl
  <2>2. CASE base[t] \notin g..m
    <3>1. s \notin g..m
      <4>1. s \in g..m => g = f /\ m = l
        BY <2>1, <1>g, <1>a, <1>b, RingUnique
      <4> QED
        BY <4>1, <2>2, <1>g
    <3>2. \A x \in g..m : x \in Sessions
      BY <2>1, <1>b, <1>z DEF RingAt
    <3>3. \A x \in g..m : isRunning'[x] <=> isRunning[x]
      BY <3>1, <3>2, <1>k
    <3> QED
      BY <3>3, <2>1, <2>2, <1>0, <1>o, RingStays
  <2>3. CASE base[t] \in g..m
    <3>1. pc'[t] = "prMark" /\ ready'[t] /\ base'[t] \in g..m
      BY <2>3, <1>0
    <3>2. ASSUME NEW u \in Regions, pc[u] = "mAppend"
          PROVE  pc'[u] = pc[u] /\ base'[u] = base[u]
      BY <3>2, <1>0
    <3> QED
      BY <3>1, <3>2, <2>1, <1>0 DEF RingOK
  <2> QED
    BY <2>2, <2>3
<1>6. LocksOK(t)'
  <2>1. LocksOK(t)
    BY DEF Excl
  <2>2. regionLock[t] = t /\ cur[t] = None
    BY <2>1, <1>0 DEF LocksOK, OwnPCs, ClientPCs
  <2>3. regionLock'[t] = t
    <3>1. CASE r = t
      <4>1. s = base[t]
        <5>1. callee[s] = callee[base[t]]
          BY <3>1, <1>p, <1>s
        <5> QED
          BY <5>1, <1>a, <1>g, RingCallees
      <4> QED
        BY <4>1, <2>2, <1>0
    <3>2. CASE r # t
      BY <3>2, <2>2, <1>l
    <3> QED
      BY <3>1, <3>2
  <2> QED
    BY <2>1, <2>2, <2>3, <1>0 DEF LocksOK, MultiPCs, OwnPCs
<1>7. BlockOK(t)'
  BY <1>0, BlockStays DEF ClientPCs, SubmitPCs
<1>8. \A u \in Regions \ {t} : LocksOK(u)' /\ BlockOK(u)' /\ AdderOK(u)' /\ PromoterOK(u)'
  <2>1. ASSUME NEW x \in 1..allocated
        PROVE  /\ isRunning[x] => isRunning'[x]
               /\ regionLock[callee[x]] \in Regions \ {t} => (isRunning'[x] <=> isRunning[x])
    BY <1>k, <1>a, <1>s, <1>z
  <2>2. \A q \in Regions : regionLock[q] \in Regions \ {t} => queue'[q] = queue[q]
    BY <1>k, <1>a
  <2> QED
    BY <2>1, <2>2, <1>0, <1>r, <1>o, OthersKept
<1>9. PromoterOK(t)'
  <2>1. step'[t] > 0 /\ step'[t] <= locks'[t] /\ pc'[t] = "prMark" /\ ready'[t]
    BY <1>0, <1>b
  <2>2. ~Searching(t)'
    BY <2>1, <1>b, <1>0 DEF Searching
  <2>3. callee'[base'[t]] = t /\ isSubmitted'[base'[t]] /\ ~Singleton(base[t])'
    BY <1>0, <1>p DEF Singleton
  <2>4. ASSUME NEW g \in 1..allocated', NEW m \in 1..allocated', RingAt(g, m)',
               base'[t] \in g..m
        PROVE  /\ locks'[t] \in 2..(m - g + 1) /\ locks'[t] = m - g + 1
               /\ sib'[t] \in g..m
               /\ Distance(base'[t], sib'[t], m - g + 1) = step'[t] - 1
               /\ \A x \in g..m : Distance(base'[t], x, m - g + 1) \in step'[t]..(locks'[t] - 1) =>
                    regionLock'[callee'[x]] = t
               /\ \A x \in g..m : IF Distance(base'[t], x, m - g + 1) < step'[t]
                                  THEN isRunning'[x]
                                  ELSE ~isRunning'[x] /\ FirstIdle(callee[x])'
    <3>1. g = f /\ m = l
      BY <2>4, <1>0, <1>r, <1>g, <1>b, RingUnique
    <3>2. Distance(base[t], s, l - f + 1) = step'[t] - 1
      BY <1>a, <1>b, <1>0
    <3>3. ASSUME NEW x \in f..l, x # s
          PROVE  /\ callee[x] \in Regions /\ callee[x] # r
                 /\ regionLock'[callee[x]] = regionLock[callee[x]]
                 /\ isRunning'[x] <=> isRunning[x]
                 /\ FirstIdle(callee[x]) => FirstIdle(callee[x])'
      <4>1. callee[x] \in Regions /\ callee[x] # r
        <5>1. callee[x] # callee[s]
          BY <3>3, <1>g, <1>a, RingCallees
        <5> QED
          BY <5>1, <1>s, <1>x, Pointers
      <4>2. isRunning'[x] <=> isRunning[x]
        BY <3>3, <1>k, <1>x
      <4>3. FirstIdle(callee[x]) => FirstIdle(callee[x])'
        <5>1. PICK q : q = callee[x]
          OBVIOUS
        <5>2. queue'[q] = queue[q] /\ queue[q] \in Seq(1..allocated)
          BY <5>1, <4>1, <1>k, Pointers
        <5>3. queue[q] # << >> =>
                /\ queue[q][1] \in Sessions /\ callee[queue[q][1]] = q
          <6>1. queue[q] # << >> => 1 \in 1..Len(queue[q])
            BY <5>2
          <6>2. QueueOK(q)
            BY <5>1, <4>1 DEF Excl
          <6> QED
            BY <6>1, <6>2, <5>2, <1>z, SeqElements DEF QueueOK
        <5>4. queue[q] # << >> => (isRunning'[queue[q][1]] <=> isRunning[queue[q][1]])
          BY <5>1, <5>3, <4>1, <1>k, <1>s
        <5>5. callee'[x] = q
          BY <5>1, <1>0
        <5> QED
          BY <5>1, <5>2, <5>4, <5>5 DEF FirstIdle
      <4> QED
        BY <4>1, <4>2, <4>3, <1>l
    <3>4. ASSUME NEW x \in f..l, Distance(base[t], x, l - f + 1) \in step'[t]..(locks'[t] - 1)
          PROVE  regionLock'[callee'[x]] = t
      <4>1. x # s
        BY <3>2, <3>4, <1>0, <1>b
      <4>2. Distance(base[t], x, l - f + 1) \in step[t]..(locks[t] - 1)
        BY <3>4, <1>0, <1>b
      <4> QED
        BY <4>1, <4>2, <3>3, <1>p, <1>0
    <3>5. ASSUME NEW x \in f..l
          PROVE  IF Distance(base[t], x, l - f + 1) < step'[t]
                 THEN isRunning'[x] ELSE ~isRunning'[x] /\ FirstIdle(callee[x])'
      <4>1. CASE x = s
        <5>1. Distance(base[t], x, l - f + 1) < step'[t]
          BY <4>1, <1>a, <1>b, <1>0
        <5> QED
          BY <5>1, <4>1, <1>k
      <4>2. CASE x # s
        <5>1. Distance(base[t], x, l - f + 1) < step'[t] <=> Distance(base[t], x, l - f + 1) < step[t]
          BY <4>2, <1>a, <1>b, <1>0, <1>d
        <5>2. CASE Distance(base[t], x, l - f + 1) < step[t]
          BY <5>1, <5>2, <4>2, <3>3, <1>p
        <5>3. CASE ~(Distance(base[t], x, l - f + 1) < step[t])
          <6>1. ~isRunning[x] /\ FirstIdle(callee[x])
            BY <5>3, <1>p
          <6> QED
            BY <6>1, <5>1, <5>3, <4>2, <3>3
        <5> QED
          BY <5>2, <5>3
      <4> QED
        BY <4>1, <4>2
    <3> QED
      BY <3>1, <3>2, <3>4, <3>5, <1>0, <1>a, <1>p
  <2> QED
    BY <2>1, <2>2, <2>3, <2>4, <1>0 DEF PromoterOK
<1>n. AdderOK(t)'
  BY <1>0, NoAdder
<1> QED
  BY <1>k, <1>n, <1>3, <1>6, <1>7, <1>8, <1>9 DEF Excl

\* The second loop of the promotion.
LEMMA PromoteMarkExcl ==
  ASSUME Inv, Excl, NEW t \in Regions, PromoteMark(t)
  PROVE  Excl'
<1> USE NoneAssumption
<1>s. PICK s, r : s = (IF step[t] = 0 THEN base[t] ELSE nextSibling[sib[t]]) /\ r = callee[s]
  OBVIOUS
<1>0. /\ pc[t] = "prMark"
      /\ UNCHANGED <<allocated, freed, caller, callee, nextSibling, isOpen,
                     isSubmitted, calls, mustWait, logged, applied, multiLock,
                     count, cur, call, block, base, locks, ready, crashed>>
  BY DEF PromoteMark
<1>b. base[t] \in 1..allocated /\ allocated \in Nat /\ step[t] \in Nat /\ locks[t] \in Nat
  <2>1. base[t] \in 1..allocated
    BY <1>0, Pointers DEF BasePCs
  <2> QED
    BY <2>1 DEF Inv, TypeOK, SessionTypes, ThreadTypes
<1>g. PICK f \in 1..allocated, l \in 1..allocated : RingAt(f, l) /\ base[t] \in f..l
  BY <1>b, RingOf
<1>p. PromoterOK(t) /\ LocksOK(t)
  BY DEF Excl
<1>r. RingsKept /\ \A x, y : RingAt(x, y)' <=> RingAt(x, y)
  BY <1>0, RingsUnchanged
<1>q. /\ callee[base[t]] = t
      /\ regionLock[t] = t /\ cur[t] = None
  BY <1>0, <1>p DEF PromoterOK, LocksOK, OwnPCs, ClientPCs
<1>1. CASE step[t] < locks[t] /\ ready[t]
  BY <1>1, MarkExcl
<1>2. CASE step[t] < locks[t] /\ ~ready[t]
  <2>0. /\ UNCHANGED <<queue, isRunning, pc, scan>>
        /\ regionLock' = IF s = base[t] THEN regionLock ELSE [regionLock EXCEPT ![r] = None]
        /\ sib' = [sib EXCEPT ![t] = s] /\ step' = [step EXCEPT ![t] = @ + 1]
    <3>1. step[t] # locks[t]
      BY <1>2, <1>b
    <3> QED
      BY <3>1, <1>2, <1>s DEF PromoteMark
  <2>1. /\ sib'[t] = s /\ step'[t] = step[t] + 1
        /\ \A u \in Regions \ {t} : sib'[u] = sib[u] /\ step'[u] = step[u]
    BY <2>0 DEF Inv, TypeOK, ThreadTypes
  <2>2. s \in f..l /\ Distance(base[t], s, l - f + 1) = step[t] /\ regionLock[r] = t
    BY <1>0, <1>2, <1>g, <1>s, MarkedSession
  <2>3. s \in 1..allocated /\ r \in Regions
    <3>1. s \in 1..allocated
      BY <2>2, <1>g, <1>b DEF RingAt
    <3> QED
      BY <3>1, <1>s, Pointers
  <2>4. /\ \A q \in Regions \ {r} : regionLock'[q] = regionLock[q]
        /\ regionLock'[t] = t
    <3>1. r = t => s = base[t]
      <4>1. r = t => callee[s] = callee[base[t]]
        BY <1>q, <1>s
      <4> QED
        BY <4>1, <2>2, <1>g, RingCallees
    <3> QED
      BY <3>1, <2>0, <2>3, <1>q DEF Inv, TypeOK, SharedTypes
  <2>5. UNCHANGED coreVars /\ Others(t) /\ OthersLocks(t)
    <3>1. UNCHANGED coreVars /\ Others(t)
      BY <2>0, <2>1, <1>0 DEF coreVars, Others
    <3>2. OthersLocks(t)
      BY <2>2, <2>3, <2>4, <1>0 DEF OthersLocks
    <3> QED
      BY <3>1, <3>2
  <2>6. LocksOK(t)'
    BY <2>0, <2>4, <1>0, <1>p, <1>q DEF LocksOK, MultiPCs, OwnPCs
  <2>7. BlockOK(t)'
    BY <2>0, <1>0, BlockStays DEF ClientPCs, SubmitPCs
  <2>8. PromoterOK(t)'
    <3>1. Searching(t)' /\ Searching(t)
      BY <2>0, <1>0, <1>2 DEF Searching
    <3>2. /\ \A i \in 1..Len(queue'[t]) : i < scan'[t] => ~isRunning'[queue'[t][i]]
          /\ scan'[t] \in 1..Len(queue'[t]) /\ base'[t] = queue'[t][scan'[t]]
          /\ ~isRunning'[base'[t]]
          /\ callee'[base'[t]] = t /\ isSubmitted'[base'[t]] /\ ~Singleton(base[t])'
      BY <3>1, <2>0, <1>0, <1>p DEF PromoterOK, Singleton
    <3>3. ASSUME NEW g \in 1..allocated', NEW m \in 1..allocated', RingAt(g, m)',
                 base'[t] \in g..m
          PROVE  /\ locks'[t] \in 2..(m - g + 1) /\ step'[t] <= locks'[t]
                 /\ step'[t] > 0 => /\ sib'[t] \in g..m
                                    /\ Distance(base'[t], sib'[t], m - g + 1) = step'[t] - 1
                 /\ \A x \in g..m : Distance(base'[t], x, m - g + 1) \in step'[t]..(locks'[t] - 1) =>
                      regionLock'[callee'[x]] = t
      <4>1. g = f /\ m = l
        BY <3>3, <1>0, <1>r, <1>g, <1>b, RingUnique
      <4>2. /\ locks[t] \in 2..(l - f + 1)
            /\ \A x \in f..l : Distance(base[t], x, l - f + 1) \in step[t]..(locks[t] - 1) =>
                 regionLock[callee[x]] = t
        BY <1>0, <1>g, <1>p DEF PromoterOK
      <4>3. step'[t] <= locks'[t] /\ Distance(base[t], s, l - f + 1) = step'[t] - 1
        BY <2>1, <2>2, <1>0, <1>2, <1>b
      <4>4. ASSUME NEW x \in f..l, Distance(base[t], x, l - f + 1) \in step'[t]..(locks'[t] - 1)
            PROVE  regionLock'[callee[x]] = t
        <5>1. x # s
          BY <4>3, <4>4, <2>1, <1>b, <1>0
        <5>2. Distance(base[t], x, l - f + 1) \in step[t]..(locks[t] - 1)
          BY <4>4, <2>1, <1>b, <1>0
        <5>3. callee[x] # callee[s]
          BY <5>1, <2>2, <1>g, RingCallees
        <5>4. callee[x] \in Regions
          <6>1. x \in 1..allocated
            BY <1>g, <1>b DEF RingAt
          <6> QED
            BY <6>1, Pointers
        <5> QED
          BY <5>2, <5>3, <5>4, <4>2, <2>4, <1>s
      <4> QED
        BY <4>1, <4>2, <4>3, <4>4, <2>1, <2>2, <1>0
    <3>4. ~ready'[t] /\ pc'[t] = "prMark"
      BY <2>0, <1>0, <1>2
    <3> QED
      BY <3>1, <3>2, <3>3, <3>4 DEF PromoterOK
  <2>9. ASSUME NEW g \in 1..allocated, NEW m \in 1..allocated, RingAt(g, m)
        PROVE  RingOK(g, m)'
    <3>1. RingOK(g, m)
      BY <2>9 DEF Excl
    <3> QED
      BY <3>1, <2>0, <1>0 DEF RingOK
  <2> QED
    BY <2>0, <2>5, <2>6, <2>7, <2>8, <2>9, <1>0, NoAdder, LocalStep
<1>3. CASE step[t] = locks[t] /\ ready[t]
  <2>0. /\ UNCHANGED <<queue, isRunning, regionLock, scan>>
        /\ sib' = [sib EXCEPT ![t] = base[t]] /\ step' = [step EXCEPT ![t] = 1]
        /\ pc' = [pc EXCEPT ![t] = "prWake"]
    BY <1>3, <1>b DEF PromoteMark
  <2>1. /\ pc'[t] = "prWake"
        /\ \A u \in Regions \ {t} : sib'[u] = sib[u] /\ step'[u] = step[u] /\ pc'[u] = pc[u]
    BY <2>0 DEF Inv, TypeOK, ThreadTypes
  <2>5. UNCHANGED coreVars /\ Others(t) /\ OthersLocks(t)
    BY <2>0, <2>1, <1>0 DEF coreVars, Others, OthersLocks
  <2>6. LocksOK(t)'
    BY <2>0, <2>1, <1>0, <1>p, <1>q DEF LocksOK, MultiPCs, OwnPCs
  <2>7. BlockOK(t)'
    BY <2>0, <2>1, <1>0, BlockStays DEF ClientPCs, SubmitPCs
  <2>9. ASSUME NEW g \in 1..allocated, NEW m \in 1..allocated, RingAt(g, m)
        PROVE  RingOK(g, m)'
    <3>1. RingOK(g, m)
      BY <2>9 DEF Excl
    <3>2. CASE base[t] \notin g..m
      BY <3>1, <3>2, <2>0, <2>5, <1>0, RingStays
    <3>3. CASE base[t] \in g..m
      <4>1. /\ locks[t] = m - g + 1
            /\ \A x \in g..m : IF Distance(base[t], x, m - g + 1) < step[t]
                               THEN isRunning[x]
                               ELSE ~isRunning[x] /\ FirstIdle(callee[x])
        BY <3>3, <2>9, <1>0, <1>3, <1>p DEF PromoterOK
      <4>2. ASSUME NEW x \in g..m PROVE isRunning[x]
        <5>1. g \in Nat /\ m \in Nat
          OBVIOUS
        <5>2. Distance(base[t], x, m - g + 1) \in 0..(m - g)
          BY <5>1, <3>3, DistanceIs
        <5>3. Distance(base[t], x, m - g + 1) < step[t]
          BY <5>1, <5>2, <4>1, <1>3
        <5> QED
          BY <5>3, <4>1
      <4>3. ASSUME NEW u \in Regions, pc[u] = "mAppend"
            PROVE  pc'[u] = pc[u] /\ base'[u] = base[u]
        BY <4>3, <2>1, <1>0
      <4> QED
        BY <4>2, <4>3, <3>1, <2>0, <1>0 DEF RingOK
    <3> QED
      BY <3>2, <3>3
  <2> QED
    BY <2>1, <2>5, <2>6, <2>7, <2>9, <1>0, NoAdder, NoPromoter, LocalStep
<1>4. CASE step[t] = locks[t] /\ ~ready[t]
  <2>0. /\ UNCHANGED <<queue, isRunning, regionLock, sib, step>>
        /\ scan' = [scan EXCEPT ![t] = @ + 1]
        /\ pc' = [pc EXCEPT ![t] = "prScan"]
    BY <1>4, <1>b DEF PromoteMark
  <2>1. /\ pc'[t] = "prScan" /\ scan'[t] = scan[t] + 1 /\ scan[t] \in Nat
        /\ \A u \in Regions \ {t} : scan'[u] = scan[u] /\ pc'[u] = pc[u]
    BY <2>0 DEF Inv, TypeOK, ThreadTypes
  <2>5. UNCHANGED coreVars /\ Others(t) /\ OthersLocks(t)
    BY <2>0, <2>1, <1>0 DEF coreVars, Others, OthersLocks
  <2>6. LocksOK(t)'
    BY <2>0, <2>1, <1>0, <1>p, <1>q DEF LocksOK, MultiPCs, OwnPCs
  <2>7. BlockOK(t)'
    BY <2>0, <2>1, <1>0, BlockStays DEF ClientPCs, SubmitPCs
  <2>8. PromoterOK(t)'
    <3>1. Searching(t) /\ ~Searching(t)'
      BY <2>1, <1>0, <1>4 DEF Searching
    <3>2. /\ \A i \in 1..Len(queue[t]) : i < scan[t] => ~isRunning[queue[t][i]]
          /\ ~isRunning[queue[t][scan[t]]]
      BY <3>1, <1>p DEF PromoterOK
    <3>3. \A i \in 1..Len(queue'[t]) : i < scan'[t] => i < scan[t] \/ i = scan[t]
      BY <2>1
    <3> QED
      BY <3>1, <3>2, <3>3, <2>0, <2>1 DEF PromoterOK
  <2>9. ASSUME NEW g \in 1..allocated, NEW m \in 1..allocated, RingAt(g, m)
        PROVE  RingOK(g, m)'
    <3>1. RingOK(g, m)
      BY <2>9 DEF Excl
    <3>2. ASSUME NEW u \in Regions, pc[u] = "mAppend" \/ (pc[u] = "prMark" /\ ready[u])
          PROVE  pc'[u] = pc[u] /\ base'[u] = base[u] /\ ready'[u] = ready[u]
      <4>1. u # t
        BY <3>2, <1>0, <1>4
      <4> QED
        BY <4>1, <2>1, <1>0
    <3> QED
      BY <3>1, <3>2, <2>0, <1>0 DEF RingOK
  <2> QED
    BY <2>1, <2>5, <2>6, <2>7, <2>8, <2>9, <1>0, NoAdder, LocalStep
<1>5. \/ step[t] < locks[t] \/ step[t] = locks[t]
  BY DEF PromoteMark
<1> QED
  BY <1>1, <1>2, <1>3, <1>4, <1>5

\* New sessions leave the rings of the others alone.
LEMMA GrownRings ==
  ASSUME Inv, NEW n \in Nat, allocated' = allocated + n,
         \A s \in 1..allocated : /\ caller'[s] = caller[s] /\ callee'[s] = callee[s]
                                /\ nextSibling'[s] = nextSibling[s]
  PROVE  RingsKept
<1>a. PICK a : a = allocated
  OBVIOUS
<1>m. a \in Nat /\ n \in Nat
  BY <1>a DEF Inv, TypeOK, SessionTypes
<1>0. allocated' = a + n
  BY <1>a
<1>o. \A s \in 1..a : /\ caller'[s] = caller[s] /\ callee'[s] = callee[s]
                      /\ nextSibling'[s] = nextSibling[s]
  BY <1>a
<1>h. ASSUME NEW f, NEW l, NEW s \in 1..a, s \in f..l
      PROVE  RingAt(f, l)' <=> RingAt(f, l)
  <2>1. ASSUME RingAt(f, l) PROVE RingAt(f, l)'
    <3>1. f \in 1..a /\ l \in f..a /\ l \in 1..a /\ f \in Nat /\ l \in Nat
      BY <2>1, <1>a, <1>m DEF RingAt
    <3>2. f \in 1..allocated' /\ l \in f..allocated' /\ \A x \in f..l : x \in 1..a
      BY <3>1, <1>0, <1>m
    <3>3. \A x \in f..(l - 1) : x \in f..l
      BY <3>1
    <3>4. nextSibling'[l] = f
      BY <3>1, <2>1, <1>o DEF RingAt
    <3>5. \A x \in f..(l - 1) : nextSibling'[x] = x + 1
      BY <3>2, <3>3, <2>1, <1>o DEF RingAt
    <3>6. \A x, y \in f..l : caller'[x] = caller'[y] /\ (callee'[x] = callee'[y] => x = y)
      BY <3>2, <2>1, <1>o DEF RingAt
    <3> QED
      BY <3>2, <3>4, <3>5, <3>6 DEF RingAt
  <2>2. ASSUME RingAt(f, l)' PROVE RingAt(f, l)
    <3>1. f \in 1..(a + n) /\ l \in f..(a + n) /\ f \in Nat /\ l \in Nat /\ f <= s /\ s <= a
      BY <2>2, <1>h, <1>0, <1>m DEF RingAt
    <3>2. l <= a
      <4>1. ASSUME l > a PROVE FALSE
        <5>1. a \in f..(l - 1) /\ a \in 1..a
          BY <4>1, <3>1, <1>m
        <5>2. nextSibling'[a] = a + 1
          BY <5>1, <2>2 DEF RingAt
        <5>3. nextSibling[a] \in 1..a
          BY <5>1, <1>a DEF Inv, TypeOK, SessionTypes
        <5> QED
          BY <5>1, <5>2, <5>3, <1>o, <1>m
      <4> QED
        BY <4>1, <3>1, <1>m
    <3>3. f \in 1..a /\ l \in f..a /\ l \in 1..a /\ \A x \in f..l : x \in 1..a
      BY <3>1, <3>2, <1>m
    <3>4. \A x \in f..(l - 1) : x \in f..l
      BY <3>1
    <3>5. nextSibling[l] = f
      BY <3>3, <2>2, <1>o DEF RingAt
    <3>6. \A x \in f..(l - 1) : nextSibling[x] = x + 1
      BY <3>3, <3>4, <2>2, <1>o DEF RingAt
    <3>7. \A x, y \in f..l : caller[x] = caller[y] /\ (callee[x] = callee[y] => x = y)
      BY <3>3, <2>2, <1>o DEF RingAt
    <3> QED
      BY <3>3, <3>5, <3>6, <3>7, <1>a DEF RingAt
  <2> QED
    BY <2>1, <2>2
<1>1. 1..allocated \subseteq 1..allocated'
  BY <1>0, <1>a, <1>m
<1> QED
  BY <1>1, <1>h, <1>o, <1>a DEF RingsKept

\* A feature opens one session per separate argument: a new ring.
LEMMA OpenBlockExcl ==
  ASSUME Inv, Excl, NEW t \in Regions, OpenBlock(t)
  PROVE  Excl'
<1> USE NoneAssumption, BoundsAssumption
<1>b. PICK b \in Blocks[t] : OpenSessions(t, b)
  BY DEF OpenBlock
<1>n. PICK n : n = Len(b)
  OBVIOUS
<1>a. PICK a : a = allocated
  OBVIOUS
<1>0. /\ pc[t] = "body" /\ block[t] = << >>
      /\ a + n <= MaxSessions /\ allocated' = a + n
      /\ callee' = [s \in Sessions |-> IF s \in (a + 1)..(a + n) THEN b[s - a] ELSE callee[s]]
      /\ caller' = [s \in Sessions |-> IF s \in (a + 1)..(a + n) THEN t ELSE caller[s]]
      /\ nextSibling' = [s \in Sessions |->
                           IF s \in (a + 1)..(a + n) THEN NextInRing(s, n) ELSE nextSibling[s]]
      /\ isOpen' = [s \in Sessions |-> s \in (a + 1)..(a + n) \/ isOpen[s]]
      /\ block' = [block EXCEPT ![t] = [i \in 1..n |-> a + i]]
      /\ UNCHANGED <<freed, isSubmitted, isRunning, calls, mustWait, logged,
                     applied, queue, regionLock, multiLock, count, pc, cur,
                     call, base, sib, locks, step, ready, scan, crashed>>
  BY <1>b, <1>n, <1>a DEF OpenBlock, OpenSessions
<1>m. /\ n \in Nat /\ n > 0 /\ a \in Nat /\ MaxSessions \in Nat
      /\ \A i, j \in 1..n : b[i] = b[j] => i = j
  <2>1. /\ b \in Seq(Regions \ {t}) /\ b # << >>
        /\ \A i, j \in 1..Len(b) : b[i] = b[j] => i = j
    BY BlocksAssumption
  <2>2. Len(b) \in Nat /\ Len(b) > 0
    BY <2>1
  <2>3. a \in Nat /\ MaxSessions \in Nat
    BY <1>a DEF Inv, TypeOK, SessionTypes
  <2> QED
    BY <2>1, <2>2, <2>3, <1>n
<1>c. /\ \A s \in 1..a : s \in Sessions /\ s \notin (a + 1)..(a + n) /\ s \in 1..(a + n)
      /\ \A s \in (a + 1)..(a + n) : s \in Sessions /\ s - a \in 1..n /\ s > a
      /\ \A s \in 1..(a + n) : s \in 1..a \/ s \in (a + 1)..(a + n)
  BY <1>0, <1>m DEF Sessions
<1>o. \A s \in 1..a : /\ callee'[s] = callee[s] /\ caller'[s] = caller[s]
                      /\ nextSibling'[s] = nextSibling[s] /\ (isOpen'[s] <=> isOpen[s])
  BY <1>0, <1>c
<1>w. \A s \in (a + 1)..(a + n) :
         /\ callee'[s] = b[s - a] /\ caller'[s] = t /\ isOpen'[s]
         /\ nextSibling'[s] = IF s = a + n THEN a + 1 ELSE s + 1
  BY <1>0, <1>c, <1>a DEF NextInRing
<1>k. block'[t] = [i \in 1..n |-> a + i] /\ \A u \in Regions \ {t} : block'[u] = block[u]
  BY <1>0 DEF Inv, TypeOK, ThreadTypes
<1>g. RingAt(a + 1, a + n)'
  <2>0. PICK f, l : f = a + 1 /\ l = a + n
    OBVIOUS
  <2>1. f \in 1..allocated' /\ l \in f..allocated'
    BY <2>0, <1>0, <1>m
  <2>2. nextSibling'[l] = f
    BY <2>0, <1>w, <1>m
  <2>3. ASSUME NEW s \in f..(l - 1) PROVE nextSibling'[s] = s + 1
    <3>1. s \in (a + 1)..(a + n) /\ s # a + n
      BY <2>0, <1>m
    <3> QED
      BY <3>1, <1>w
  <2>4. ASSUME NEW x \in f..l, NEW y \in f..l
        PROVE  caller'[x] = caller'[y] /\ (callee'[x] = callee'[y] => x = y)
    <3>1. x \in (a + 1)..(a + n) /\ y \in (a + 1)..(a + n)
      BY <2>0
    <3>2. callee'[x] = callee'[y] => x - a = y - a
      BY <3>1, <1>w, <1>c, <1>m
    <3> QED
      BY <3>1, <3>2, <1>w, <1>m
  <2>5. RingAt(f, l)'
    BY <2>1, <2>2, <2>3, <2>4 DEF RingAt
  <2> QED
    BY <2>0, <2>5
<1>r. RingsKept
  BY <1>0, <1>a, <1>m, <1>o, GrownRings
<1>h. ASSUME NEW f, NEW l, NEW s \in 1..a, s \in f..l
      PROVE  RingAt(f, l)' <=> RingAt(f, l)
  BY <1>h, <1>a, <1>r DEF RingsKept
<1>v. Others(t) /\ OthersLocks(t)
  BY <1>0, <1>k DEF Others, OthersLocks
<1>1. RingsOK'
  <2>1. ASSUME NEW s \in 1..allocated'
        PROVE  \E f, l \in 1..allocated' : RingAt(f, l)' /\ s \in f..l
    <3>1. CASE s \in 1..a
      <4>1. PICK f \in 1..allocated, l \in 1..allocated : RingAt(f, l) /\ s \in f..l
        BY <3>1, <1>a, RingOf
      <4>2. RingAt(f, l)' /\ f \in 1..allocated' /\ l \in 1..allocated'
        BY <4>1, <3>1, <1>h, <1>c, <1>0, <1>a
      <4> QED
        BY <4>1, <4>2
    <3>2. CASE s \in (a + 1)..(a + n)
      <4>1. a + 1 \in 1..allocated' /\ a + n \in 1..allocated'
        BY <1>0, <1>m
      <4> QED
        BY <4>1, <3>2, <1>g
    <3> QED
      BY <3>1, <3>2, <1>c, <1>0
  <2> QED
    BY <2>1 DEF RingsOK
<1>2. FreshOK'
  <2>1. \A s \in Sessions : s > allocated' => s > allocated
    BY <1>0, <1>a, <1>m DEF Sessions
  <2> QED
    BY <2>1, <1>0 DEF Excl, FreshOK
<1>3. ASSUME NEW f \in 1..allocated', NEW l \in 1..allocated', RingAt(f, l)'
      PROVE  RingOK(f, l)'
  <2>1. CASE f \in 1..a
    <3>1. f \in f..l
      BY <1>3 DEF RingAt
    <3>2. RingAt(f, l)
      BY <3>1, <2>1, <1>3, <1>h
    <3>3. RingOK(f, l)
      BY <3>2, <2>1, <1>a DEF Excl, RingAt
    <3> QED
      BY <3>3, <1>0, <1>v, RingStays
  <2>2. CASE f \in (a + 1)..(a + n)
    <3>1. ASSUME NEW x \in f..l PROVE ~isSubmitted[x] /\ ~isRunning[x]
      <4>1. x \in Sessions /\ x > a
        <5>1. x \in (a + 1)..(a + n)
          BY <2>2, <1>3, <1>0, <1>m
        <5> QED
          BY <5>1, <1>c
      <4> QED
        BY <4>1, <1>a DEF Excl, FreshOK
    <3> QED
      BY <3>1, <1>0 DEF RingOK
  <2> QED
    BY <2>1, <2>2, <1>c, <1>0
<1>4. ASSUME NEW r \in Regions PROVE QueueOK(r)'
  <2>1. QueueOK(r) /\ queue[r] \in Seq(1..allocated)
    BY Pointers DEF Excl
  <2>2. \A i \in 1..Len(queue[r]) : callee'[queue[r][i]] = callee[queue[r][i]]
    BY <2>1, <1>o, <1>a, SeqElements
  <2> QED
    BY <2>1, <2>2, <1>0 DEF QueueOK
<1>5. ASSUME NEW x \in 1..allocated' PROVE SessionOK(x)'
  <2>1. CASE x \in 1..a
    <3>1. SessionOK(x)
      BY <2>1, <1>a DEF Excl
    <3> QED
      BY <3>1, <2>1, <1>o, <1>0 DEF SessionOK
  <2>2. CASE x \in (a + 1)..(a + n)
    <3>1. ~isSubmitted[x] /\ ~isRunning[x] /\ x \notin freed
      BY <2>2, <1>c, <1>a DEF Excl, FreshOK
    <3> QED
      BY <3>1, <1>0 DEF SessionOK
  <2> QED
    BY <2>1, <2>2, <1>c, <1>0
<1>6. LocksOK(t)'
  <2>1. LocksOK(t)
    BY DEF Excl
  <2> QED
    BY <2>1, <1>0 DEF LocksOK, MultiPCs, OwnPCs, ClientPCs
<1>7. BlockOK(t)'
  <2>1. Len(block'[t]) = n /\ \A i \in 1..n : block'[t][i] = a + i
    BY <1>k, <1>m
  <2>2. EndOfRing(block'[t], a + 1, a + n) /\ Len(block'[t]) = (a + n) - (a + 1) + 1
    BY <2>1, <1>m DEF EndOfRing
  <2>3. \A i \in 1..Len(block'[t]) : isOpen'[block'[t][i]]
    <3>1. \A i \in 1..n : a + i \in (a + 1)..(a + n)
      BY <1>m
    <3> QED
      BY <3>1, <2>1, <1>w
  <2>4. caller'[a + 1] = t /\ a + 1 \in 1..allocated' /\ a + n \in 1..allocated'
    <3>1. a + 1 \in (a + 1)..(a + n) /\ a + 1 \in 1..allocated' /\ a + n \in 1..allocated'
      BY <1>m, <1>0
    <3> QED
      BY <3>1, <1>w
  <2>5. pc'[t] = "body"
    BY <1>0
  <2> QED
    BY <2>2, <2>3, <2>4, <2>5, <1>g DEF BlockOK
<1>8. \A u \in Regions \ {t} : LocksOK(u)' /\ BlockOK(u)' /\ AdderOK(u)' /\ PromoterOK(u)'
  BY <1>0, <1>o, <1>a, <1>r, <1>v, OthersKept
<1>9. AdderOK(t)' /\ PromoterOK(t)'
  BY <1>0, NoAdder, NoPromoter
<1> QED
  BY <1>1, <1>2, <1>3, <1>4, <1>5, <1>6, <1>7, <1>8, <1>9 DEF Excl

-----------------------------------------------------------------------------
(* The invariant. *)

\* It holds at the start.
LEMMA InitExcl == Init => Excl
<1> SUFFICES ASSUME Init PROVE Excl
  OBVIOUS
<1> USE NoneAssumption, BoundsAssumption
<1>e. allocated = 0 /\ 1..allocated = {}
  BY DEF Init
<1>1. RingsOK /\ FreshOK
  BY <1>e DEF Init, RingsOK, FreshOK
<1>2. \A f, l \in 1..allocated : RingAt(f, l) => RingOK(f, l)
  BY <1>e
<1>3. ASSUME NEW r \in Regions PROVE QueueOK(r)
  <2>1. queue[r] = << >> /\ cur[r] = None
    BY DEF Init
  <2> QED
    BY <2>1 DEF QueueOK, Distinct
<1>4. \A s \in 1..allocated : SessionOK(s)
  BY <1>e
<1>5. ASSUME NEW t \in Regions PROVE LocksOK(t) /\ BlockOK(t) /\ AdderOK(t) /\ PromoterOK(t)
  <2>1. /\ pc[t] \in {"body", "iterate"} /\ multiLock = None /\ cur[t] = None
        /\ block[t] = << >>
    BY DEF Init
  <2>2. LocksOK(t)
    BY <2>1 DEF LocksOK, MultiPCs, OwnPCs
  <2>3. BlockOK(t)
    BY <2>1 DEF BlockOK, ClientPCs
  <2>4. AdderOK(t) /\ PromoterOK(t)
    BY <2>1 DEF AdderOK, PromoterOK, Searching
  <2> QED
    BY <2>2, <2>3, <2>4
<1> QED
  BY <1>1, <1>2, <1>3, <1>4, <1>5 DEF Excl

\* Every step keeps it.
LEMMA NextExcl == Inv /\ Excl /\ [Next]_vars => Excl'
<1> SUFFICES ASSUME Inv, Excl, [Next]_vars PROVE Excl'
  OBVIOUS
<1>1. CASE UNCHANGED vars
  BY <1>1, QuietExcl DEF vars
<1>2. CASE Terminated
  BY <1>2, QuietExcl DEF Terminated, vars
<1>3. ASSUME NEW t \in Regions, Client(t) PROVE Excl'
  BY <1>3, OpenBlockExcl, AddCallExcl, CountSessionExcl, AppendSessionExcl,
     LockMultisessionsExcl, LockCalleeExcl, AppendSiblingExcl, WakeCalleeExcl,
     SyncReturnExcl, CloseSessionExcl
  DEF Client
<1>4. ASSUME NEW t \in Regions, Server(t) PROVE Excl'
  BY <1>4, IterateExcl, RecheckExcl, IdleExcl, SleepExcl, TimeoutExcl, NextCallExcl,
     EndSessionExcl, EndBodyExcl, RemoveSessionExcl, DecrementCountExcl, WakeMainExcl
  DEF Server
<1>5. ASSUME NEW t \in Regions, PromoteFault(t) PROVE Excl'
  BY <1>5, QuietExcl DEF PromoteFault
<1>6. ASSUME NEW t \in Regions, Promote(t) PROVE Excl'
  BY <1>5, <1>6, PromoteLockExcl, PromoteRegionExcl, PromoteScanExcl, PromoteSiblingExcl,
     PromoteMarkExcl, PromoteWakeExcl, PromoteDoneExcl
  DEF Promote
<1> QED
  BY <1>1, <1>2, <1>3, <1>4, <1>6 DEF Next, Thread

\* The invariant of exclusive access.
LEMMA SpecExcl == Spec => [](Inv /\ Excl)
<1>1. Init => Inv /\ Excl
  BY InitInv, InitExcl
<1>2. (Inv /\ Excl) /\ [Next]_vars => (Inv /\ Excl)'
  BY NextInv, NextExcl
<1> QED
  BY <1>1, <1>2, PTL DEF Spec

-----------------------------------------------------------------------------
(* Theorems. *)

\* Only the first session of a region can be running, and the processor of the
\* region executes no other, whoever submits and promotes sessions meanwhile.
THEOREM SpecOnlyFirstRuns == Spec => []OnlyFirstRuns
<1>1. Inv /\ Excl => OnlyFirstRuns
  <2> SUFFICES ASSUME Inv, Excl, NEW r \in Regions
               PROVE  /\ \A i \in 2..Len(queue[r]) : ~isRunning[queue[r][i]]
                      /\ cur[r] # None => queue[r] # << >> /\ Head(queue[r]) = cur[r]
    BY DEF OnlyFirstRuns
  <2>1. queue[r] \in Seq(1..allocated) /\ QueueOK(r)
    BY Pointers DEF Excl
  <2>2. \A i \in 2..Len(queue[r]) : i \in 1..Len(queue[r]) /\ i > 1
    BY <2>1
  <2>3. \A i \in 2..Len(queue[r]) : ~isRunning[queue[r][i]]
    BY <2>1, <2>2 DEF QueueOK
  <2>4. cur[r] # None => queue[r] # << >>
    BY DEF Inv, LocalsSet
  <2>5. queue[r] # << >> => Head(queue[r]) = queue[r][1]
    BY <2>1, SeqTail
  <2> QED
    BY <2>1, <2>3, <2>4, <2>5 DEF QueueOK
<1> QED
  BY <1>1, SpecExcl, PTL

\* GE_promote_scoop_session finds the siblings of the session it promotes in the
\* queues of their regions, so it dereferences no null first_session.
THEOREM SpecRingIsQueued == Spec => []RingIsQueued
<1>1. Inv /\ Excl => RingIsQueued
  <2> SUFFICES ASSUME Inv, Excl, NEW t \in Regions, pc[t] = "prSibling"
               PROVE  /\ sib[t] \notin freed
                      /\ \E i \in 1..Len(queue[callee[sib[t]]]) : queue[callee[sib[t]]][i] = sib[t]
    BY DEF RingIsQueued
  <2>1. base[t] \in 1..allocated
    BY Pointers DEF BasePCs
  <2>2. PICK f \in 1..allocated, l \in 1..allocated : RingAt(f, l) /\ base[t] \in f..l
    BY <2>1, RingOf
  <2>3. sib[t] \in f..l
    BY <2>2 DEF Excl, PromoterOK
  <2>4. ~isRunning[sib[t]]
    BY <2>2, <2>3, RingIsIdle
  <2>5. pc[t] \in {"prSibling", "prMark"}
    OBVIOUS
  <2> QED
    BY <2>2, <2>3, <2>4, <2>5, RingIsThere
<1> QED
  BY <1>1, SpecExcl, PTL

\* First, Last and Ring are the ring of a session.
LEMMA RingIs ==
  ASSUME Inv, Excl, NEW f, NEW l, RingAt(f, l), NEW s \in f..l
  PROVE  First(s) = f /\ Last(s) = l /\ Ring(s) = f..l
<1>0. /\ f \in Nat /\ l \in Nat /\ s \in Nat /\ allocated \in Nat /\ l \in s..allocated
      /\ f <= s /\ nextSibling[l] = f
  BY DEF RingAt, Inv, TypeOK, SessionTypes
<1>1. ASSUME NEW k \in s..allocated, nextSibling[k] <= s PROVE k = l
  <2>1. CASE k < l
    <3>1. k \in f..(l - 1)
      BY <2>1, <1>0
    <3>2. nextSibling[k] = k + 1
      BY <3>1 DEF RingAt
    <3> QED
      BY <3>2, <1>0, <1>1
  <2>2. CASE k > l
    <3>1. k \in 1..allocated
      BY <1>0 DEF RingAt
    <3>2. PICK g \in 1..allocated, m \in 1..allocated : RingAt(g, m) /\ k \in g..m
      BY <3>1, RingOf
    <3>3. nextSibling[k] \in g..m
      BY <3>2, <1>0, NextIs
    <3>4. s \in g..m
      BY <3>2, <3>3, <1>0, <1>1
    <3>5. l = m
      BY <3>2, <3>4, <1>0, RingUnique
    <3> QED
      BY <3>2, <3>5, <2>2, <1>0
  <2> QED
    BY <2>1, <2>2, <1>0
<1>2. Last(s) = l
  BY <1>0, <1>1 DEF Last
<1>3. First(s) = f
  BY <1>0, <1>2 DEF First
<1> QED
  BY <1>2, <1>3 DEF Ring

\* The regions of a feature with several separate arguments are acquired atomically:
\* while one of its sessions is executed, no processor of the regions of its
\* unfinished siblings executes anything else.
THEOREM SpecAtomicAccess == Spec => []AtomicAccess
<1>1. Inv /\ Excl => AtomicAccess
  <2> SUFFICES ASSUME Inv, Excl, NEW t \in Regions, cur[t] # None,
                      NEW x \in Ring(cur[t]) \ freed, cur[callee[x]] # None
               PROVE  cur[callee[x]] = x
    BY DEF AtomicAccess
  <2>s. PICK s : s = cur[t]
    OBVIOUS
  <2>1. s \in 1..allocated /\ isRunning[s]
    BY <2>s, Pointers DEF Excl, QueueOK
  <2>2. PICK f \in 1..allocated, l \in 1..allocated : RingAt(f, l) /\ s \in f..l
    BY <2>1, RingOf
  <2>3. Ring(s) = f..l
    BY <2>2, RingIs
  <2>4. x \in f..l /\ x \notin freed
    BY <2>3, <2>s
  <2>5. x \in 1..allocated /\ callee[x] \in Regions
    <3>1. x \in 1..allocated
      BY <2>2, <2>4 DEF RingAt, Inv, TypeOK, SessionTypes
    <3> QED
      BY <3>1, Pointers
  <2>r. PICK r : r = callee[x]
    OBVIOUS
  <2>q. /\ r \in Regions /\ cur[r] = queue[r][1] /\ isRunning[cur[r]] /\ queue[r] # << >>
        /\ queue[r] \in Seq(1..allocated)
    BY <2>r, <2>5, Pointers DEF Excl, QueueOK, Inv, LocalsSet
  <2>6. CASE isRunning[x]
    <3>1. PICK i \in 1..Len(queue[r]) : queue[r][i] = x
      BY <2>4, <2>5, <2>6, <2>r DEF Excl, SessionOK
    <3>2. ~(i > 1)
      BY <3>1, <2>6, <2>q DEF Excl, QueueOK
    <3>3. i = 1
      BY <3>1, <3>2, <2>q
    <3> QED
      BY <3>1, <3>3, <2>q, <2>r
  <2>7. CASE ~isRunning[x]
    <3>1. PICK u \in Regions : pc[u] = "prMark" /\ ready[u] /\ base[u] \in f..l
      BY <2>1, <2>2, <2>4, <2>7 DEF Excl, RingOK
    <3>2. IF Distance(base[u], x, l - f + 1) < step[u]
          THEN isRunning[x] ELSE ~isRunning[x] /\ FirstIdle(callee[x])
      BY <3>1, <2>2, <2>4 DEF Excl, PromoterOK
    <3>3. FirstIdle(r)
      BY <3>2, <2>7, <2>r
    <3> QED
      BY <3>3, <2>q DEF FirstIdle
  <2> QED
    BY <2>6, <2>7
<1> QED
  BY <1>1, SpecExcl, PTL
=============================================================================
