----------------------- MODULE ScoopAccess_proofs -----------------------
(***************************************************************************)
(* What follows from the invariant of exclusive access of                  *)
(* ScoopSessions_proofs, each part with what it adds to that invariant:    *)
(*   - ScoopSessions implements ExclusiveAccess (Marks);                   *)
(*   - a processor sleeps over no session that stands alone (Naps);        *)
(*   - a processor exits only when nothing is left to do (Counts);         *)
(*   - features with one separate argument are served in the order of      *)
(*     their calls (Ledger, Lines).                                        *)
(***************************************************************************)
EXTENDS ScoopSessions_proofs, FiniteSetTheorems

-----------------------------------------------------------------------------
(***************************************************************************)
(* The refinement: ScoopSessions implements ExclusiveAccess.               *)
(*                                                                         *)
(* The abstract state is a function of the rings: what a request needs,    *)
(* whether it was granted, and the holder of a region, which is the one    *)
(* granted request that needs it (HoldIs).  So a step of ScoopSessions is  *)
(* a step of ExclusiveAccess as soon as need and granted change as that    *)
(* step says: the holders follow, and so does that a region is granted to  *)
(* nobody twice.                                                           *)
(***************************************************************************)

\* While a multisession is marked, the first session of the promoting processor
\* stays where it is, and the regions of the other sessions that were marked are
\* released.
MarkOK(t) ==
  pc[t] = "prMark" /\ ready[t] /\ step[t] > 0 =>
    /\ base[t] \notin freed
    /\ \A f, l \in 1..allocated : RingAt(f, l) /\ base[t] \in f..l =>
         \A x \in f..l : x # base[t] /\ Distance(base[t], x, l - f + 1) < step[t] =>
           regionLock[callee[x]] # t

Marks == \A t \in Regions : MarkOK(t)

\* All the sessions of a ring were submitted.
Complete(f, l) == \A x \in f..l : isSubmitted[x]

\* The abstract state, ring by ring.
NeedIs ==
  /\ \A f, l : RingAt(f, l) =>
       /\ f \in Sessions
       /\ Needed[f] = IF Complete(f, l) THEN {callee[x] : x \in (f..l) \ freed} ELSE {}
       /\ f \in Granted <=> \E x \in f..l : isRunning[x]
  /\ \A q \in Sessions : (\A l : ~RingAt(q, l)) => Needed[q] = {} /\ q \notin Granted
  /\ Granted \subseteq Sessions

\* A region is held by the granted request that needs it.
HoldIs ==
  \A r \in Regions :
    /\ Holding[r] # None => Holding[r] \in Granted /\ r \in Needed[Holding[r]]
    /\ \A q \in Granted : r \in Needed[q] => Holding[r] = q

-----------------------------------------------------------------------------
(* The abstract state. *)

\* A request is a ring.
LEMMA NeedFacts == Inv /\ Excl => NeedIs
<1> SUFFICES ASSUME Inv, Excl PROVE NeedIs
  OBVIOUS
<1>a. allocated \in Nat /\ MaxSessions \in Nat /\ allocated <= MaxSessions
  BY BoundsAssumption DEF Inv, TypeOK, SessionTypes
<1>1. ASSUME NEW f, NEW l, RingAt(f, l)
      PROVE  /\ f \in Sessions
             /\ Needed[f] = IF Complete(f, l) THEN {callee[x] : x \in (f..l) \ freed} ELSE {}
             /\ f \in Granted <=> \E x \in f..l : isRunning[x]
  <2>1. f \in 1..allocated /\ f \in f..l /\ f \in Sessions /\ f <= allocated
    BY <1>1, <1>a DEF RingAt, Sessions
  <2>2. First(f) = f /\ Ring(f) = f..l
    BY <1>1, <2>1, RingIs
  <2> QED
    BY <2>1, <2>2 DEF Needed, Granted, Complete
<1>2. ASSUME NEW q \in Sessions, \A l : ~RingAt(q, l)
      PROVE  Needed[q] = {} /\ q \notin Granted
  <2>1. ~(q <= allocated /\ First(q) = q)
    <3> SUFFICES ASSUME q <= allocated, First(q) = q PROVE FALSE
      OBVIOUS
    <3>1. q \in 1..allocated
      BY <1>a DEF Sessions
    <3>2. PICK f \in 1..allocated, l \in 1..allocated : RingAt(f, l) /\ q \in f..l
      BY <3>1, RingOf
    <3>3. First(q) = f
      BY <3>2, RingIs
    <3> QED
      BY <3>2, <3>3, <1>2
  <2>2. q \in 1..allocated => q <= allocated
    BY <1>a
  <2> QED
    BY <2>1, <2>2 DEF Needed, Granted
<1>3. Granted \subseteq Sessions
  BY <1>a DEF Granted, Sessions
<1> QED
  BY <1>1, <1>2, <1>3 DEF NeedIs

\* The same of the state after a step.
LEMMA NeedFactsNext == Inv' /\ Excl' => NeedIs'
BY NeedFacts, PTL

\* Once a session of a ring is running, all of them were submitted.
LEMMA RunningIsComplete ==
  ASSUME Inv, Excl, NEW f, NEW l, RingAt(f, l), NEW x \in f..l, isRunning[x]
  PROVE  Complete(f, l)
<1> SUFFICES ASSUME NEW y \in f..l, ~isSubmitted[y] PROVE FALSE
  BY DEF Complete
<1>0. f \in 1..allocated /\ l \in 1..allocated /\ x \in 1..allocated /\ y \in 1..allocated
  BY DEF RingAt, Inv, TypeOK, SessionTypes
<1>1. isSubmitted[x] /\ ~isRunning[y]
  BY <1>0 DEF Excl, SessionOK
<1>2. PICK u \in Regions : pc[u] = "prMark"
  BY <1>0, <1>1 DEF Excl, RingOK
<1>3. PICK v \in Regions : pc[v] = "mAppend"
  BY <1>0, <1>1 DEF Excl, RingOK
<1>4. multiLock = u /\ multiLock = v
  BY <1>2, <1>3 DEF Excl, LocksOK, MultiPCs
<1> QED
  BY <1>2, <1>3, <1>4

\* A session that is running and was not removed is the first of its region.
LEMMA RunningIsFirst ==
  ASSUME Inv, Excl, NEW x \in 1..allocated, isRunning[x], x \notin freed
  PROVE  /\ callee[x] \in Regions /\ queue[callee[x]] # << >>
         /\ Head(queue[callee[x]]) = x
<1>r. PICK r : r = callee[x]
  OBVIOUS
<1>0. r \in Regions /\ queue[r] \in Seq(1..allocated)
  BY <1>r, MainAssumption, Pointers
<1>1. PICK i \in 1..Len(queue[r]) : queue[r][i] = x
  BY <1>r DEF Excl, SessionOK
<1>2. i = 1
  <2>1. ~(i > 1)
    BY <1>0, <1>1 DEF Excl, QueueOK
  <2> QED
    BY <2>1, <1>0
<1>3. queue[r] # << >>
  BY <1>0, <1>1
<1>4. Head(queue[r]) = queue[r][1]
  BY <1>0, <1>3, SeqTail
<1> QED
  BY <1>0, <1>1, <1>2, <1>3, <1>4, <1>r

\* A region that is neither running a session nor waiting to be marked is free.
LEMMA HoldingOf ==
  ASSUME NEW r \in Regions
  PROVE  /\ queue[r] # << >> /\ isRunning[Head(queue[r])] =>
              Holding[r] = First(Head(queue[r]))
         /\ ~(queue[r] # << >> /\ isRunning[Head(queue[r])]) =>
              /\ (\A u \in Regions : ~MarkedNext(u, r)) => Holding[r] = None
              /\ \A u \in Regions :
                   MarkedNext(u, r) /\ (\A v \in Regions : MarkedNext(v, r) => v = u) =>
                     Holding[r] = First(base[u])
<1> DEFINE c == CHOOSE u \in Regions : MarkedNext(u, r)
<1>1. Holding[r] = IF queue[r] # << >> /\ isRunning[Head(queue[r])]
                   THEN First(Head(queue[r]))
                   ELSE IF \E u \in Regions : MarkedNext(u, r) THEN First(base[c]) ELSE None
  BY DEF Holding
<1>2. ASSUME NEW u \in Regions, MarkedNext(u, r), \A v \in Regions : MarkedNext(v, r) => v = u
      PROVE  c = u
  BY <1>2
<1> QED
  BY <1>1, <1>2

\* Only one processor marks a multisession.
LEMMA OneMarker ==
  ASSUME Inv, Excl, NEW u \in Regions, pc[u] = "prMark", NEW v \in Regions, pc[v] = "prMark"
  PROVE  u = v
<1>1. multiLock = u /\ multiLock = v
  BY DEF Excl, LocksOK, MultiPCs
<1> QED
  BY <1>1

\* The sessions of a ring that are not marked yet are those whose regions are locked
\* by the processor that marks them.
LEMMA MarkerRing ==
  ASSUME Inv, Excl, Marks, NEW u \in Regions, pc[u] = "prMark", ready[u], step[u] > 0,
         NEW f, NEW l, RingAt(f, l), base[u] \in f..l, NEW x \in f..l
  PROVE  /\ isRunning[base[u]] /\ base[u] \notin freed /\ callee[base[u]] = u
         /\ ~isRunning[x] => /\ regionLock[callee[x]] = u /\ FirstIdle(callee[x])
                             /\ x \notin freed
         /\ isRunning[x] /\ x # base[u] => regionLock[callee[x]] # u
<1>0. /\ f \in 1..allocated /\ l \in 1..allocated /\ f \in Nat /\ l \in Nat
      /\ step[u] \in Nat /\ locks[u] \in Nat /\ x \in 1..allocated
  BY DEF RingAt, Inv, TypeOK, SessionTypes, ThreadTypes
<1>1. /\ Distance(base[u], base[u], l - f + 1) = 0
      /\ Distance(base[u], x, l - f + 1) \in 0..(l - f)
  BY <1>0, DistanceIs
<1>2. /\ locks[u] = l - f + 1
      /\ \A y \in f..l : Distance(base[u], y, l - f + 1) \in step[u]..(locks[u] - 1) =>
           regionLock[callee[y]] = u
      /\ \A y \in f..l : IF Distance(base[u], y, l - f + 1) < step[u]
                         THEN isRunning[y]
                         ELSE ~isRunning[y] /\ FirstIdle(callee[y])
      /\ callee[base[u]] = u
  BY <1>0 DEF Excl, PromoterOK
<1>3. isRunning[base[u]] /\ base[u] \notin freed
  BY <1>0, <1>1, <1>2 DEF Marks, MarkOK
<1>4. ASSUME ~isRunning[x]
      PROVE  regionLock[callee[x]] = u /\ FirstIdle(callee[x]) /\ x \notin freed
  <2>1. ~(Distance(base[u], x, l - f + 1) < step[u]) /\ FirstIdle(callee[x])
    BY <1>2, <1>4
  <2>2. Distance(base[u], x, l - f + 1) \in step[u]..(locks[u] - 1)
    BY <2>1, <1>0, <1>1, <1>2
  <2>3. pc[u] \in {"prSibling", "prMark"}
    OBVIOUS
  <2>4. x \notin freed
    BY <2>3, <1>0, <1>4, RingIsThere
  <2> QED
    BY <2>1, <2>2, <2>4, <1>2
<1>5. ASSUME isRunning[x], x # base[u] PROVE regionLock[callee[x]] # u
  <2>1. Distance(base[u], x, l - f + 1) < step[u]
    BY <1>2, <1>5
  <2> QED
    BY <2>1, <1>0, <1>5 DEF Marks, MarkOK
<1> QED
  BY <1>2, <1>3, <1>4, <1>5

\* A region is held by the granted request that needs it.
LEMMA HoldFacts == Inv /\ Excl /\ Marks => HoldIs
<1> SUFFICES ASSUME Inv, Excl, Marks, NEW r \in Regions
             PROVE  /\ Holding[r] # None => Holding[r] \in Granted /\ r \in Needed[Holding[r]]
                    /\ \A q \in Granted : r \in Needed[q] => Holding[r] = q
  BY DEF HoldIs
<1>n. NeedIs
  BY NeedFacts
<1>q. queue[r] \in Seq(1..allocated) /\ allocated \in Nat
  BY DEF Inv, TypeOK, SharedTypes, SessionTypes
<1>h. ASSUME NEW f, NEW l, RingAt(f, l), NEW x \in f..l, x \notin freed, callee[x] = r,
             NEW y \in f..l, isRunning[y]
      PROVE  f \in Granted /\ r \in Needed[f]
  <2>1. Complete(f, l)
    BY <1>h, RunningIsComplete
  <2>2. /\ Needed[f] = IF Complete(f, l) THEN {callee[z] : z \in (f..l) \ freed} ELSE {}
        /\ f \in Granted <=> \E z \in f..l : isRunning[z]
    BY <1>h, <1>n DEF NeedIs
  <2>3. f \in Granted
    BY <1>h, <2>2
  <2>4. Needed[f] = {callee[z] : z \in (f..l) \ freed}
    BY <2>1, <2>2
  <2> QED
    BY <2>3, <2>4, <1>h
<1>u. ASSUME NEW u \in Regions, MarkedNext(u, r)
      PROVE  /\ \A v \in Regions : MarkedNext(v, r) => v = u
             /\ base[u] \in 1..allocated
             /\ \A f, l : RingAt(f, l) /\ base[u] \in f..l =>
                  \E x \in f..l : callee[x] = r /\ regionLock[r] = u
  <2>1. /\ pc[u] = "prMark" /\ ready[u] /\ step[u] > 0 /\ regionLock[r] = u
        /\ \E x \in Ring(base[u]) : callee[x] = r
    BY <1>u DEF MarkedNext
  <2>2. base[u] \in 1..allocated
    BY <2>1, Pointers DEF BasePCs
  <2>3. \A v \in Regions : MarkedNext(v, r) => v = u
    BY <2>1, OneMarker DEF MarkedNext
  <2>4. \A f, l : RingAt(f, l) /\ base[u] \in f..l => Ring(base[u]) = f..l
    BY RingIs
  <2> QED
    BY <2>1, <2>2, <2>3, <2>4
<1>1. CASE queue[r] # << >> /\ isRunning[Head(queue[r])]
  <2>x. PICK x : x = queue[r][1]
    OBVIOUS
  <2>1. Head(queue[r]) = x /\ x \in 1..allocated /\ 1 \in 1..Len(queue[r])
    BY <1>1, <1>q, <2>x, SeqTail, SeqElements
  <2>2. callee[x] = r /\ x \notin freed /\ isRunning[x]
    BY <1>1, <2>1, <2>x DEF Excl, QueueOK
  <2>3. PICK f \in 1..allocated, l \in 1..allocated : RingAt(f, l) /\ x \in f..l
    BY <2>1, RingOf
  <2>4. Holding[r] = f
    BY <1>1, <2>1, <2>3, HoldingOf, RingIs
  <2>5. f \in Granted /\ r \in Needed[f]
    BY <2>2, <2>3, <1>h
  <2>6. ASSUME NEW q \in Granted, r \in Needed[q] PROVE q = f
    <3>1. PICK m : RingAt(q, m)
      BY <2>6, <1>n DEF NeedIs
    <3>2. PICK y \in q..m : y \notin freed /\ callee[y] = r
      <4>1. Needed[q] = IF Complete(q, m) THEN {callee[z] : z \in (q..m) \ freed} ELSE {}
        BY <3>1, <1>n DEF NeedIs
      <4>2. Needed[q] = {callee[z] : z \in (q..m) \ freed}
        BY <4>1, <2>6
      <4> QED
        BY <4>2, <2>6
    <3>3. PICK z \in q..m : isRunning[z]
      BY <2>6, <3>1, <1>n DEF NeedIs
    <3>y. q \in 1..allocated /\ m \in 1..allocated /\ y \in 1..allocated
      BY <3>1, <3>2, <1>q DEF RingAt
    <3>4. CASE isRunning[y]
      <4>1. Head(queue[r]) = y
        BY <3>2, <3>4, <3>y, RunningIsFirst
      <4> QED
        BY <4>1, <2>1, <2>3, <3>1, <3>2, <1>q, RingUnique
    <3>5. CASE ~isRunning[y]
      <4>1. PICK u \in Regions : pc[u] = "prMark" /\ ready[u] /\ base[u] \in q..m
        BY <3>1, <3>2, <3>3, <3>5, <3>y DEF Excl, RingOK
      <4>2. IF Distance(base[u], y, m - q + 1) < step[u]
            THEN isRunning[y] ELSE ~isRunning[y] /\ FirstIdle(callee[y])
        BY <4>1, <3>1, <3>2, <3>y DEF Excl, PromoterOK
      <4>3. FirstIdle(r)
        BY <4>2, <3>2, <3>5
      <4> QED
        BY <4>3, <1>1, <2>1, <2>x, <2>2 DEF FirstIdle
    <3> QED
      BY <3>4, <3>5
  <2> QED
    BY <2>4, <2>5, <2>6
<1>2. CASE ~(queue[r] # << >> /\ isRunning[Head(queue[r])])
  <2>1. ASSUME Holding[r] # None PROVE Holding[r] \in Granted /\ r \in Needed[Holding[r]]
    <3>1. PICK u \in Regions : MarkedNext(u, r)
      BY <1>2, <2>1, HoldingOf
    <3>2. base[u] \in 1..allocated
      BY <3>1, <1>u
    <3>3. PICK f \in 1..allocated, l \in 1..allocated : RingAt(f, l) /\ base[u] \in f..l
      BY <3>2, RingOf
    <3>4. Holding[r] = f
      BY <1>2, <1>u, <3>1, <3>3, HoldingOf, RingIs
    <3>5. PICK x \in f..l : callee[x] = r /\ regionLock[r] = u
      BY <3>1, <3>3, <1>u
    <3>6. pc[u] = "prMark" /\ ready[u] /\ step[u] > 0
      BY <3>1 DEF MarkedNext
    <3>7. /\ isRunning[base[u]] /\ base[u] \notin freed
          /\ ~isRunning[x] => x \notin freed
          /\ isRunning[x] /\ x # base[u] => regionLock[callee[x]] # u
      BY <3>3, <3>5, <3>6, MarkerRing
    <3> QED
      BY <3>3, <3>4, <3>5, <3>7, <1>h
  <2>2. ASSUME NEW q \in Granted, r \in Needed[q] PROVE Holding[r] = q
    <3>1. PICK m : RingAt(q, m)
      BY <2>2, <1>n DEF NeedIs
    <3>2. PICK y \in q..m : y \notin freed /\ callee[y] = r
      <4>1. Needed[q] = IF Complete(q, m) THEN {callee[z] : z \in (q..m) \ freed} ELSE {}
        BY <3>1, <1>n DEF NeedIs
      <4>2. Needed[q] = {callee[z] : z \in (q..m) \ freed}
        BY <4>1, <2>2
      <4> QED
        BY <4>2, <2>2
    <3>3. PICK z \in q..m : isRunning[z]
      BY <2>2, <3>1, <1>n DEF NeedIs
    <3>y. q \in 1..allocated /\ m \in 1..allocated /\ y \in 1..allocated
      BY <3>1, <3>2, <1>q DEF RingAt
    <3>4. ~isRunning[y]
      BY <1>2, <3>2, <3>y, RunningIsFirst
    <3>5. PICK u \in Regions : pc[u] = "prMark" /\ ready[u] /\ base[u] \in q..m
      BY <3>1, <3>2, <3>3, <3>4, <3>y DEF Excl, RingOK
    <3>6. step[u] > 0
      <4>1. IF Distance(base[u], z, m - q + 1) < step[u]
            THEN isRunning[z] ELSE ~isRunning[z] /\ FirstIdle(callee[z])
        BY <3>5, <3>1, <3>y DEF Excl, PromoterOK
      <4>2. Distance(base[u], z, m - q + 1) \in Nat
        BY <3>5, <3>y, DistanceIs
      <4> QED
        BY <4>1, <4>2, <3>3 DEF Inv, TypeOK, ThreadTypes
    <3>7. regionLock[r] = u
      BY <3>1, <3>2, <3>4, <3>5, <3>6, MarkerRing
    <3>8. Ring(base[u]) = q..m /\ First(base[u]) = q
      BY <3>1, <3>5, RingIs
    <3>9. MarkedNext(u, r)
      BY <3>2, <3>5, <3>6, <3>7, <3>8 DEF MarkedNext
    <3> QED
      BY <3>8, <3>9, <1>2, <1>u, HoldingOf
  <2> QED
    BY <2>1, <2>2
<1> QED
  BY <1>1, <1>2

\* The same of the state after a step.
LEMMA HoldFactsNext == Inv' /\ Excl' /\ Marks' => HoldIs'
BY HoldFacts, PTL

-----------------------------------------------------------------------------
(* The steps of the abstract specification. *)

\* The abstract state consists of functions.
LEMMA AbstractDomains ==
  /\ Holding = [r \in Regions |-> Holding[r]] /\ Holding' = [r \in Regions |-> Holding'[r]]
  /\ Needed = [q \in Sessions |-> Needed[q]] /\ Needed' = [q \in Sessions |-> Needed'[q]]
<1>1. Holding = [r \in Regions |-> Holding[r]] /\ Holding' = [r \in Regions |-> Holding'[r]]
  BY DEF Holding
<1>2. Needed = [q \in Sessions |-> Needed[q]] /\ Needed' = [q \in Sessions |-> Needed'[q]]
  BY DEF Needed
<1> QED
  BY <1>1, <1>2

\* Nothing happens to the requests: nothing happens to the regions.
LEMMA NoAccessStep ==
  ASSUME HoldIs, HoldIs', Needed' = Needed, Granted' = Granted, None \notin Granted
  PROVE  UNCHANGED <<Needed, Granted, Holding>>
<1>1. ASSUME NEW r \in Regions PROVE Holding'[r] = Holding[r]
  BY DEF HoldIs
<1> QED
  BY <1>1, AbstractDomains

\* A request is made.
LEMMA RequestStep ==
  ASSUME HoldIs, HoldIs', None \notin Granted, NEW q \in Sessions,
         q \notin Granted, Needed[q] = {}, Needed'[q] \in (SUBSET Regions) \ {{}},
         \A p \in Sessions \ {q} : Needed'[p] = Needed[p], Granted' = Granted,
         Granted \subseteq Sessions
  PROVE  Access!Request(q)
<1>1. ASSUME NEW r \in Regions PROVE Holding'[r] = Holding[r]
  <2>1. \A p \in Granted : Needed'[p] = Needed[p]
    OBVIOUS
  <2> QED
    BY <2>1 DEF HoldIs
<1>2. Holding' = Holding
  BY <1>1, AbstractDomains
<1>3. Needed' = [Needed EXCEPT ![q] = Needed'[q]]
  BY AbstractDomains
<1> QED
  BY <1>2, <1>3 DEF Access!Request

\* A request is granted: its regions were free, because they would have two holders
\* otherwise.
LEMMA GrantStep ==
  ASSUME HoldIs, HoldIs', None \notin Granted, NEW q \in Sessions,
         q \notin Granted, Needed[q] # {}, Needed[q] \subseteq Regions, Needed' = Needed,
         Granted' = Granted \union {q}, None # q
  PROVE  Access!Grant(q)
<1>1. ASSUME NEW r \in Needed[q] PROVE Holding[r] = None /\ Holding'[r] = q
  BY DEF HoldIs
<1>2. ASSUME NEW r \in Regions, r \notin Needed[q] PROVE Holding'[r] = Holding[r]
  BY <1>2 DEF HoldIs
<1>3. Holding' = [r \in Regions |-> IF r \in Needed[q] THEN q ELSE Holding[r]]
  BY <1>1, <1>2, AbstractDomains
<1> QED
  BY <1>1, <1>3 DEF Access!Grant

\* A region is given back.
LEMMA ReleaseStep ==
  ASSUME HoldIs, HoldIs', None \notin Granted, NEW q \in Sessions, NEW r \in Regions,
         q \in Granted, r \in Needed[q], Needed'[q] = Needed[q] \ {r},
         \A p \in Sessions \ {q} : Needed'[p] = Needed[p], Granted' = Granted,
         Granted \subseteq Sessions
  PROVE  Access!Release(q, r)
<1>1. Holding[r] = q
  BY DEF HoldIs
<1>n. \A p \in Granted \ {q} : Needed'[p] = Needed[p]
  OBVIOUS
<1>2. Holding'[r] = None
  <2> SUFFICES ASSUME Holding'[r] # None PROVE FALSE
    OBVIOUS
  <2>1. Holding'[r] \in Granted /\ r \in Needed'[Holding'[r]]
    BY DEF HoldIs
  <2>2. Holding'[r] # q
    BY <2>1
  <2>3. r \in Needed[Holding'[r]]
    BY <2>1, <2>2, <1>n
  <2> QED
    BY <2>1, <2>2, <2>3, <1>1 DEF HoldIs
<1>3. ASSUME NEW x \in Regions \ {r} PROVE Holding'[x] = Holding[x]
  <2>1. \A p \in Granted : x \in Needed'[p] <=> x \in Needed[p]
    BY <1>n
  <2> QED
    BY <2>1 DEF HoldIs
<1>4. Holding' = [Holding EXCEPT ![r] = None]
  BY <1>2, <1>3, AbstractDomains
<1>5. Needed' = [Needed EXCEPT ![q] = Needed[q] \ {r}]
  BY AbstractDomains
<1> QED
  BY <1>1, <1>4, <1>5 DEF Access!Release

-----------------------------------------------------------------------------
(* Marks is kept. *)

\* The steps of another processor than u, or those that do not reach prMark.
LEMMA MarkKept ==
  ASSUME Inv, Excl, Marks, NEW u \in Regions, RingsKept,
         pc'[u] = "prMark" => /\ pc[u] = "prMark" /\ base'[u] = base[u]
                              /\ step'[u] = step[u] /\ ready'[u] = ready[u]
                              /\ base[u] \notin freed => base[u] \notin freed'
                              /\ \A r \in Regions : regionLock'[r] = u => regionLock[r] = u
  PROVE  MarkOK(u)'
<1> SUFFICES ASSUME pc'[u] = "prMark", ready'[u], step'[u] > 0
             PROVE  /\ base'[u] \notin freed'
                    /\ \A f, l \in 1..allocated' : RingAt(f, l)' /\ base'[u] \in f..l =>
                         \A x \in f..l :
                           x # base'[u] /\ Distance(base'[u], x, l - f + 1) < step'[u] =>
                             regionLock'[callee'[x]] # u
  BY DEF MarkOK
<1>b. base[u] \in 1..allocated /\ allocated \in Nat
  <2>1. base[u] \in 1..allocated
    BY Pointers DEF BasePCs
  <2> QED
    BY <2>1 DEF Inv, TypeOK, SessionTypes
<1>m. /\ base[u] \notin freed
      /\ \A f, l \in 1..allocated : RingAt(f, l) /\ base[u] \in f..l =>
           \A x \in f..l : x # base[u] /\ Distance(base[u], x, l - f + 1) < step[u] =>
             regionLock[callee[x]] # u
  <2>1. pc[u] = "prMark" /\ ready[u] /\ step[u] > 0
    OBVIOUS
  <2> QED
    BY <2>1 DEF Marks, MarkOK
<1>1. base'[u] \notin freed'
  BY <1>m
<1>2. ASSUME NEW f \in 1..allocated', NEW l \in 1..allocated', RingAt(f, l)', base[u] \in f..l,
             NEW x \in f..l, x # base[u], Distance(base[u], x, l - f + 1) < step[u]
      PROVE  regionLock'[callee'[x]] # u
  <2>1. RingAt(f, l)
    BY <1>2, <1>b DEF RingsKept
  <2>2. f \in 1..allocated /\ l \in 1..allocated /\ x \in 1..allocated
    BY <2>1, <1>b DEF RingAt
  <2>3. callee[x] \in Regions /\ callee'[x] = callee[x]
    BY <2>2, Pointers DEF RingsKept
  <2>4. regionLock[callee[x]] # u
    BY <2>1, <2>2, <1>2, <1>m
  <2> QED
    BY <2>3, <2>4
<1> QED
  BY <1>1, <1>2

\* Steps that only take, release and wait.
LEMMA QuietMarks ==
  ASSUME Inv, Excl, Marks, UNCHANGED <<allocated, freed, caller, callee, nextSibling>>,
         \A u \in Regions :
            pc'[u] = "prMark" => /\ pc[u] = "prMark" /\ base'[u] = base[u]
                                 /\ step'[u] = step[u] /\ ready'[u] = ready[u]
                                 /\ \A r \in Regions : regionLock'[r] = u => regionLock[r] = u
  PROVE  Marks'
<1>1. RingsKept
  BY RingsUnchanged
<1> QED
  BY <1>1, MarkKept DEF Marks

\* The steps of a client that wakes nobody.
LEMMA ClientMarks ==
  ASSUME Inv, Excl, Marks, NEW t \in Regions,
         \/ CountSession(t) \/ LockMultisessions(t) \/ LockCallee(t) \/ AppendSibling(t)
         \/ SyncReturn(t)
  PROVE  Marks'
<1> USE NoneAssumption
<1>1. UNCHANGED <<allocated, freed, caller, callee, nextSibling>>
  BY DEF CountSession, LockMultisessions, LockCallee, AppendSibling, SyncReturn, sessionVars
<1>2. \A u \in Regions \ {t} : /\ pc'[u] = pc[u] /\ base'[u] = base[u]
                               /\ step'[u] = step[u] /\ ready'[u] = ready[u]
  BY DEF CountSession, LockMultisessions, LockCallee, AppendSibling, SyncReturn, localVars,
         Inv, TypeOK, ThreadTypes
<1>3. pc'[t] # "prMark"
  BY DEF CountSession, LockMultisessions, LockCallee, AppendSibling, SyncReturn,
         Inv, TypeOK, ThreadTypes
<1>4. \A u \in Regions \ {t} : \A r \in Regions : regionLock'[r] = u => regionLock[r] = u
  BY DEF CountSession, LockMultisessions, LockCallee, AppendSibling, SyncReturn,
         Inv, TypeOK, SharedTypes
<1> QED
  BY <1>1, <1>2, <1>3, <1>4, QuietMarks

\* The steps of a processor that serves its sessions.
LEMMA ServerMarks ==
  ASSUME Inv, Excl, Marks, NEW t \in Regions,
         \/ Iterate(t) \/ Recheck(t) \/ Idle(t) \/ Sleep(t) \/ Timeout(t) \/ NextCall(t)
         \/ EndSession(t) \/ EndBody(t) \/ DecrementCount(t)
  PROVE  Marks'
<1> USE NoneAssumption
<1>1. UNCHANGED <<allocated, freed, caller, callee, nextSibling>>
  BY DEF Iterate, Recheck, Idle, Sleep, Timeout, NextCall, EndSession, EndBody,
         DecrementCount, sessionVars
<1>2. \A u \in Regions \ {t} : /\ pc'[u] = pc[u] /\ base'[u] = base[u]
                               /\ step'[u] = step[u] /\ ready'[u] = ready[u]
  BY DEF Iterate, Recheck, Idle, Sleep, Timeout, NextCall, EndSession, EndBody,
         DecrementCount, Take, localVars, Inv, TypeOK, ThreadTypes
<1>3. pc'[t] # "prMark"
  BY DEF Iterate, Recheck, Idle, Sleep, Timeout, NextCall, EndSession, EndBody,
         DecrementCount, Take, Inv, TypeOK, ThreadTypes
<1>4. \A u \in Regions \ {t} : \A r \in Regions : regionLock'[r] = u => regionLock[r] = u
  BY DEF Iterate, Recheck, Idle, Sleep, Timeout, NextCall, EndSession, EndBody,
         DecrementCount, Inv, TypeOK, SharedTypes
<1> QED
  BY <1>1, <1>2, <1>3, <1>4, QuietMarks

\* The steps of a promotion around the marking.
LEMMA PromoteMarks ==
  ASSUME Inv, Excl, Marks, NEW t \in Regions,
         \/ PromoteLock(t) \/ PromoteRegion(t) \/ PromoteScan(t) \/ PromoteDone(t)
  PROVE  Marks'
<1> USE NoneAssumption
<1>1. UNCHANGED <<allocated, freed, caller, callee, nextSibling>>
  BY DEF PromoteLock, PromoteRegion, PromoteScan, PromoteDone, sessionVars
<1>2. \A u \in Regions \ {t} : /\ pc'[u] = pc[u] /\ base'[u] = base[u]
                               /\ step'[u] = step[u] /\ ready'[u] = ready[u]
  BY DEF PromoteLock, PromoteRegion, PromoteScan, PromoteDone, localVars,
         Inv, TypeOK, ThreadTypes
<1>3. pc'[t] # "prMark"
  BY DEF PromoteLock, PromoteRegion, PromoteScan, PromoteDone, Inv, TypeOK, ThreadTypes
<1>4. \A u \in Regions \ {t} : \A r \in Regions : regionLock'[r] = u => regionLock[r] = u
  BY DEF PromoteLock, PromoteRegion, PromoteScan, PromoteDone, Inv, TypeOK, SharedTypes
<1> QED
  BY <1>1, <1>2, <1>3, <1>4, QuietMarks

\* A call is logged.
LEMMA AddCallMarks ==
  ASSUME Inv, Excl, Marks, NEW t \in Regions, AddCall(t)
  PROVE  Marks'
<1>1. PICK s, k : AddCallTo(t, s, k)
  BY DEF AddCall
<1>2. /\ UNCHANGED <<allocated, freed, caller, callee, nextSibling, regionLock, step, ready>>
      /\ pc'[t] # "prMark"
      /\ \A u \in Regions \ {t} : pc'[u] = pc[u] /\ base'[u] = base[u]
  BY <1>1 DEF AddCallTo, Inv, TypeOK, ThreadTypes
<1> QED
  BY <1>2, QuietMarks

\* The steps that wake a processor.
LEMMA WakeMarks ==
  ASSUME Inv, Excl, Marks, NEW t \in Regions,
         \/ AppendSession(t) \/ WakeCallee(t) \/ WakeMain(t) \/ PromoteWake(t)
  PROVE  Marks'
<1> USE NoneAssumption, MainAssumption
<1>p. pc \in [Regions -> PCs]
  BY DEF Inv, TypeOK, ThreadTypes
<1>1. UNCHANGED <<allocated, freed, caller, callee, nextSibling, regionLock, ready>>
  BY DEF AppendSession, WakeCallee, WakeMain, PromoteWake, sessionVars, localVars
<1>2. \A u \in Regions \ {t} : base'[u] = base[u] /\ step'[u] = step[u]
  BY DEF AppendSession, WakeCallee, WakeMain, PromoteWake, CallLogged, localVars,
         Inv, TypeOK, ThreadTypes
<1>3. /\ pc'[t] # "prMark"
      /\ \A u \in Regions \ {t} : pc'[u] = pc[u] \/ pc'[u] = "iterate"
  <2>1. CASE AppendSession(t)
    <3>1. PICK s, r : s = base[t] /\ r = callee[s]
      OBVIOUS
    <3>2. r \in Regions
      BY <2>1, <3>1, Pointers DEF AppendSession, BasePCs
    <3>3. pc' = [Woken(pc, r) EXCEPT ![t] = IF mustWait[s] THEN "sync" ELSE "body"]
      BY <2>1, <3>1 DEF AppendSession, CallLogged
    <3> QED
      BY <3>2, <3>3, <1>p, WokenIs
  <2>2. CASE WakeCallee(t)
    <3>1. PICK s, r : s = sib[t] /\ r = callee[s]
      OBVIOUS
    <3>2. r \in Regions /\ pc[t] = "mWake"
      BY <2>2, <3>1, Pointers DEF WakeCallee, SiblingPCs
    <3>3. \/ pc' = [Woken(pc, r) EXCEPT ![t] = IF mustWait[base[t]] THEN "sync" ELSE "body"]
          \/ pc' = Woken(pc, r)
      BY <2>2, <3>1 DEF WakeCallee, CallLogged
    <3> QED
      BY <3>2, <3>3, <1>p, WokenIs
  <2>3. CASE WakeMain(t)
    <3>1. PICK next : next = [pc EXCEPT ![t] = "iterate"]
      OBVIOUS
    <3>2. /\ next \in [Regions -> PCs] /\ next[t] = "iterate"
          /\ \A u \in Regions \ {t} : next[u] = pc[u]
      BY <3>1, <1>p DEF PCs
    <3>3. pc' = Woken(next, Main)
      BY <2>3, <3>1 DEF WakeMain
    <3> QED
      BY <3>2, <3>3, WokenIs
  <2>4. CASE PromoteWake(t)
    <3>1. PICK r : r = callee[nextSibling[sib[t]]]
      OBVIOUS
    <3>2. r \in Regions /\ pc[t] = "prWake"
      BY <2>4, <3>1, Pointers DEF PromoteWake, SiblingPCs
    <3>3. pc' = Woken(pc, r) \/ pc' = [pc EXCEPT ![t] = "prDone"]
      BY <2>4, <3>1 DEF PromoteWake
    <3> QED
      BY <3>2, <3>3, <1>p, WokenIs
  <2> QED
    BY <2>1, <2>2, <2>3, <2>4
<1> QED
  BY <1>1, <1>2, <1>3, QuietMarks

\* The search for siblings ends before anything is marked.
LEMMA PromoteSiblingMarks ==
  ASSUME Inv, Excl, Marks, NEW t \in Regions, PromoteSibling(t)
  PROVE  Marks'
<1> USE NoneAssumption
<1>1. UNCHANGED <<allocated, freed, caller, callee, nextSibling>>
  BY DEF PromoteSibling, sessionVars
<1>2. \A u \in Regions \ {t} : /\ pc'[u] = pc[u] /\ base'[u] = base[u]
                               /\ step'[u] = step[u] /\ ready'[u] = ready[u]
  BY DEF PromoteSibling, Inv, TypeOK, ThreadTypes
<1>3. step'[t] = 0
  BY DEF PromoteSibling, Inv, TypeOK, ThreadTypes
<1>4. \A u \in Regions \ {t} : \A r \in Regions : regionLock'[r] = u => regionLock[r] = u
  BY DEF PromoteSibling, Inv, TypeOK, SharedTypes
<1>5. MarkOK(t)'
  BY <1>3 DEF MarkOK
<1>6. RingsKept
  BY <1>1, RingsUnchanged
<1>7. ASSUME NEW u \in Regions \ {t} PROVE MarkOK(u)'
  BY <1>1, <1>2, <1>4, <1>6, MarkKept
<1> QED
  BY <1>5, <1>7 DEF Marks

\* A session is freed by the processor that executed it, or by the client that opened
\* it and logged no call.
LEMMA FreeMarks ==
  ASSUME Inv, Excl, Marks, NEW t \in Regions, CloseSession(t) \/ RemoveSession(t)
  PROVE  Marks'
<1> USE NoneAssumption
<1>1. UNCHANGED <<allocated, caller, callee, nextSibling, base, step, ready, regionLock>>
  BY DEF CloseSession, RemoveSession
<1>2. pc'[t] # "prMark" /\ \A u \in Regions \ {t} : pc'[u] = pc[u]
  BY DEF CloseSession, RemoveSession, Inv, TypeOK, ThreadTypes
<1>3. ASSUME NEW u \in Regions \ {t}, pc[u] = "prMark", base[u] \notin freed
      PROVE  base[u] \notin freed'
  <2>1. isSubmitted[base[u]] /\ callee[base[u]] = u
    BY <1>3 DEF Excl, PromoterOK
  <2>2. CASE CloseSession(t)
    BY <2>1, <2>2, <1>3 DEF CloseSession
  <2>3. CASE RemoveSession(t)
    <3>1. cur[t] # None
      BY <2>3 DEF RemoveSession, Inv, LocalsSet
    <3>2. queue[t] \in Seq(1..allocated) /\ queue[t] # << >> /\ cur[t] = queue[t][1]
      BY <3>1 DEF Excl, QueueOK, Inv, TypeOK, SharedTypes, LocalsSet
    <3>3. 1 \in 1..Len(queue[t])
      BY <3>2, SeqTail
    <3>4. callee[cur[t]] = t
      BY <3>2, <3>3 DEF Excl, QueueOK
    <3>5. freed' = freed \union {cur[t]}
      BY <2>3 DEF RemoveSession
    <3> QED
      BY <3>4, <3>5, <2>1, <1>3
  <2> QED
    BY <2>2, <2>3
<1>4. RingsKept
  BY <1>1, RingsUnchanged
<1>5. ASSUME NEW u \in Regions PROVE MarkOK(u)'
  BY <1>1, <1>2, <1>3, <1>4, MarkKept
<1> QED
  BY <1>5 DEF Marks

\* The second loop of a promotion: a session is marked and its region released,
\* unless it is the one of the promoting processor.
LEMMA PromoteMarkMarks ==
  ASSUME Inv, Excl, Marks, NEW t \in Regions, PromoteMark(t)
  PROVE  Marks'
<1> USE NoneAssumption
<1>s. PICK s, r : s = (IF step[t] = 0 THEN base[t] ELSE nextSibling[sib[t]]) /\ r = callee[s]
  OBVIOUS
<1>1. UNCHANGED <<allocated, freed, caller, callee, nextSibling, base, ready, locks>>
  BY DEF PromoteMark
<1>2. \A u \in Regions \ {t} : pc'[u] = pc[u] /\ step'[u] = step[u]
  BY DEF PromoteMark, Inv, TypeOK, ThreadTypes
<1>3. \A u \in Regions \ {t} : \A x \in Regions : regionLock'[x] = u => regionLock[x] = u
  BY DEF PromoteMark, Inv, TypeOK, SharedTypes
<1>4. RingsKept
  BY <1>1, RingsUnchanged
<1>5. ASSUME NEW u \in Regions \ {t} PROVE MarkOK(u)'
  BY <1>1, <1>2, <1>3, <1>4, MarkKept
<1>6. MarkOK(t)'
  <2> SUFFICES ASSUME pc'[t] = "prMark", ready[t]
               PROVE  /\ base[t] \notin freed
                      /\ \A f, l \in 1..allocated : RingAt(f, l) /\ base[t] \in f..l =>
                           \A x \in f..l :
                             x # base[t] /\ Distance(base[t], x, l - f + 1) < step'[t] =>
                               regionLock'[callee[x]] # t
    BY <1>1, RingsUnchanged DEF MarkOK
  <2>0. /\ pc[t] = "prMark" /\ step[t] < locks[t] /\ step'[t] = step[t] + 1
        /\ regionLock' = IF s = base[t] THEN regionLock ELSE [regionLock EXCEPT ![r] = None]
    BY <1>s DEF PromoteMark, Inv, TypeOK, ThreadTypes
  <2>b. /\ base[t] \in 1..allocated /\ allocated \in Nat /\ step[t] \in Nat /\ locks[t] \in Nat
    <3>1. base[t] \in 1..allocated
      BY <2>0, Pointers DEF BasePCs
    <3> QED
      BY <3>1 DEF Inv, TypeOK, SessionTypes, ThreadTypes
  <2>1. base[t] \notin freed
    <3>1. CASE step[t] = 0
      <4>1. Searching(t)
        BY <3>1, <2>0 DEF Searching
      <4>2. scan[t] \in 1..Len(queue[t]) /\ base[t] = queue[t][scan[t]]
        BY <4>1 DEF Excl, PromoterOK
      <4> QED
        BY <4>2 DEF Excl, QueueOK
    <3>2. CASE step[t] # 0
      BY <3>2, <2>0, <2>b DEF Marks, MarkOK
    <3> QED
      BY <3>1, <3>2
  <2>2. ASSUME NEW f \in 1..allocated, NEW l \in 1..allocated, RingAt(f, l), base[t] \in f..l,
               NEW x \in f..l, x # base[t], Distance(base[t], x, l - f + 1) < step'[t]
        PROVE  regionLock'[callee[x]] # t
    <3>1. s \in f..l /\ Distance(base[t], s, l - f + 1) = step[t]
      BY <2>0, <2>2, <1>s, MarkedSession
    <3>2. x \in 1..allocated /\ callee[x] \in Regions
      <4>1. x \in 1..allocated
        BY <2>2, <2>b DEF RingAt
      <4> QED
        BY <4>1, Pointers
    <3>d. Distance(base[t], x, l - f + 1) \in Nat /\ Distance(base[t], base[t], l - f + 1) = 0
      BY <2>2, DistanceIs
    <3>3. CASE x = s
      BY <3>3, <3>2, <2>0, <2>2, <1>s DEF Inv, TypeOK, SharedTypes
    <3>4. CASE x # s
      <4>1. Distance(base[t], x, l - f + 1) # step[t]
        BY <3>1, <3>4, <2>2, DistanceIs
      <4>2. Distance(base[t], x, l - f + 1) < step[t] /\ step[t] > 0
        BY <4>1, <3>d, <2>0, <2>2, <2>b
      <4>3. regionLock[callee[x]] # t
        BY <4>2, <2>0, <2>2 DEF Marks, MarkOK
      <4> QED
        BY <4>3, <3>2, <2>0 DEF Inv, TypeOK, SharedTypes
    <3> QED
      BY <3>3, <3>4
  <2> QED
    BY <2>1, <2>2
<1> QED
  BY <1>5, <1>6 DEF Marks

\* What the sessions that a feature opens leave alone.
LEMMA OpenBlockKeeps ==
  ASSUME Inv, NEW t \in Regions, OpenBlock(t)
  PROVE  /\ RingsKept
         /\ UNCHANGED <<freed, isSubmitted, isRunning, queue, regionLock, pc, base, step, ready>>
<1>b. PICK b \in Blocks[t] : OpenSessions(t, b)
  BY DEF OpenBlock
<1>n. PICK n : n = Len(b)
  OBVIOUS
<1>0. /\ allocated' = allocated + n
      /\ callee' = [s \in Sessions |-> IF s \in (allocated + 1)..(allocated + n)
                                       THEN b[s - allocated] ELSE callee[s]]
      /\ caller' = [s \in Sessions |-> IF s \in (allocated + 1)..(allocated + n)
                                       THEN t ELSE caller[s]]
      /\ nextSibling' = [s \in Sessions |-> IF s \in (allocated + 1)..(allocated + n)
                                            THEN NextInRing(s, n) ELSE nextSibling[s]]
      /\ UNCHANGED <<freed, isSubmitted, isRunning, queue, regionLock, pc, base, step, ready>>
  BY <1>b, <1>n DEF OpenSessions
<1>1. n \in Nat
  <2>1. b \in Seq(Regions \ {t})
    BY BlocksAssumption
  <2> QED
    BY <2>1, <1>n
<1>2. \A s \in 1..allocated : s \in Sessions /\ s \notin (allocated + 1)..(allocated + n)
  <2>1. allocated \in Nat /\ 1..allocated \subseteq Sessions
    BY Pointers DEF Inv, TypeOK, SessionTypes
  <2> QED
    BY <2>1, <1>1
<1>3. \A s \in 1..allocated : /\ caller'[s] = caller[s] /\ callee'[s] = callee[s]
                              /\ nextSibling'[s] = nextSibling[s]
  BY <1>0, <1>2
<1> QED
  BY <1>0, <1>1, <1>3, GrownRings

\* Marks is an invariant.
LEMMA NextMarks == Inv /\ Excl /\ Marks /\ [Next]_vars => Marks'
<1> SUFFICES ASSUME Inv, Excl, Marks, [Next]_vars PROVE Marks'
  OBVIOUS
<1>1. CASE UNCHANGED vars
  BY <1>1, QuietMarks DEF vars, sessionVars, localVars
<1>2. CASE Terminated
  BY <1>1, <1>2 DEF Terminated
<1>o. ASSUME NEW t \in Regions, OpenBlock(t) PROVE Marks'
  <2>1. /\ RingsKept
        /\ UNCHANGED <<freed, isSubmitted, isRunning, queue, regionLock, pc, base, step, ready>>
    BY <1>o, OpenBlockKeeps
  <2> QED
    BY <2>1, MarkKept DEF Marks
<1>3. ASSUME NEW t \in Regions, Client(t) PROVE Marks'
  BY <1>3, <1>o, AddCallMarks, ClientMarks, WakeMarks, FreeMarks DEF Client
<1>4. ASSUME NEW t \in Regions, Server(t) PROVE Marks'
  BY <1>4, ServerMarks, WakeMarks, FreeMarks DEF Server
<1>5. ASSUME NEW t \in Regions, PromoteFault(t) PROVE Marks'
  BY <1>5, QuietMarks DEF PromoteFault, sessionVars, localVars
<1>6. ASSUME NEW t \in Regions, Promote(t) PROVE Marks'
  BY <1>5, <1>6, PromoteMarks, PromoteSiblingMarks, PromoteMarkMarks, WakeMarks DEF Promote
<1> QED
  BY <1>1, <1>2, <1>3, <1>4, <1>6 DEF Next, Thread

\* So is it with the invariants of ScoopSessions_proofs.
LEMMA SpecMarks == Spec => [](Inv /\ Excl /\ Marks)
<1>1. Init => Inv /\ Excl /\ Marks
  BY InitInv, InitExcl DEF Init, Marks, MarkOK
<1>2. (Inv /\ Excl /\ Marks) /\ [Next]_vars => (Inv /\ Excl /\ Marks)'
  BY NextInv, NextExcl, NextMarks
<1> QED
  BY <1>1, <1>2, PTL DEF Spec

-----------------------------------------------------------------------------
(* Every step is a step of the abstract specification, or none. *)

\* The abstract state is what the rings say.
Linked == NeedIs /\ HoldIs /\ None \notin Granted

\* It is so in every reachable state.
LEMMA LinkedFacts == Inv /\ Excl /\ Marks => Linked
<1> SUFFICES ASSUME Inv, Excl, Marks PROVE Linked
  OBVIOUS
<1>1. NeedIs /\ HoldIs
  BY NeedFacts, HoldFacts
<1>2. None \notin Sessions
  BY NoneAssumption, BoundsAssumption DEF Sessions
<1> QED
  BY <1>1, <1>2 DEF Linked, NeedIs

\* The same of the state after a step.
LEMMA LinkedFactsNext == Inv' /\ Excl' /\ Marks' => Linked'
BY LinkedFacts, PTL

AccessStep == Access!AccessNext \/ UNCHANGED <<Needed, Granted, Holding>>

\* Two states in which the requests need the same and were granted the same.
LEMMA SameRequests ==
  ASSUME Linked, Linked', \A q \in Sessions : Needed'[q] = Needed[q] /\ (q \in Granted' <=> q \in Granted)
  PROVE  AccessStep
<1>1. Needed' = Needed
  BY AbstractDomains
<1>2. Granted' = Granted
  BY DEF Linked, NeedIs
<1> QED
  BY <1>1, <1>2, NoAccessStep DEF Linked, AccessStep

\* Steps that submit, run and free nothing.
LEMMA QuietAccess ==
  ASSUME Linked, Linked',
         UNCHANGED <<allocated, caller, callee, nextSibling, isSubmitted, isRunning, freed>>
  PROVE  AccessStep
<1>r. \A f, l : RingAt(f, l)' <=> RingAt(f, l)
  BY RingsUnchanged
<1>1. ASSUME NEW q \in Sessions
      PROVE  Needed'[q] = Needed[q] /\ (q \in Granted' <=> q \in Granted)
  <2>1. CASE \A l : ~RingAt(q, l)
    BY <2>1, <1>r DEF Linked, NeedIs
  <2>2. ASSUME NEW l, RingAt(q, l)
        PROVE  Needed'[q] = Needed[q] /\ (q \in Granted' <=> q \in Granted)
    <3>1. /\ Needed[q] = IF Complete(q, l) THEN {callee[x] : x \in (q..l) \ freed} ELSE {}
          /\ q \in Granted <=> \E x \in q..l : isRunning[x]
      BY <2>2 DEF Linked, NeedIs
    <3>2. /\ Needed'[q] = IF Complete(q, l)' THEN {callee'[x] : x \in (q..l) \ freed'} ELSE {}
          /\ q \in Granted' <=> \E x \in q..l : isRunning'[x]
      BY <2>2, <1>r DEF Linked, NeedIs
    <3> QED
      BY <3>1, <3>2 DEF Complete
  <2> QED
    BY <2>1, <2>2
<1> QED
  BY <1>1, SameRequests

\* What happens to the other rings when something happens to the one from f to l.
LEMMA OtherRings ==
  ASSUME Inv, Linked, Linked', NEW f, NEW l, RingAt(f, l),
         UNCHANGED <<allocated, caller, callee, nextSibling>>,
         \A x \in 1..allocated : x \notin f..l =>
            /\ isSubmitted'[x] = isSubmitted[x] /\ isRunning'[x] = isRunning[x]
            /\ x \in freed' <=> x \in freed
  PROVE  \A q \in Sessions \ {f} : Needed'[q] = Needed[q] /\ (q \in Granted' <=> q \in Granted)
<1>r. \A g, m : RingAt(g, m)' <=> RingAt(g, m)
  BY RingsUnchanged
<1>a. allocated \in Nat
  BY DEF Inv, TypeOK, SessionTypes
<1>1. ASSUME NEW q \in Sessions \ {f}
      PROVE  Needed'[q] = Needed[q] /\ (q \in Granted' <=> q \in Granted)
  <2>1. CASE \A m : ~RingAt(q, m)
    BY <2>1, <1>r DEF Linked, NeedIs
  <2>2. ASSUME NEW m, RingAt(q, m)
        PROVE  Needed'[q] = Needed[q] /\ (q \in Granted' <=> q \in Granted)
    <3>1. /\ Needed[q] = IF Complete(q, m) THEN {callee[x] : x \in (q..m) \ freed} ELSE {}
          /\ q \in Granted <=> \E x \in q..m : isRunning[x]
      BY <2>2 DEF Linked, NeedIs
    <3>2. /\ Needed'[q] = IF Complete(q, m)' THEN {callee'[x] : x \in (q..m) \ freed'} ELSE {}
          /\ q \in Granted' <=> \E x \in q..m : isRunning'[x]
      BY <2>2, <1>r DEF Linked, NeedIs
    <3>3. ASSUME NEW x \in q..m
          PROVE  /\ isSubmitted'[x] = isSubmitted[x] /\ isRunning'[x] = isRunning[x]
                 /\ x \in freed' <=> x \in freed
      <4>1. x \notin f..l
        BY <2>2, <1>a, RingUnique
      <4>2. x \in 1..allocated
        BY <2>2, <1>a DEF RingAt
      <4> QED
        BY <4>1, <4>2
    <3>4. Complete(q, m)' <=> Complete(q, m)
      BY <3>3 DEF Complete
    <3>5. (q..m) \ freed' = (q..m) \ freed
      BY <3>3
    <3>6. q \in Granted' <=> q \in Granted
      BY <3>1, <3>2, <3>3
    <3>7. {callee'[x] : x \in (q..m) \ freed'} = {callee[x] : x \in (q..m) \ freed}
      BY <3>5
    <3> QED
      BY <3>1, <3>2, <3>4, <3>6, <3>7
  <2> QED
    BY <2>1, <2>2
<1> QED
  BY <1>1

\* A session is marked running: the first one of its ring grants the request.
LEMMA RunAccess ==
  ASSUME Inv, Linked, Linked', NEW f, NEW l, RingAt(f, l), NEW s \in f..l,
         (\E x \in f..l : isRunning[x]) \/ (Complete(f, l) /\ s \notin freed),
         isRunning' = [isRunning EXCEPT ![s] = TRUE],
         UNCHANGED <<allocated, caller, callee, nextSibling, isSubmitted, freed>>
  PROVE  AccessStep
<1>r. RingAt(f, l)' <=> RingAt(f, l)
  BY RingsUnchanged
<1>s. /\ s \in 1..allocated /\ f \in Sessions /\ \A x \in f..l : x \in 1..allocated
      /\ 1..allocated \subseteq Sessions
  <2>1. \A x \in f..l : x \in 1..allocated
    BY DEF RingAt, Inv, TypeOK, SessionTypes
  <2> QED
    BY <2>1, MainAssumption, Pointers DEF Linked, NeedIs
<1>u. isRunning'[s] /\ \A x \in 1..allocated : x # s => isRunning'[x] = isRunning[x]
  BY <1>s DEF Inv, TypeOK, SessionTypes
<1>1. \A q \in Sessions \ {f} : Needed'[q] = Needed[q] /\ (q \in Granted' <=> q \in Granted)
  BY <1>u, OtherRings
<1>2. /\ Needed[f] = IF Complete(f, l) THEN {callee[x] : x \in (f..l) \ freed} ELSE {}
      /\ f \in Granted <=> \E x \in f..l : isRunning[x]
  BY DEF Linked, NeedIs
<1>3. /\ Needed'[f] = IF Complete(f, l)' THEN {callee'[x] : x \in (f..l) \ freed'} ELSE {}
      /\ f \in Granted' <=> \E x \in f..l : isRunning'[x]
  BY <1>r DEF Linked, NeedIs
<1>4. Needed'[f] = Needed[f]
  BY <1>2, <1>3 DEF Complete
<1>5. f \in Granted'
  BY <1>3, <1>u
<1>6. CASE \E x \in f..l : isRunning[x]
  <2>1. f \in Granted
    BY <1>6, <1>2
  <2> QED
    BY <2>1, <1>1, <1>4, <1>5, SameRequests
<1>7. CASE ~(\E x \in f..l : isRunning[x])
  <2>1. f \notin Granted /\ Complete(f, l) /\ s \notin freed
    BY <1>7, <1>2
  <2>2. Needed' = Needed
    BY <1>1, <1>4, AbstractDomains
  <2>3. Granted' = Granted \union {f}
    BY <1>1, <1>5 DEF Linked, NeedIs
  <2>4. Needed[f] = {callee[x] : x \in (f..l) \ freed}
    BY <2>1, <1>2
  <2>5. Needed[f] # {} /\ Needed[f] \subseteq Regions
    <3>1. \A x \in 1..allocated : callee[x] \in Regions
      BY MainAssumption, Pointers
    <3>2. callee[s] \in Needed[f]
      BY <2>1, <2>4
    <3> QED
      BY <3>1, <3>2, <2>4, <1>s
  <2>6. None # f
    BY <1>s, NoneAssumption, BoundsAssumption DEF Sessions
  <2>7. Access!Grant(f)
    BY <2>1, <2>2, <2>3, <2>5, <2>6, <1>s, GrantStep DEF Linked
  <2> QED
    BY <2>7, <1>s DEF AccessStep, Access!AccessNext
<1> QED
  BY <1>6, <1>7

\* A session is submitted: the last one of its ring makes the request.
LEMMA SubmitAccess ==
  ASSUME Inv, Excl, Linked, Linked', NEW f, NEW l, RingAt(f, l), NEW s \in f..l,
         ~isSubmitted[s], s \notin freed,
         isSubmitted' = [isSubmitted EXCEPT ![s] = TRUE],
         UNCHANGED <<allocated, caller, callee, nextSibling, isRunning, freed>>
  PROVE  AccessStep
<1>r. RingAt(f, l)' <=> RingAt(f, l)
  BY RingsUnchanged
<1>s. /\ s \in 1..allocated /\ f \in Sessions /\ \A x \in f..l : x \in 1..allocated
      /\ 1..allocated \subseteq Sessions
  <2>1. \A x \in f..l : x \in 1..allocated
    BY DEF RingAt, Inv, TypeOK, SessionTypes
  <2> QED
    BY <2>1, MainAssumption, Pointers DEF Linked, NeedIs
<1>u. \A x \in 1..allocated : x # s => isSubmitted'[x] = isSubmitted[x]
  BY <1>s DEF Inv, TypeOK, SessionTypes
<1>1. \A q \in Sessions \ {f} : Needed'[q] = Needed[q] /\ (q \in Granted' <=> q \in Granted)
  BY <1>u, OtherRings
<1>2. /\ Needed[f] = IF Complete(f, l) THEN {callee[x] : x \in (f..l) \ freed} ELSE {}
      /\ f \in Granted <=> \E x \in f..l : isRunning[x]
  BY DEF Linked, NeedIs
<1>3. /\ Needed'[f] = IF Complete(f, l)' THEN {callee'[x] : x \in (f..l) \ freed'} ELSE {}
      /\ f \in Granted' <=> \E x \in f..l : isRunning'[x]
  BY <1>r DEF Linked, NeedIs
<1>4. Needed[f] = {} /\ f \notin Granted /\ f \notin Granted'
  <2>1. ~Complete(f, l)
    BY DEF Complete
  <2>2. \A x \in f..l : ~isRunning[x]
    BY <2>1, RunningIsComplete
  <2> QED
    BY <2>1, <2>2, <1>2, <1>3
<1>5. CASE ~Complete(f, l)'
  BY <1>1, <1>3, <1>4, <1>5, SameRequests
<1>6. CASE Complete(f, l)'
  <2>1. Needed'[f] = {callee[x] : x \in (f..l) \ freed}
    BY <1>3, <1>6
  <2>2. Needed'[f] \in (SUBSET Regions) \ {{}}
    <3>1. \A x \in 1..allocated : callee[x] \in Regions
      BY MainAssumption, Pointers
    <3>2. callee[s] \in Needed'[f]
      BY <2>1
    <3>3. Needed'[f] \subseteq Regions
      BY <3>1, <2>1, <1>s
    <3> QED
      BY <3>2, <3>3
  <2>3. Granted' = Granted
    BY <1>1, <1>4 DEF Linked, NeedIs
  <2>4. Access!Request(f)
    BY <2>2, <2>3, <1>1, <1>4, <1>s, RequestStep DEF Linked, NeedIs
  <2> QED
    BY <2>4, <1>s DEF AccessStep, Access!AccessNext
<1> QED
  BY <1>5, <1>6

\* A session is freed: its region is given back if it was running, and nothing
\* happens if it was never submitted.
LEMMA FreeAccess ==
  ASSUME Inv, Excl, Linked, Linked', NEW f, NEW l, RingAt(f, l), NEW s \in f..l,
         s \notin freed, isSubmitted[s] => isRunning[s], freed' = freed \union {s},
         UNCHANGED <<allocated, caller, callee, nextSibling, isRunning, isSubmitted>>
  PROVE  AccessStep
<1>r. RingAt(f, l)' <=> RingAt(f, l)
  BY RingsUnchanged
<1>s. /\ s \in 1..allocated /\ f \in Sessions /\ \A x \in f..l : x \in 1..allocated
      /\ callee[s] \in Regions
  <2>1. \A x \in f..l : x \in 1..allocated
    BY DEF RingAt, Inv, TypeOK, SessionTypes
  <2> QED
    BY <2>1, MainAssumption, Pointers DEF Linked, NeedIs
<1>1. \A q \in Sessions \ {f} : Needed'[q] = Needed[q] /\ (q \in Granted' <=> q \in Granted)
  BY OtherRings
<1>2. /\ Needed[f] = IF Complete(f, l) THEN {callee[x] : x \in (f..l) \ freed} ELSE {}
      /\ f \in Granted <=> \E x \in f..l : isRunning[x]
  BY DEF Linked, NeedIs
<1>3. /\ Needed'[f] = IF Complete(f, l)' THEN {callee'[x] : x \in (f..l) \ freed'} ELSE {}
      /\ f \in Granted' <=> \E x \in f..l : isRunning'[x]
  BY <1>r DEF Linked, NeedIs
<1>c. (Complete(f, l)' <=> Complete(f, l)) /\ (f \in Granted' <=> f \in Granted)
  BY <1>2, <1>3 DEF Complete
<1>4. CASE ~isSubmitted[s]
  <2>1. ~Complete(f, l)
    BY <1>4 DEF Complete
  <2> QED
    BY <2>1, <1>1, <1>2, <1>3, <1>c, SameRequests
<1>5. CASE isSubmitted[s]
  <2>1. Complete(f, l) /\ f \in Granted
    BY <1>5, <1>2, RunningIsComplete
  <2>2. /\ Needed[f] = {callee[x] : x \in (f..l) \ freed}
        /\ Needed'[f] = {callee[x] : x \in (f..l) \ (freed \union {s})}
    BY <2>1, <1>2, <1>3, <1>c
  <2>3. \A x \in f..l : callee[x] = callee[s] => x = s
    BY RingCallees
  <2>4. Needed'[f] = Needed[f] \ {callee[s]} /\ callee[s] \in Needed[f]
    <3>1. ASSUME NEW r \in Needed'[f] PROVE r \in Needed[f] /\ r # callee[s]
      <4>1. PICK x \in (f..l) \ (freed \union {s}) : r = callee[x]
        BY <2>2
      <4>2. x \in (f..l) \ freed /\ x # s
        BY <4>1
      <4> QED
        BY <4>1, <4>2, <2>2, <2>3
    <3>2. ASSUME NEW r \in Needed[f], r # callee[s] PROVE r \in Needed'[f]
      <4>1. PICK x \in (f..l) \ freed : r = callee[x]
        BY <2>2
      <4>2. x \in (f..l) \ (freed \union {s})
        BY <4>1, <3>2
      <4> QED
        BY <4>1, <4>2, <2>2
    <3>3. callee[s] \in Needed[f]
      BY <2>2
    <3> QED
      BY <3>1, <3>2, <3>3
  <2>5. Granted' = Granted
    <3>1. Granted \subseteq Sessions /\ Granted' \subseteq Sessions
      BY DEF Linked, NeedIs
    <3> QED
      BY <3>1, <1>1, <1>c
  <2>6. Access!Release(f, callee[s])
    BY <2>1, <2>4, <2>5, <1>1, <1>s, ReleaseStep DEF Linked, NeedIs
  <2> QED
    BY <2>6, <1>s DEF AccessStep, Access!AccessNext
<1> QED
  BY <1>4, <1>5

\* A feature opens its sessions.
LEMMA OpenBlockAccess ==
  ASSUME Inv, Excl, Linked, Linked', NEW t \in Regions, OpenBlock(t)
  PROVE  AccessStep
<1>0. RingsKept /\ UNCHANGED <<freed, isSubmitted, isRunning>>
  BY OpenBlockKeeps
<1>a. allocated \in Nat /\ 1..allocated \subseteq Sessions
  BY Pointers DEF Inv, TypeOK, SessionTypes
<1>1. ASSUME NEW q \in Sessions
      PROVE  Needed'[q] = Needed[q] /\ (q \in Granted' <=> q \in Granted)
  <2>1. CASE q \in 1..allocated
    <3>r. \A l : q \in q..l => (RingAt(q, l)' <=> RingAt(q, l))
      BY <2>1, <1>0 DEF RingsKept
    <3>i. /\ \A l : RingAt(q, l) => q \in q..l
          /\ \A l : RingAt(q, l)' => q \in q..l
      <4>1. q \in Nat
        BY <2>1
      <4>2. \A l : RingAt(q, l) => l \in q..allocated
        BY DEF RingAt
      <4>3. \A l : RingAt(q, l)' => l \in q..allocated'
        BY DEF RingAt
      <4> QED
        BY <4>1, <4>2, <4>3
    <3>1. CASE \A l : ~RingAt(q, l)
      BY <3>1, <3>r, <3>i DEF Linked, NeedIs
    <3>2. ASSUME NEW l, RingAt(q, l)
          PROVE  Needed'[q] = Needed[q] /\ (q \in Granted' <=> q \in Granted)
      <4>1. /\ Needed[q] = IF Complete(q, l) THEN {callee[x] : x \in (q..l) \ freed} ELSE {}
            /\ q \in Granted <=> \E x \in q..l : isRunning[x]
        BY <3>2 DEF Linked, NeedIs
      <4>2. /\ Needed'[q] = IF Complete(q, l)' THEN {callee'[x] : x \in (q..l) \ freed'} ELSE {}
            /\ q \in Granted' <=> \E x \in q..l : isRunning'[x]
        BY <3>2, <3>r, <3>i DEF Linked, NeedIs
      <4>3. \A x \in q..l : callee'[x] = callee[x]
        <5>1. \A x \in q..l : x \in 1..allocated
          BY <3>2, <1>a DEF RingAt
        <5> QED
          BY <5>1, <1>0 DEF RingsKept
      <4>4. {callee'[x] : x \in (q..l) \ freed'} = {callee[x] : x \in (q..l) \ freed}
        BY <4>3, <1>0
      <4> QED
        BY <4>1, <4>2, <4>4, <1>0 DEF Complete
    <3> QED
      BY <3>1, <3>2
  <2>2. CASE q \notin 1..allocated
    <3>1. \A l : ~RingAt(q, l)
      BY <2>2 DEF RingAt
    <3>2. Needed[q] = {} /\ q \notin Granted
      BY <3>1 DEF Linked, NeedIs
    <3>3. CASE \A l : ~RingAt(q, l)'
      BY <3>2, <3>3 DEF Linked, NeedIs
    <3>4. ASSUME NEW l, RingAt(q, l)' PROVE Needed'[q] = {} /\ q \notin Granted'
      <4>1. /\ Needed'[q] = IF Complete(q, l)' THEN {callee'[x] : x \in (q..l) \ freed'} ELSE {}
            /\ q \in Granted' <=> \E x \in q..l : isRunning'[x]
        BY <3>4 DEF Linked, NeedIs
      <4>2. ASSUME NEW x \in q..l PROVE ~isSubmitted[x] /\ ~isRunning[x]
        <5>1. q > allocated /\ x \in Sessions /\ x > allocated
          <6>1. l \in q..allocated' /\ allocated' \in Nat /\ allocated' <= MaxSessions
            <7>1. l \in q..allocated'
              BY <3>4 DEF RingAt
            <7>2. PICK b \in Blocks[t] : OpenSessions(t, b)
              BY DEF OpenBlock
            <7>3. /\ allocated' <= MaxSessions /\ allocated' = allocated + Len(b)
                  /\ b \in Seq(Regions \ {t})
              BY <7>2, BlocksAssumption DEF OpenSessions
            <7> QED
              BY <7>1, <7>3, <1>a
          <6> QED
            BY <6>1, <2>2, <1>a, BoundsAssumption DEF Sessions
        <5> QED
          BY <5>1 DEF Excl, FreshOK
      <4>3. q \in q..l
        BY <3>4, <1>a DEF RingAt, Sessions
      <4>4. ~Complete(q, l)' /\ \A x \in q..l : ~isRunning'[x]
        BY <4>2, <4>3, <1>0 DEF Complete
      <4> QED
        BY <4>1, <4>4
    <3> QED
      BY <3>2, <3>3, <3>4
  <2> QED
    BY <2>1, <2>2
<1> QED
  BY <1>1, SameRequests

\* A session is submitted, alone or with its siblings.
LEMMA AppendAccess ==
  ASSUME Inv, Excl, Linked, Linked', NEW t \in Regions, AppendSession(t) \/ AppendSibling(t)
  PROVE  AccessStep
<1>a. allocated \in Nat
  BY DEF Inv, TypeOK, SessionTypes
<1>b. pc[t] \in {"increment", "append", "mLock", "mRegion", "mAppend", "mWake"}
  BY DEF AppendSession, AppendSibling
<1>c. base[t] \in 1..allocated
  BY <1>b, OwnRing
<1>1. PICK f \in 1..allocated, l \in 1..allocated :
         RingAt(f, l) /\ base[t] \in f..l /\ \A x \in f..l : x \notin freed
  BY <1>b, OwnRing
<1>2. CASE AppendSession(t)
  <2>1. pc[t] = "append"
    BY <1>2 DEF AppendSession
  <2>2. ~isSubmitted[base[t]]
    BY <2>1 DEF Excl, AdderOK
  <2>3. /\ isSubmitted' = [isSubmitted EXCEPT ![base[t]] = TRUE]
        /\ UNCHANGED <<allocated, caller, callee, nextSibling, isRunning, freed>>
    BY <1>2 DEF AppendSession
  <2> QED
    BY <2>2, <2>3, <1>1, SubmitAccess
<1>3. CASE AppendSibling(t)
  <2>1. pc[t] = "mAppend"
    BY <1>3 DEF AppendSibling
  <2>2. sib[t] \in f..l /\ ~isSubmitted[sib[t]]
    <3>1. sib[t] \in f..l
      BY <2>1, <1>1 DEF Excl, AdderOK
    <3>2. Distance(base[t], sib[t], l - f + 1) \in Nat
      <4>1. f \in Nat /\ l \in Nat
        BY <1>a
      <4>2. Distance(base[t], sib[t], l - f + 1) \in 0..(l - f)
        BY <4>1, <3>1, <1>1, DistanceIs
      <4> QED
        BY <4>1, <4>2
    <3>3. \A x \in f..l :
             IF Distance(base[t], x, l - f + 1) < Distance(base[t], sib[t], l - f + 1)
             THEN isSubmitted[x] ELSE ~isSubmitted[x] /\ regionLock[callee[x]] = t
      BY <2>1, <1>1 DEF Excl, AdderOK
    <3> QED
      BY <3>1, <3>2, <3>3
  <2>3. /\ isSubmitted' = [isSubmitted EXCEPT ![sib[t]] = TRUE]
        /\ UNCHANGED <<allocated, caller, callee, nextSibling, isRunning, freed>>
    BY <1>3 DEF AppendSibling
  <2> QED
    BY <2>2, <2>3, <1>1, SubmitAccess
<1> QED
  BY <1>2, <1>3

\* A feature closes a session.
LEMMA CloseSessionAccess ==
  ASSUME Inv, Excl, Linked, Linked', NEW t \in Regions, CloseSession(t)
  PROVE  AccessStep
<1>s. PICK s : s = Head(block[t])
  OBVIOUS
<1>0. /\ block[t] # << >> /\ freed' = IF isSubmitted[s] THEN freed ELSE freed \union {s}
      /\ UNCHANGED <<allocated, caller, callee, nextSibling, isRunning, isSubmitted>>
  BY <1>s DEF CloseSession
<1>1. CASE isSubmitted[s]
  BY <1>0, <1>1, QuietAccess
<1>2. CASE ~isSubmitted[s]
  <2>b. block[t] \in Seq(1..allocated)
    BY DEF Inv, TypeOK, ThreadTypes
  <2>1. 1 \in 1..Len(block[t]) /\ s = block[t][1]
    BY <2>b, <1>0, <1>s, SeqTail
  <2>2. s \in 1..allocated /\ isOpen[s]
    BY <2>1, BlockCaller
  <2>3. s \notin freed
    BY <2>2 DEF Excl, SessionOK
  <2>4. PICK f \in 1..allocated, l \in 1..allocated : RingAt(f, l) /\ s \in f..l
    BY <2>2, RingOf
  <2>5. freed' = freed \union {s} /\ (isSubmitted[s] => isRunning[s])
    BY <1>0, <1>2
  <2> QED
    BY <2>3, <2>4, <2>5, <1>0, FreeAccess
<1> QED
  BY <1>1, <1>2

\* A processor removes the session it has executed.
LEMMA RemoveSessionAccess ==
  ASSUME Inv, Excl, Linked, Linked', NEW t \in Regions, RemoveSession(t)
  PROVE  AccessStep
<1>s. PICK s : s = cur[t]
  OBVIOUS
<1>0. /\ freed' = freed \union {s}
      /\ UNCHANGED <<allocated, caller, callee, nextSibling, isRunning, isSubmitted>>
  BY <1>s DEF RemoveSession
<1>1. s # None /\ s \in 1..allocated
  <2>1. s # None
    BY <1>s DEF RemoveSession, Inv, LocalsSet
  <2> QED
    BY <2>1, <1>s, Pointers
<1>2. /\ queue[t] \in Seq(1..allocated) /\ queue[t] # << >> /\ s = queue[t][1]
      /\ isRunning[s]
  BY <1>s, <1>1 DEF Excl, QueueOK, Inv, TypeOK, SharedTypes, LocalsSet
<1>3. 1 \in 1..Len(queue[t])
  BY <1>2, SeqTail
<1>4. s \notin freed
  BY <1>2, <1>3 DEF Excl, QueueOK
<1>5. PICK f \in 1..allocated, l \in 1..allocated : RingAt(f, l) /\ s \in f..l
  BY <1>1, RingOf
<1> QED
  BY <1>0, <1>2, <1>4, <1>5, FreeAccess

\* A processor runs a session that needs no promotion.
LEMMA ServeAccess ==
  ASSUME Inv, Excl, Linked, Linked', NEW s \in 1..allocated, ~Blocked(s), isSubmitted[s],
         s \notin freed, isRunning' = [isRunning EXCEPT ![s] = TRUE],
         UNCHANGED <<allocated, caller, callee, nextSibling, isSubmitted, freed>>
  PROVE  AccessStep
<1>a. allocated \in Nat
  BY DEF Inv, TypeOK, SessionTypes
<1>1. PICK f \in 1..allocated, l \in 1..allocated : RingAt(f, l) /\ s \in f..l
  BY RingOf
<1>2. CASE isRunning[s]
  BY <1>1, <1>2, RunAccess
<1>3. CASE ~isRunning[s]
  <2>1. nextSibling[s] = s
    BY <1>3 DEF Blocked, Singleton
  <2>2. f = l
    BY <2>1, <1>1, <1>a, NextIs
  <2>3. Complete(f, l)
    BY <2>2, <1>1, <1>a DEF Complete
  <2> QED
    BY <2>3, <1>1, RunAccess
<1> QED
  BY <1>2, <1>3

\* A processor takes the first session of its region, or goes to sleep.
LEMMA IterateAccess ==
  ASSUME Inv, Excl, Linked, Linked', NEW t \in Regions, Iterate(t) \/ Recheck(t)
  PROVE  AccessStep
<1>0. UNCHANGED <<allocated, caller, callee, nextSibling, isSubmitted, freed>>
  BY DEF Iterate, Recheck
<1>1. CASE UNCHANGED isRunning
  BY <1>0, <1>1, QuietAccess
<1>2. CASE isRunning' # isRunning
  <2>s. PICK s : s = Head(queue[t])
    OBVIOUS
  <2>1. queue[t] # << >> /\ ~Blocked(s) /\ isRunning' = [isRunning EXCEPT ![s] = TRUE]
    <3>1. pc[t] = "recheck" => queue[t] # << >>
      BY DEF Inv, LocalsSet, PromotePCs
    <3> QED
      BY <3>1, <1>2, <2>s DEF Iterate, Recheck, Take, Promotable
  <2>2. queue[t] \in Seq(1..allocated)
    BY DEF Inv, TypeOK, SharedTypes
  <2>3. 1 \in 1..Len(queue[t]) /\ s = queue[t][1] /\ s \in 1..allocated
    BY <2>s, <2>1, <2>2, SeqTail, SeqElements
  <2>4. isSubmitted[s] /\ s \notin freed
    BY <2>3 DEF Excl, QueueOK
  <2> QED
    BY <2>1, <2>3, <2>4, <1>0, ServeAccess
<1> QED
  BY <1>1, <1>2

\* The search of a promotion: a session that needs none is run.
LEMMA PromoteScanAccess ==
  ASSUME Inv, Excl, Linked, Linked', NEW t \in Regions, PromoteScan(t)
  PROVE  AccessStep
<1>0. UNCHANGED <<allocated, caller, callee, nextSibling, isSubmitted, freed>>
  BY DEF PromoteScan
<1>1. CASE UNCHANGED isRunning
  BY <1>0, <1>1, QuietAccess
<1>2. CASE isRunning' # isRunning
  <2>s. PICK s : s = queue[t][scan[t]]
    OBVIOUS
  <2>1. /\ pc[t] = "prScan" /\ scan[t] <= Len(queue[t]) /\ ~Blocked(s)
        /\ isRunning' = [isRunning EXCEPT ![s] = TRUE]
    BY <1>2, <2>s DEF PromoteScan
  <2>2. queue[t] \in Seq(1..allocated)
    BY DEF Inv, TypeOK, SharedTypes
  <2>3. scan[t] \in 1..Len(queue[t])
    BY <2>1, <2>2 DEF Inv, LocalsSet, TypeOK, ThreadTypes
  <2>4. s \in 1..allocated
    BY <2>2, <2>3, <2>s, SeqElements
  <2>5. isSubmitted[s] /\ s \notin freed
    BY <2>3, <2>s DEF Excl, QueueOK
  <2> QED
    BY <2>1, <2>4, <2>5, <1>0, ServeAccess
<1> QED
  BY <1>1, <1>2

\* The second loop of a promotion: the first session marked grants the request, the
\* others are siblings of one that is running.
LEMMA PromoteMarkAccess ==
  ASSUME Inv, Excl, Linked, Linked', NEW t \in Regions, PromoteMark(t)
  PROVE  AccessStep
<1>0. UNCHANGED <<allocated, caller, callee, nextSibling, isSubmitted, freed>>
  BY DEF PromoteMark
<1>1. CASE UNCHANGED isRunning
  BY <1>0, <1>1, QuietAccess
<1>2. CASE isRunning' # isRunning
  <2>s. PICK s : s = IF step[t] = 0 THEN base[t] ELSE nextSibling[sib[t]]
    OBVIOUS
  <2>1. /\ pc[t] = "prMark" /\ ready[t] /\ step[t] < locks[t]
        /\ isRunning' = [isRunning EXCEPT ![s] = TRUE]
    BY <1>2, <2>s DEF PromoteMark, Marked
  <2>b. base[t] \in 1..allocated /\ step[t] \in Nat /\ allocated \in Nat
    <3>1. base[t] \in 1..allocated
      BY <2>1, Pointers DEF BasePCs
    <3> QED
      BY <3>1 DEF Inv, TypeOK, SessionTypes, ThreadTypes
  <2>2. PICK f \in 1..allocated, l \in 1..allocated : RingAt(f, l) /\ base[t] \in f..l
    BY <2>b, RingOf
  <2>3. s \in f..l
    BY <2>1, <2>2, <2>s, MarkedSession
  <2>4. CASE step[t] = 0
    <3>1. s = base[t]
      BY <2>4, <2>s
    <3>2. isSubmitted[s] /\ multiLock = t
      BY <3>1, <2>1 DEF Excl, PromoterOK, LocksOK, MultiPCs
    <3>3. ASSUME NEW u \in Regions, pc[u] = "mAppend" PROVE FALSE
      <4>1. multiLock = u
        BY <3>3 DEF Excl, LocksOK, MultiPCs
      <4> QED
        BY <4>1, <3>2, <3>3, <2>1
    <3>4. Complete(f, l)
      BY <3>2, <3>3, <2>2, <2>3 DEF Excl, RingOK, Complete
    <3>5. s \notin freed
      <4>1. Searching(t)
        BY <2>1, <2>4 DEF Searching
      <4>2. scan[t] \in 1..Len(queue[t]) /\ base[t] = queue[t][scan[t]]
        BY <4>1 DEF Excl, PromoterOK
      <4> QED
        BY <4>2, <3>1 DEF Excl, QueueOK
    <3> QED
      BY <3>4, <3>5, <2>1, <2>2, <2>3, <1>0, RunAccess
  <2>5. CASE step[t] # 0
    <3>1. \A x \in f..l : IF Distance(base[t], x, l - f + 1) < step[t]
                          THEN isRunning[x]
                          ELSE ~isRunning[x] /\ FirstIdle(callee[x])
      BY <2>1, <2>2 DEF Excl, PromoterOK
    <3>2. Distance(base[t], base[t], l - f + 1) = 0
      <4>1. f \in Nat /\ l \in Nat
        BY <2>b
      <4> QED
        BY <4>1, <2>2, DistanceIs
    <3>3. isRunning[base[t]]
      BY <3>1, <3>2, <2>2, <2>5, <2>b
    <3> QED
      BY <3>3, <2>1, <2>2, <2>3, <1>0, RunAccess
  <2> QED
    BY <2>4, <2>5
<1> QED
  BY <1>1, <1>2

\* The steps of a client that submits and frees nothing.
LEMMA ClientAccess ==
  ASSUME Linked, Linked', NEW t \in Regions,
         \/ AddCall(t) \/ CountSession(t) \/ LockMultisessions(t) \/ LockCallee(t)
         \/ WakeCallee(t) \/ SyncReturn(t)
  PROVE  AccessStep
<1>1. UNCHANGED <<allocated, caller, callee, nextSibling, isSubmitted, isRunning, freed>>
  BY DEF AddCall, AddCallTo, CountSession, LockMultisessions, LockCallee, WakeCallee,
         SyncReturn, sessionVars
<1> QED
  BY <1>1, QuietAccess

\* The steps of a processor that runs and removes nothing.
LEMMA ServerAccess ==
  ASSUME Linked, Linked', NEW t \in Regions,
         \/ Idle(t) \/ Sleep(t) \/ Timeout(t) \/ NextCall(t) \/ EndSession(t) \/ EndBody(t)
         \/ DecrementCount(t) \/ WakeMain(t)
  PROVE  AccessStep
<1>1. UNCHANGED <<allocated, caller, callee, nextSibling, isSubmitted, isRunning, freed>>
  BY DEF Idle, Sleep, Timeout, NextCall, EndSession, EndBody, DecrementCount, WakeMain,
         sessionVars
<1> QED
  BY <1>1, QuietAccess

\* The steps of a promotion that mark nothing.
LEMMA PromoteAccess ==
  ASSUME Linked, Linked', NEW t \in Regions,
         \/ PromoteLock(t) \/ PromoteRegion(t) \/ PromoteSibling(t) \/ PromoteWake(t)
         \/ PromoteFault(t) \/ PromoteDone(t)
  PROVE  AccessStep
<1>1. UNCHANGED <<allocated, caller, callee, nextSibling, isSubmitted, isRunning, freed>>
  BY DEF PromoteLock, PromoteRegion, PromoteSibling, PromoteWake, PromoteFault, PromoteDone,
         sessionVars
<1> QED
  BY <1>1, QuietAccess

\* Every step.
LEMMA NextAccess == Inv /\ Excl /\ Linked /\ Linked' /\ [Next]_vars => AccessStep
<1> SUFFICES ASSUME Inv, Excl, Linked, Linked', [Next]_vars PROVE AccessStep
  OBVIOUS
<1>1. CASE UNCHANGED vars
  BY <1>1, QuietAccess DEF vars, sessionVars
<1>2. CASE Terminated
  BY <1>1, <1>2 DEF Terminated
<1>3. ASSUME NEW t \in Regions, Client(t) PROVE AccessStep
  BY <1>3, OpenBlockAccess, AppendAccess, CloseSessionAccess, ClientAccess DEF Client
<1>4. ASSUME NEW t \in Regions, Server(t) PROVE AccessStep
  BY <1>4, IterateAccess, RemoveSessionAccess, ServerAccess DEF Server
<1>5. ASSUME NEW t \in Regions, Promote(t) PROVE AccessStep
  BY <1>5, PromoteScanAccess, PromoteMarkAccess, PromoteAccess DEF Promote
<1> QED
  BY <1>1, <1>2, <1>3, <1>4, <1>5 DEF Next, Thread

\* No request is made at first.
LEMMA InitAccess == Init => Access!AccessInit
<1> SUFFICES ASSUME Init PROVE Access!AccessInit
  OBVIOUS
<1>0. allocated = 0 /\ 1..allocated = {}
  BY DEF Init
<1>1. Needed = [q \in Sessions |-> {}]
  <2>1. \A q \in Sessions : ~(q <= allocated)
    BY <1>0, BoundsAssumption DEF Sessions
  <2> QED
    BY <2>1 DEF Needed
<1>2. Granted = {}
  BY <1>0 DEF Granted
<1>3. Holding = [r \in Regions |-> None]
  <2>1. ASSUME NEW r \in Regions PROVE Holding[r] = None
    <3>1. ~(queue[r] # << >> /\ isRunning[Head(queue[r])])
      BY DEF Init
    <3>2. \A u \in Regions : ~MarkedNext(u, r)
      BY DEF Init, MarkedNext
    <3> QED
      BY <3>1, <3>2, HoldingOf
  <2> QED
    BY <2>1, AbstractDomains
<1> QED
  BY <1>1, <1>2, <1>3 DEF Access!AccessInit

\* The runtime gives a feature exclusive access to the regions of all its separate
\* arguments at once: every behaviour of the queues, the locks and the promotion is one
\* of ExclusiveAccess.
THEOREM SpecGrantsExclusiveAccess == Spec => GrantsExclusiveAccess
<1>1. Init => Access!AccessInit
  BY InitAccess
<1>2. /\ Inv /\ Excl /\ Marks /\ (Inv /\ Excl /\ Marks)' /\ [Next]_vars
      => [Access!AccessNext]_(Access!accessVars)
  <2> SUFFICES ASSUME Inv, Excl, Marks, (Inv /\ Excl /\ Marks)', [Next]_vars
               PROVE  [Access!AccessNext]_(Access!accessVars)
    OBVIOUS
  <2>1. Linked /\ Linked'
    BY LinkedFacts, LinkedFactsNext
  <2>2. AccessStep
    BY <2>1, NextAccess
  <2> QED
    BY <2>2 DEF AccessStep, Access!accessVars
<1> QED
  BY <1>1, <1>2, SpecMarks, PTL DEF Spec, GrantsExclusiveAccess, Access!AccessSpec

-----------------------------------------------------------------------------
(***************************************************************************)
(* Sleeping processors: SleepsOnlyOverMultisessions, and what makes it     *)
(* inductive.  A processor keeps the mutex of its region from the moment   *)
(* it finds nothing to run until it waits; a session that arrives alone    *)
(* after that wakes it.                                                    *)
(***************************************************************************)

NapPCs == {"idle", "sleep", "waiting"}
AdderPCs == {"mLock", "mRegion", "mAppend"}

Napping(r) ==
  /\ pc[r] \in NapPCs /\ queue[r] # << >> =>
       \E i \in 1..Len(queue[r]) : ~Singleton(queue[r][i])
  /\ pc[r] \in AdderPCs => ~Singleton(base[r])

Naps == \A r \in Regions : Napping(r)

\* A processor that was napping over the same queue, or that is not napping.
LEMMA NapKept ==
  ASSUME NEW r \in Regions, Napping(r), UNCHANGED nextSibling,
         pc'[r] \in NapPCs => pc[r] \in NapPCs /\ queue'[r] = queue[r],
         pc'[r] \in AdderPCs => pc[r] \in AdderPCs /\ base'[r] = base[r]
  PROVE  Napping(r)'
BY DEF Napping, Singleton

\* Steps that move no session and make nobody nap.
LEMMA QuietNaps ==
  ASSUME Inv, Naps, UNCHANGED <<nextSibling, queue>>,
         \A r \in Regions :
            /\ pc'[r] \in NapPCs => pc[r] \in NapPCs
            /\ pc'[r] \in AdderPCs => pc[r] \in AdderPCs /\ base'[r] = base[r]
  PROVE  Naps'
BY NapKept DEF Naps

\* The steps of a client that submits nothing.
LEMMA ClientNaps ==
  ASSUME Inv, Excl, Naps, NEW t \in Regions,
         \/ CountSession(t) \/ LockMultisessions(t) \/ LockCallee(t) \/ SyncReturn(t)
         \/ CloseSession(t)
  PROVE  Naps'
<1>p. pc \in [Regions -> PCs] /\ base \in [Regions -> (1..allocated) \union {None}]
  BY DEF Inv, TypeOK, ThreadTypes
<1>1. UNCHANGED <<nextSibling, queue>>
  BY DEF CountSession, LockMultisessions, LockCallee, SyncReturn, CloseSession, sessionVars
<1>2. \A r \in Regions : r # t => pc'[r] = pc[r] /\ base'[r] = base[r]
  BY <1>p DEF CountSession, LockMultisessions, LockCallee, SyncReturn, CloseSession, localVars
<1>3. pc'[t] \notin NapPCs
  BY <1>p DEF CountSession, LockMultisessions, LockCallee, SyncReturn, CloseSession, NapPCs
<1>4. pc'[t] \in AdderPCs => pc[t] \in AdderPCs /\ base'[t] = base[t]
  BY <1>p DEF CountSession, LockMultisessions, LockCallee, SyncReturn, CloseSession, AdderPCs
<1> QED
  BY <1>1, <1>2, <1>3, <1>4, QuietNaps

\* The wakeup of the callees of a multisession.
LEMMA WakeCalleeNaps ==
  ASSUME Inv, Excl, Naps, NEW t \in Regions, WakeCallee(t)
  PROVE  Naps'
<1>p. pc \in [Regions -> PCs] /\ base \in [Regions -> (1..allocated) \union {None}]
  BY DEF Inv, TypeOK, ThreadTypes
<1>r. PICK r : r = callee[sib[t]]
  OBVIOUS
<1>1. r \in Regions
  <2>1. sib[t] \in 1..allocated
    BY Pointers DEF WakeCallee, SiblingPCs
  <2> QED
    BY <2>1, <1>r, Pointers
<1>2. /\ Woken(pc, r) \in [Regions -> PCs]
      /\ \A u \in Regions : Woken(pc, r)[u] = pc[u] \/ Woken(pc, r)[u] = "iterate"
  BY <1>1, <1>p, WokenIs
<1>3. \A u \in Regions : u # t =>
        base'[u] = base[u] /\ (pc'[u] = pc[u] \/ pc'[u] = "iterate")
  BY <1>p, <1>r, <1>2 DEF WakeCallee, CallLogged
<1>4. pc'[t] \notin NapPCs /\ pc'[t] \notin AdderPCs
  BY <1>p, <1>r, <1>2 DEF WakeCallee, CallLogged, NapPCs, AdderPCs
<1>5. UNCHANGED <<nextSibling, queue>>
  BY DEF WakeCallee, sessionVars
<1> QED
  BY <1>3, <1>4, <1>5, QuietNaps DEF NapPCs, AdderPCs

\* A call is logged: the first one of a multisession submits it.
LEMMA AddCallNaps ==
  ASSUME Inv, Excl, Naps, NEW t \in Regions, AddCall(t)
  PROVE  Naps'
<1>p. pc \in [Regions -> PCs] /\ base \in [Regions -> (1..allocated) \union {None}]
  BY DEF Inv, TypeOK, ThreadTypes
<1>1. PICK s, k : AddCallTo(t, s, k)
  BY DEF AddCall
<1>2. UNCHANGED <<nextSibling, queue>>
  BY <1>1 DEF AddCallTo
<1>3. ASSUME NEW r \in Regions, r # t PROVE Napping(r)'
  <2>1. pc'[r] = pc[r] /\ base'[r] = base[r]
    BY <1>1, <1>3, <1>p DEF AddCallTo
  <2> QED
    BY <2>1, <1>2, NapKept DEF Naps
<1>4. pc'[t] \notin NapPCs /\ (pc'[t] \in AdderPCs => ~Singleton(s) /\ base'[t] = s)
  BY <1>1, <1>p DEF AddCallTo, NapPCs, AdderPCs
<1>5. Napping(t)'
  BY <1>2, <1>4 DEF Napping, Singleton
<1> QED
  BY <1>3, <1>5 DEF Naps

\* New sessions are in no queue yet.
LEMMA OpenBlockNaps ==
  ASSUME Inv, Excl, Naps, NEW t \in Regions, OpenBlock(t)
  PROVE  Naps'
<1>1. PICK b : OpenSessions(t, b)
  BY DEF OpenBlock
<1>2. \A s \in 1..allocated : nextSibling'[s] = nextSibling[s]
  <2>1. allocated \in Nat /\ 1..allocated \subseteq Sessions
    BY Pointers DEF Inv, TypeOK, SessionTypes
  <2>2. PICK n : n = Len(b)
    OBVIOUS
  <2>3. \A s \in 1..allocated : s \notin (allocated + 1)..(allocated + n)
    BY <2>1
  <2> QED
    BY <1>1, <2>1, <2>2, <2>3 DEF OpenSessions
<1>3. UNCHANGED <<pc, queue, base>>
  BY <1>1 DEF OpenSessions
<1>4. ASSUME NEW r \in Regions PROVE Napping(r)'
  <2>1. Napping(r) /\ queue[r] \in Seq(1..allocated)
    BY Pointers DEF Naps
  <2>2. \A i \in 1..Len(queue[r]) : queue[r][i] \in 1..allocated
    BY <2>1, SeqElements
  <2>3. pc[r] \in AdderPCs => base[r] \in 1..allocated
    BY Pointers DEF AdderPCs, BasePCs
  <2> QED
    BY <2>1, <2>2, <2>3, <1>2, <1>3 DEF Napping, Singleton
<1> QED
  BY <1>4 DEF Naps

\* A session that is submitted alone wakes its callee, unless it is about to wait:
\* then it has the mutex of its region.
LEMMA AppendSessionNaps ==
  ASSUME Inv, Excl, Naps, NEW t \in Regions, AppendSession(t)
  PROVE  Naps'
<1> USE NoneAssumption
<1>p. /\ pc \in [Regions -> PCs] /\ base \in [Regions -> (1..allocated) \union {None}]
      /\ queue \in [Regions -> Seq(1..allocated)]
  BY DEF Inv, TypeOK, ThreadTypes, SharedTypes
<1>r. PICK s, r : s = base[t] /\ r = callee[s]
  OBVIOUS
<1>1. r \in Regions
  <2>1. base[t] \in 1..allocated
    BY Pointers DEF AppendSession, BasePCs
  <2> QED
    BY <2>1, <1>r, Pointers
<1>2. Woken(pc, r) \in [Regions -> PCs]
  BY <1>1, <1>p, WokenIs
<1>3. pc[r] \notin {"idle", "sleep"}
  BY <1>1, <1>r DEF AppendSession, Excl, LocksOK, OwnPCs
<1>4. Woken(pc, r)[r] \notin NapPCs
  BY <1>3, <1>1, <1>p DEF Woken, NapPCs
<1>5. \A u \in Regions : u # r => Woken(pc, r)[u] = pc[u] /\ queue'[u] = queue[u]
  BY <1>r, <1>1, <1>p DEF Woken, AppendSession
<1>6. \A u \in Regions : Woken(pc, r)[u] = pc[u] \/ Woken(pc, r)[u] = "iterate"
  BY <1>1, <1>p, WokenIs
<1>7. \A u \in Regions : u # t => pc'[u] = Woken(pc, r)[u] /\ base'[u] = base[u]
  BY <1>r, <1>2, <1>p DEF AppendSession, CallLogged
<1>8. pc'[t] \notin NapPCs /\ pc'[t] \notin AdderPCs
  BY <1>r, <1>2, <1>p DEF AppendSession, CallLogged, NapPCs, AdderPCs
<1>9. UNCHANGED nextSibling
  BY DEF AppendSession
<1>10. ASSUME NEW u \in Regions PROVE Napping(u)'
  <2>1. Napping(u)
    BY DEF Naps
  <2>2. CASE u = t
    BY <2>1, <2>2, <1>8, <1>9, NapKept
  <2>3. CASE u # t
    <3>1. pc'[u] \in NapPCs => pc[u] \in NapPCs /\ queue'[u] = queue[u]
      BY <2>3, <1>4, <1>5, <1>7
    <3>2. pc'[u] \in AdderPCs => pc[u] \in AdderPCs /\ base'[u] = base[u]
      BY <2>3, <1>6, <1>7 DEF AdderPCs
    <3> QED
      BY <3>1, <3>2, <2>1, <1>9, NapKept
  <2> QED
    BY <2>2, <2>3
<1> QED
  BY <1>10 DEF Naps

\* A multisession that is submitted does not wake its callees at once, and is
\* itself what they sleep over.
LEMMA AppendSiblingNaps ==
  ASSUME Inv, Excl, Naps, NEW t \in Regions, AppendSibling(t)
  PROVE  Naps'
<1>p. /\ pc \in [Regions -> PCs] /\ queue \in [Regions -> Seq(1..allocated)]
  BY DEF Inv, TypeOK, ThreadTypes, SharedTypes
<1>r. PICK s, r : s = sib[t] /\ r = callee[s]
  OBVIOUS
<1>1. s \in 1..allocated /\ base[t] \in 1..allocated /\ allocated \in Nat
  BY <1>r, Pointers DEF AppendSibling, SiblingPCs, BasePCs, Inv, TypeOK, SessionTypes
<1>2. r \in Regions
  BY <1>1, <1>r, Pointers
<1>3. ~Singleton(s)
  <2>1. PICK f \in 1..allocated, l \in 1..allocated : RingAt(f, l) /\ base[t] \in f..l
    BY <1>1, RingOf
  <2>2. s \in f..l
    BY <2>1, <1>r DEF AppendSibling, Excl, AdderOK
  <2>3. ~Singleton(base[t])
    BY DEF AppendSibling, Naps, Napping, AdderPCs
  <2>4. Singleton(s) => f = l
    BY <2>1, <2>2, <1>1, NextIs DEF Singleton
  <2>5. f = l => s = base[t]
    BY <2>1, <2>2
  <2> QED
    BY <2>3, <2>4, <2>5
<1>4. queue'[r] = AddLast(queue[r], s) /\ \A u \in Regions : u # r => queue'[u] = queue[u]
  BY <1>r, <1>2, <1>p DEF AppendSibling
<1>5. Len(queue'[r]) \in 1..Len(queue'[r]) /\ queue'[r][Len(queue'[r])] = s
  <2> DEFINE S == 1..allocated
  <2>1. queue[r] \in Seq(S) /\ s \in S
    BY <1>p, <1>1, <1>2
  <2> HIDE DEF S
  <2> QED
    BY <2>1, <1>4 DEF AddLast
<1>6. UNCHANGED <<nextSibling, base>>
  BY DEF AppendSibling
<1>7. ASSUME NEW u \in Regions
      PROVE  /\ pc'[u] \in NapPCs => pc[u] \in NapPCs
             /\ pc'[u] \in AdderPCs => pc[u] \in AdderPCs
  BY <1>p DEF AppendSibling, NapPCs, AdderPCs
<1>8. ASSUME NEW u \in Regions PROVE Napping(u)'
  <2>1. Napping(u)
    BY DEF Naps
  <2>2. CASE u = r
    <3>1. (\E i \in 1..Len(queue[u]) : ~Singleton(queue[u][i]))'
      BY <1>3, <1>5, <1>6, <2>2 DEF Singleton
    <3>2. (pc[u] \in AdderPCs => ~Singleton(base[u]))'
      BY <2>1, <1>6, <1>7 DEF Napping, Singleton
    <3> QED
      BY <3>1, <3>2 DEF Napping
  <2>3. CASE u # r
    BY <2>1, <2>3, <1>4, <1>6, <1>7, NapKept
  <2> QED
    BY <2>2, <2>3
<1> QED
  BY <1>8 DEF Naps

\* A processor that finds no session, or a multisession it cannot start, naps.
LEMMA IterateNaps ==
  ASSUME Inv, Excl, Naps, NEW t \in Regions, Iterate(t) \/ Recheck(t)
  PROVE  Naps'
<1>p. pc \in [Regions -> PCs] /\ queue[t] \in Seq(1..allocated)
  BY Pointers DEF Inv, TypeOK, ThreadTypes
<1>1. UNCHANGED <<nextSibling, queue, base>>
  BY DEF Iterate, Recheck, Take
<1>2. \A r \in Regions : r # t => pc'[r] = pc[r]
  BY <1>p DEF Iterate, Recheck, Take
<1>3. pc'[t] \notin AdderPCs
  BY <1>p DEF Iterate, Recheck, Take, AdderPCs
<1>4. pc'[t] \in NapPCs => queue[t] = << >> \/ ~Singleton(Head(queue[t]))
  BY <1>p DEF Iterate, Recheck, Take, NapPCs, Blocked
<1>5. queue[t] # << >> => 1 \in 1..Len(queue[t]) /\ Head(queue[t]) = queue[t][1]
  BY <1>p, SeqTail
<1>6. Napping(t)'
  BY <1>1, <1>3, <1>4, <1>5 DEF Napping, Singleton
<1>7. ASSUME NEW r \in Regions, r # t PROVE Napping(r)'
  BY <1>7, <1>1, <1>2, NapKept DEF Naps
<1> QED
  BY <1>6, <1>7 DEF Naps

\* The other steps of a processor that serves its region.
LEMMA ServerNaps ==
  ASSUME Inv, Excl, Naps, NEW t \in Regions,
         \/ Idle(t) \/ Sleep(t) \/ Timeout(t) \/ NextCall(t) \/ EndSession(t)
         \/ EndBody(t) \/ DecrementCount(t)
  PROVE  Naps'
<1>p. pc \in [Regions -> PCs]
  BY DEF Inv, TypeOK, ThreadTypes
<1>1. UNCHANGED <<nextSibling, queue, base>>
  BY DEF Idle, Sleep, Timeout, NextCall, EndSession, EndBody, DecrementCount, sessionVars,
         localVars
<1>2. \A r \in Regions : r # t => pc'[r] = pc[r]
  BY <1>p DEF Idle, Sleep, Timeout, NextCall, EndSession, EndBody, DecrementCount
<1>3. pc'[t] \notin AdderPCs /\ (pc'[t] \in NapPCs => pc[t] \in NapPCs)
  BY <1>p DEF Idle, Sleep, Timeout, NextCall, EndSession, EndBody, DecrementCount,
              AdderPCs, NapPCs
<1> QED
  BY <1>1, <1>2, <1>3, QuietNaps

\* The last session wakes the main processor.
LEMMA WakeMainNaps ==
  ASSUME Inv, Excl, Naps, NEW t \in Regions, WakeMain(t)
  PROVE  Naps'
<1>p. pc \in [Regions -> PCs] /\ [pc EXCEPT ![t] = "iterate"] \in [Regions -> PCs]
  BY DEF Inv, TypeOK, ThreadTypes, PCs
<1>1. UNCHANGED <<nextSibling, queue, base>>
  BY DEF WakeMain, sessionVars, localVars
<1>n. PICK next : next = [pc EXCEPT ![t] = "iterate"]
  OBVIOUS
<1>2. \A u \in Regions : pc'[u] = pc[u] \/ pc'[u] = "iterate"
  <2>1. next \in [Regions -> PCs] /\ pc' = Woken(next, Main)
    BY <1>p, <1>n DEF WakeMain
  <2>2. \A u \in Regions : pc'[u] = next[u] \/ pc'[u] = "iterate"
    BY <2>1, WokenIs, MainAssumption
  <2>3. \A u \in Regions : next[u] = pc[u] \/ next[u] = "iterate"
    BY <1>p, <1>n
  <2> QED
    BY <2>2, <2>3
<1> QED
  BY <1>1, <1>2, QuietNaps DEF NapPCs, AdderPCs

\* The processor that removes a session is awake.
LEMMA RemoveSessionNaps ==
  ASSUME Inv, Excl, Naps, NEW t \in Regions, RemoveSession(t)
  PROVE  Naps'
<1>p. pc \in [Regions -> PCs] /\ queue \in [Regions -> Seq(1..allocated)]
  BY DEF Inv, TypeOK, ThreadTypes, SharedTypes
<1>1. UNCHANGED <<nextSibling, base>>
  BY DEF RemoveSession
<1>2. \A r \in Regions : r # t => pc'[r] = pc[r] /\ queue'[r] = queue[r]
  BY <1>p DEF RemoveSession
<1>3. pc'[t] \notin AdderPCs /\ pc'[t] \notin NapPCs
  BY <1>p DEF RemoveSession, AdderPCs, NapPCs
<1>4. ASSUME NEW r \in Regions PROVE Napping(r)'
  <2>1. pc'[r] \in NapPCs => pc[r] \in NapPCs /\ queue'[r] = queue[r]
    BY <1>2, <1>3
  <2>2. pc'[r] \in AdderPCs => pc[r] \in AdderPCs /\ base'[r] = base[r]
    BY <1>1, <1>2, <1>3
  <2> QED
    BY <2>1, <2>2, <1>1, NapKept DEF Naps
<1> QED
  BY <1>4 DEF Naps

\* The steps of a promotion that move nothing.
LEMMA PromoteNaps ==
  ASSUME Inv, Excl, Naps, NEW t \in Regions,
         \/ PromoteLock(t) \/ PromoteRegion(t) \/ PromoteSibling(t) \/ PromoteFault(t)
         \/ PromoteDone(t)
  PROVE  Naps'
<1>p. pc \in [Regions -> PCs] /\ base \in [Regions -> (1..allocated) \union {None}]
  BY DEF Inv, TypeOK, ThreadTypes
<1>1. UNCHANGED <<nextSibling, queue>>
  BY DEF PromoteLock, PromoteRegion, PromoteSibling, PromoteFault, PromoteDone, sessionVars
<1>2. \A r \in Regions : r # t => pc'[r] = pc[r] /\ base'[r] = base[r]
  BY <1>p DEF PromoteLock, PromoteRegion, PromoteSibling, PromoteFault, PromoteDone, localVars
<1>3. \/ pc'[t] \notin AdderPCs /\ pc'[t] \notin NapPCs
      \/ pc'[t] = pc[t] /\ base'[t] = base[t]
  BY <1>p DEF PromoteLock, PromoteRegion, PromoteSibling, PromoteFault, PromoteDone,
              AdderPCs, NapPCs, localVars
<1> QED
  BY <1>1, <1>2, <1>3, QuietNaps

\* The processors of the siblings are woken.
LEMMA PromoteWakeNaps ==
  ASSUME Inv, Excl, Naps, NEW t \in Regions, PromoteWake(t)
  PROVE  Naps'
<1>p. pc \in [Regions -> PCs]
  BY DEF Inv, TypeOK, ThreadTypes
<1>r. PICK r : r = callee[nextSibling[sib[t]]]
  OBVIOUS
<1>1. r \in Regions
  <2>1. sib[t] \in 1..allocated
    BY Pointers DEF PromoteWake, SiblingPCs
  <2>2. nextSibling[sib[t]] \in 1..allocated
    BY <2>1, Pointers
  <2> QED
    BY <2>2, <1>r, Pointers
<1>2. \A u \in Regions : Woken(pc, r)[u] = pc[u] \/ Woken(pc, r)[u] = "iterate"
  BY <1>1, <1>p, WokenIs
<1>3. \A u \in Regions : pc'[u] = pc[u] \/ pc'[u] \in {"iterate", "prDone"}
  BY <1>p, <1>r, <1>2 DEF PromoteWake
<1>4. UNCHANGED <<nextSibling, queue, base>>
  BY DEF PromoteWake, sessionVars
<1> QED
  BY <1>3, <1>4, QuietNaps DEF NapPCs, AdderPCs

\* A promotion moves a session to the front of its own region.
LEMMA PromoteScanNaps ==
  ASSUME Inv, Excl, Naps, NEW t \in Regions, PromoteScan(t)
  PROVE  Naps'
<1>p. /\ pc \in [Regions -> PCs] /\ queue \in [Regions -> Seq(1..allocated)]
      /\ base \in [Regions -> (1..allocated) \union {None}]
  BY DEF Inv, TypeOK, ThreadTypes, SharedTypes
<1>1. UNCHANGED nextSibling
  BY DEF PromoteScan
<1>2. \A r \in Regions : r # t => pc'[r] = pc[r] /\ queue'[r] = queue[r] /\ base'[r] = base[r]
  BY <1>p DEF PromoteScan
<1>3. pc'[t] \notin AdderPCs /\ pc'[t] \notin NapPCs
  BY <1>p DEF PromoteScan, AdderPCs, NapPCs
<1>4. ASSUME NEW r \in Regions PROVE Napping(r)'
  <2>1. pc'[r] \in NapPCs => pc[r] \in NapPCs /\ queue'[r] = queue[r]
    BY <1>2, <1>3
  <2>2. pc'[r] \in AdderPCs => pc[r] \in AdderPCs /\ base'[r] = base[r]
    BY <1>2, <1>3
  <2> QED
    BY <2>1, <2>2, <1>1, NapKept DEF Naps
<1> QED
  BY <1>4 DEF Naps

\* A promoted session is one of a multisession, whoever sleeps over it.
LEMMA PromoteMarkNaps ==
  ASSUME Inv, Excl, Naps, NEW t \in Regions, PromoteMark(t)
  PROVE  Naps'
<1>p. /\ pc \in [Regions -> PCs] /\ queue \in [Regions -> Seq(1..allocated)]
      /\ step[t] \in Nat /\ locks[t] \in Nat /\ allocated \in Nat
  BY DEF Inv, TypeOK, ThreadTypes, SharedTypes, SessionTypes
<1>0. pc[t] = "prMark" /\ UNCHANGED <<nextSibling, base>>
  BY DEF PromoteMark
<1>1. \A u \in Regions : pc'[u] = pc[u] \/ pc'[u] \in {"prWake", "prScan"}
  BY <1>p DEF PromoteMark
<1>2. CASE ~(step[t] < locks[t] /\ ready[t])
  <2>1. UNCHANGED queue
    BY <1>2 DEF PromoteMark
  <2> QED
    BY <2>1, <1>0, <1>1, QuietNaps DEF NapPCs, AdderPCs
<1>3. CASE step[t] < locks[t] /\ ready[t]
  <2>s. PICK s, r : s = (IF step[t] = 0 THEN base[t] ELSE nextSibling[sib[t]]) /\ r = callee[s]
    OBVIOUS
  <2>0. queue' = [queue EXCEPT ![r] = MoveToFirst(@, s)]
    <3>1. step[t] # locks[t]
      BY <1>3, <1>p
    <3> QED
      BY <3>1, <1>3, <2>s DEF PromoteMark
  <2>b. base[t] \in 1..allocated
    BY <1>0, Pointers DEF BasePCs
  <2>g. PICK f \in 1..allocated, l \in 1..allocated : RingAt(f, l) /\ base[t] \in f..l
    BY <2>b, RingOf
  <2>1. s \in f..l /\ Distance(base[t], s, l - f + 1) = step[t]
    BY <1>0, <1>3, <2>g, <2>s, MarkedSession
  <2>2. s \in 1..allocated /\ r \in Regions
    <3>1. s \in 1..allocated
      BY <2>1, <2>g, <1>p DEF RingAt
    <3> QED
      BY <3>1, <2>s, Pointers
  <2>3. ~isRunning[s]
    <3>1. ~(Distance(base[t], s, l - f + 1) < step[t])
      BY <2>1, <1>p
    <3> QED
      BY <3>1, <2>1, <2>g, <1>0, <1>3 DEF Excl, PromoterOK
  <2>4. PICK p \in 1..Len(queue[r]) : queue[r][p] = s
    <3>1. pc[t] \in {"prSibling", "prMark"}
      BY <1>0
    <3> QED
      BY <3>1, <2>1, <2>3, <2>g, <2>s, RingIsThere
  <2>5. ~Singleton(s)
    <3>1. ~Singleton(base[t])
      BY <1>0 DEF Excl, PromoterOK
    <3>2. Singleton(s) => f = l
      BY <2>1, <2>g, <1>p, NextIs DEF Singleton
    <3> QED
      BY <3>1, <3>2, <2>1, <2>g
  <2>6. /\ 1 \in 1..Len(queue'[r]) /\ queue'[r][1] = s
        /\ \A u \in Regions : u # r => queue'[u] = queue[u]
    <3> DEFINE S == 1..allocated
    <3>1. queue[r] \in Seq(S) /\ Distinct(queue[r])
      BY <1>p, <2>2 DEF Excl, QueueOK
    <3> HIDE DEF S
    <3>2. LET m == MoveToFirst(queue[r], queue[r][p])
          IN  Len(m) = Len(queue[r]) /\ m[1] = queue[r][p]
      BY <3>1, <2>4, MoveToFirstIs
    <3>3. queue'[r] = MoveToFirst(queue[r], queue[r][p])
      BY <2>0, <2>2, <2>4, <1>p
    <3>4. 1 \in 1..Len(queue[r])
      BY <2>4, <3>1
    <3> QED
      BY <3>2, <3>3, <3>4, <2>0, <2>4, <1>p
  <2>7. ASSUME NEW u \in Regions PROVE Napping(u)'
    <3>1. Napping(u)
      BY DEF Naps
    <3>2. /\ pc'[u] \in NapPCs => pc[u] \in NapPCs
          /\ pc'[u] \in AdderPCs => pc[u] \in AdderPCs /\ base'[u] = base[u]
      BY <1>0, <1>1 DEF NapPCs, AdderPCs
    <3>3. CASE u = r
      <4>1. (\E i \in 1..Len(queue[u]) : ~Singleton(queue[u][i]))'
        BY <2>5, <2>6, <3>3, <1>0 DEF Singleton
      <4>2. (pc[u] \in AdderPCs => ~Singleton(base[u]))'
        BY <3>1, <3>2, <1>0 DEF Napping, Singleton
      <4> QED
        BY <4>1, <4>2 DEF Napping
    <3>4. CASE u # r
      BY <3>1, <3>2, <3>4, <2>6, <1>0, NapKept
    <3> QED
      BY <3>3, <3>4
  <2> QED
    BY <2>7 DEF Naps
<1> QED
  BY <1>2, <1>3

\* Nobody naps at first.
LEMMA InitNaps == Init => Naps
BY DEF Init, Naps, Napping, NapPCs, AdderPCs

\* Every step keeps it.
LEMMA NextNaps == Inv /\ Excl /\ Naps /\ [Next]_vars => Naps'
<1> SUFFICES ASSUME Inv, Excl, Naps, [Next]_vars PROVE Naps'
  OBVIOUS
<1>1. CASE UNCHANGED vars
  BY <1>1, QuietNaps DEF vars, sessionVars, localVars
<1>2. CASE Terminated
  BY <1>2, QuietNaps DEF Terminated, vars, sessionVars, localVars
<1>3. ASSUME NEW t \in Regions, Client(t) PROVE Naps'
  BY <1>3, OpenBlockNaps, AddCallNaps, AppendSessionNaps, AppendSiblingNaps,
     WakeCalleeNaps, ClientNaps
  DEF Client
<1>4. ASSUME NEW t \in Regions, Server(t) PROVE Naps'
  BY <1>4, IterateNaps, ServerNaps, RemoveSessionNaps, WakeMainNaps DEF Server
<1>5. ASSUME NEW t \in Regions, Promote(t) PROVE Naps'
  BY <1>5, PromoteNaps, PromoteScanNaps, PromoteMarkNaps, PromoteWakeNaps DEF Promote
<1> QED
  BY <1>1, <1>2, <1>3, <1>4, <1>5 DEF Next, Thread

\* A processor that waits on its condition variable over sessions has a multisession
\* among them: the wakeup of a session submitted alone is never lost.
THEOREM SpecSleepsOnlyOverMultisessions == Spec => []SleepsOnlyOverMultisessions
<1>1. Init => Naps
  BY InitNaps
<1>2. (Inv /\ Excl) /\ Naps /\ [Next]_vars => Naps'
  BY NextNaps
<1>3. Naps => SleepsOnlyOverMultisessions
  BY DEF Naps, Napping, NapPCs, SleepsOnlyOverMultisessions
<1> QED
  BY <1>1, <1>2, <1>3, SpecExcl, PTL DEF Spec

-----------------------------------------------------------------------------
(***************************************************************************)
(* The session count: ExitIsFinal, and what makes it inductive.            *)
(***************************************************************************)

\* The submitted sessions that were not removed.
Live == {s \in 1..allocated : isSubmitted[s] /\ s \notin freed}

\* The processors that counted a session and did not queue it yet, or that
\* removed one (or ended the root creation procedure) and did not uncount it yet.
MovingPCs == {"append", "decrement"}
Moving == {t \in Regions : pc[t] \in MovingPCs}

\* The processors that execute a feature outside of any session: the main one, in
\* the root creation procedure.
Root == {t \in Regions : cur[t] = None /\ pc[t] \in ClientPCs}

\* GE_unprotected_scoop_sessions_count counts these, each once.
Counted ==
  /\ IsFiniteSet(Live) /\ IsFiniteSet(Moving) /\ IsFiniteSet(Root)
  /\ count = Cardinality(Live) + Cardinality(Moving) + Cardinality(Root)

\* A session that was not submitted belongs to a feature that has it open.
Owned ==
  /\ \A t \in Regions : block[t] # << >> => pc[t] \in ClientPCs
  /\ \A s \in 1..allocated : ~isSubmitted[s] /\ s \notin freed =>
       \E t \in Regions : \E i \in 1..Len(block[t]) : block[t][i] = s

\* A processor left its loop only with a zero count.
Exited == \A t \in Regions : pc[t] = "exited" => count = 0

Counts == Counted /\ Owned /\ Exited
\* One element more, one less.
LEMMA OneMore ==
  ASSUME NEW S, NEW T, NEW x, IsFiniteSet(S), x \notin S, T = S \union {x}
  PROVE  IsFiniteSet(T) /\ Cardinality(T) = Cardinality(S) + 1 /\ Cardinality(S) \in Nat
BY FS_AddElement, FS_CardinalityType

\* A finite set without one of its elements.
LEMMA OneLess ==
  ASSUME NEW S, NEW T, NEW x, IsFiniteSet(S), x \in S, T = S \ {x}
  PROVE  /\ IsFiniteSet(T) /\ Cardinality(T) = Cardinality(S) - 1
         /\ Cardinality(S) \in Nat /\ Cardinality(T) \in Nat
BY FS_RemoveElement, FS_CardinalityType

\* What is left when nothing is counted: no processor executes anything.
LEMMA ZeroCount ==
  ASSUME Inv, Excl, Counts, count = 0
  PROVE  /\ Live = {} /\ Moving = {}
         /\ \A t \in Regions : cur[t] = None /\ pc[t] \notin ClientPCs
<1>1. /\ Cardinality(Live) \in Nat /\ Cardinality(Moving) \in Nat /\ Cardinality(Root) \in Nat
      /\ 0 = Cardinality(Live) + Cardinality(Moving) + Cardinality(Root)
  BY FS_CardinalityType DEF Counts, Counted
<1>2. Cardinality(Live) = 0 /\ Cardinality(Moving) = 0 /\ Cardinality(Root) = 0
  BY <1>1
<1>3. Live = {} /\ Moving = {} /\ Root = {}
  BY <1>2, FS_EmptySet DEF Counts, Counted
<1>4. ASSUME NEW t \in Regions, cur[t] # None PROVE FALSE
  <2>1. /\ queue[t] \in Seq(1..allocated) /\ queue[t] # << >> /\ cur[t] = queue[t][1]
        /\ QueueOK(t)
    BY <1>4, Pointers DEF Excl, QueueOK, Inv, LocalsSet
  <2>2. 1 \in 1..Len(queue[t])
    BY <2>1, SeqTail
  <2>3. isSubmitted[cur[t]] /\ cur[t] \notin freed /\ cur[t] \in 1..allocated
    BY <2>1, <2>2, SeqElements DEF QueueOK
  <2> QED
    BY <2>3, <1>3 DEF Live
<1> QED
  BY <1>3, <1>4 DEF Root

\* A step that neither submits, removes nor counts sessions, and does not end the root
\* creation procedure.
CountQuiet(u) ==
  /\ pc'[u] \in MovingPCs <=> pc[u] \in MovingPCs
  /\ cur'[u] = None /\ pc'[u] \in ClientPCs <=> cur[u] = None /\ pc[u] \in ClientPCs
  /\ block[u] # << >> /\ pc[u] \in ClientPCs => pc'[u] \in ClientPCs
  /\ pc'[u] = "exited" => pc[u] = "exited" \/ count = 0

\* Steps that submit and free nothing, and after which the same processors are moving
\* a session or in the root creation procedure.
LEMMA QuietCounts ==
  ASSUME Inv, Excl, Counts, UNCHANGED <<allocated, isSubmitted, freed, block, count>>,
         \A u \in Regions : CountQuiet(u)
  PROVE  Counts'
<1>1. Live' = Live
  BY DEF Live
<1>2. Moving' = Moving
  BY DEF Moving, CountQuiet
<1>3. Root' = Root
  BY DEF Root, CountQuiet
<1>4. Counted'
  BY <1>1, <1>2, <1>3 DEF Counts, Counted
<1>5. Owned'
  BY DEF Counts, Owned, CountQuiet
<1>6. Exited'
  BY DEF Counts, Exited, CountQuiet
<1> QED
  BY <1>4, <1>5, <1>6 DEF Counts

\* A call is logged.
LEMMA AddCallCounts ==
  ASSUME Inv, Excl, Counts, NEW t \in Regions, AddCall(t)
  PROVE  Counts'
<1>1. PICK s, k : AddCallTo(t, s, k)
  BY DEF AddCall
<1>2. UNCHANGED <<allocated, isSubmitted, freed, block, count, cur>>
  BY <1>1 DEF AddCallTo
<1>3. \A u \in Regions : u # t => pc'[u] = pc[u]
  BY <1>1 DEF AddCallTo, Inv, TypeOK, ThreadTypes
<1>4. pc[t] = "body" /\ pc'[t] \in ClientPCs \ MovingPCs
  BY <1>1 DEF AddCall, AddCallTo, Inv, TypeOK, ThreadTypes, ClientPCs, MovingPCs
<1>5. \A u \in Regions : CountQuiet(u)
  BY <1>2, <1>3, <1>4 DEF CountQuiet, ClientPCs, MovingPCs
<1> QED
  BY <1>2, <1>5, QuietCounts

\* The other steps of a client that change no counter.
LEMMA ClientCounts ==
  ASSUME Inv, Excl, Counts, NEW t \in Regions,
         LockMultisessions(t) \/ LockCallee(t) \/ SyncReturn(t)
  PROVE  Counts'
<1>2. UNCHANGED <<allocated, isSubmitted, freed, block, count, cur>>
  BY DEF LockMultisessions, LockCallee, SyncReturn, sessionVars
<1>3. \A u \in Regions : u # t => pc'[u] = pc[u]
  BY DEF LockMultisessions, LockCallee, SyncReturn, Inv, TypeOK, ThreadTypes
<1>4. pc[t] \in ClientPCs \ MovingPCs /\ pc'[t] \in ClientPCs \ MovingPCs
  BY DEF LockMultisessions, LockCallee, SyncReturn, Inv, TypeOK, ThreadTypes, ClientPCs,
         MovingPCs
<1>5. \A u \in Regions : CountQuiet(u)
  BY <1>2, <1>3, <1>4 DEF CountQuiet, ClientPCs
<1> QED
  BY <1>2, <1>5, QuietCounts

\* The callees of a multisession are woken.
LEMMA WakeCalleeCounts ==
  ASSUME Inv, Excl, Counts, NEW t \in Regions, WakeCallee(t)
  PROVE  Counts'
<1>p. pc \in [Regions -> PCs]
  BY DEF Inv, TypeOK, ThreadTypes
<1>r. PICK r : r = callee[sib[t]]
  OBVIOUS
<1>1. r \in Regions
  <2>1. sib[t] \in 1..allocated
    BY Pointers DEF WakeCallee, SiblingPCs
  <2> QED
    BY <2>1, <1>r, Pointers
<1>2. /\ Woken(pc, r) \in [Regions -> PCs]
      /\ \A u \in Regions : \/ Woken(pc, r)[u] = pc[u]
                            \/ pc[u] = "waiting" /\ Woken(pc, r)[u] = "iterate"
  BY <1>1, <1>p, WokenIs
<1>3. \A u \in Regions : u # t =>
         pc'[u] = pc[u] \/ (pc[u] = "waiting" /\ pc'[u] = "iterate")
  BY <1>p, <1>r, <1>2 DEF WakeCallee, CallLogged
<1>4. pc[t] = "mWake" /\ pc'[t] \in {"mWake", "sync", "body"}
  BY <1>p, <1>r, <1>2 DEF WakeCallee, CallLogged
<1>5. UNCHANGED <<allocated, isSubmitted, freed, block, count, cur>>
  BY DEF WakeCallee, sessionVars
<1>6. \A u \in Regions : CountQuiet(u)
  BY <1>3, <1>4, <1>5 DEF CountQuiet, ClientPCs, MovingPCs
<1> QED
  BY <1>5, <1>6, QuietCounts

\* The steps of a processor between two sessions, and within a promotion.
LEMMA ServerCounts ==
  ASSUME Inv, Excl, Counts, NEW t \in Regions,
         \/ Iterate(t) \/ Recheck(t) \/ Idle(t) \/ Sleep(t) \/ Timeout(t) \/ EndSession(t)
         \/ PromoteLock(t) \/ PromoteRegion(t) \/ PromoteScan(t) \/ PromoteSibling(t)
         \/ PromoteMark(t) \/ PromoteDone(t)
  PROVE  Counts'
<1>p. pc \in [Regions -> PCs] /\ cur \in [Regions -> (1..allocated) \union {None}]
  BY DEF Inv, TypeOK, ThreadTypes
<1>2. UNCHANGED <<allocated, isSubmitted, freed, block, count>>
  BY DEF Iterate, Recheck, Idle, Sleep, Timeout, EndSession, PromoteLock, PromoteRegion,
         PromoteScan, PromoteSibling, PromoteMark, PromoteDone, sessionVars, localVars
<1>3. \A u \in Regions : u # t => pc'[u] = pc[u] /\ cur'[u] = cur[u]
  BY <1>p DEF Iterate, Recheck, Idle, Sleep, Timeout, EndSession, PromoteLock, PromoteRegion,
         PromoteScan, PromoteSibling, PromoteMark, PromoteDone, Take, localVars
<1>4. pc[t] \notin ClientPCs \union MovingPCs
  BY DEF Iterate, Recheck, Idle, Sleep, Timeout, EndSession, PromoteLock, PromoteRegion,
         PromoteScan, PromoteSibling, PromoteMark, PromoteDone, ClientPCs, MovingPCs
<1>5. pc'[t] \notin ClientPCs \union MovingPCs
  BY <1>p DEF Iterate, Recheck, Idle, Sleep, Timeout, EndSession, PromoteLock, PromoteRegion,
         PromoteScan, PromoteSibling, PromoteMark, PromoteDone, Take, ClientPCs, MovingPCs
<1>6. pc'[t] = "exited" => count = 0
  BY <1>p DEF Iterate, Recheck, Idle, Sleep, Timeout, EndSession, PromoteLock, PromoteRegion,
         PromoteScan, PromoteSibling, PromoteMark, PromoteDone, Take
<1>7. \A u \in Regions : CountQuiet(u)
  BY <1>2, <1>3, <1>4, <1>5, <1>6 DEF CountQuiet
<1> QED
  BY <1>2, <1>7, QuietCounts

\* The processors of the siblings are woken.
LEMMA PromoteWakeCounts ==
  ASSUME Inv, Excl, Counts, NEW t \in Regions, PromoteWake(t)
  PROVE  Counts'
<1>p. pc \in [Regions -> PCs]
  BY DEF Inv, TypeOK, ThreadTypes
<1>r. PICK r : r = callee[nextSibling[sib[t]]]
  OBVIOUS
<1>1. r \in Regions
  <2>1. sib[t] \in 1..allocated
    BY Pointers DEF PromoteWake, SiblingPCs
  <2>2. nextSibling[sib[t]] \in 1..allocated
    BY <2>1, Pointers
  <2> QED
    BY <2>2, <1>r, Pointers
<1>2. \A u \in Regions : \/ Woken(pc, r)[u] = pc[u]
                         \/ pc[u] = "waiting" /\ Woken(pc, r)[u] = "iterate"
  BY <1>1, <1>p, WokenIs
<1>3. \A u \in Regions : \/ pc'[u] = pc[u]
                         \/ pc[u] \in {"waiting", "prWake"} /\ pc'[u] \in {"iterate", "prDone"}
  BY <1>p, <1>r, <1>2 DEF PromoteWake
<1>4. UNCHANGED <<allocated, isSubmitted, freed, block, count, cur>>
  BY DEF PromoteWake, sessionVars
<1>5. \A u \in Regions : CountQuiet(u)
  BY <1>3, <1>4 DEF CountQuiet, ClientPCs, MovingPCs
<1> QED
  BY <1>4, <1>5, QuietCounts

\* The main processor is woken.
LEMMA WakeMainCounts ==
  ASSUME Inv, Excl, Counts, NEW t \in Regions, WakeMain(t)
  PROVE  Counts'
<1>p. pc \in [Regions -> PCs] /\ pc[t] = "wakeMain"
  BY DEF Inv, TypeOK, ThreadTypes, WakeMain
<1>n. PICK next : next = [pc EXCEPT ![t] = "iterate"]
  OBVIOUS
<1>1. UNCHANGED <<allocated, isSubmitted, freed, block, count, cur>>
  BY DEF WakeMain, sessionVars, localVars
<1>2. \A u \in Regions : pc'[u] = pc[u] \/ (pc[u] \in {"waiting", "wakeMain"} /\ pc'[u] = "iterate")
  <2>1. next \in [Regions -> PCs] /\ pc' = Woken(next, Main)
    BY <1>p, <1>n DEF WakeMain, PCs
  <2>2. \A u \in Regions : pc'[u] = next[u] \/ (next[u] = "waiting" /\ pc'[u] = "iterate")
    BY <2>1, WokenIs, MainAssumption
  <2>3. \A u \in Regions : next[u] = pc[u] \/ (pc[u] = "wakeMain" /\ next[u] = "iterate")
    BY <1>p, <1>n
  <2> QED
    BY <2>2, <2>3
<1>3. \A u \in Regions : CountQuiet(u)
  BY <1>1, <1>2 DEF CountQuiet, ClientPCs, MovingPCs
<1> QED
  BY <1>1, <1>3, QuietCounts

\* The calls of a session.
LEMMA CallCounts ==
  ASSUME Inv, Excl, Counts, NEW t \in Regions,
         NextCall(t) \/ (EndBody(t) /\ cur[t] # None)
  PROVE  Counts'
<1>p. pc \in [Regions -> PCs]
  BY DEF Inv, TypeOK, ThreadTypes
<1>1. UNCHANGED <<allocated, isSubmitted, freed, block, count, cur>>
  BY DEF NextCall, EndBody
<1>2. \A u \in Regions : u # t => pc'[u] = pc[u]
  BY <1>p DEF NextCall, EndBody
<1>3. pc[t] \in {"exec", "body"} /\ pc'[t] \in {"body", "exec"} /\ cur[t] # None
  BY <1>p DEF NextCall, EndBody, Inv, LocalsSet
<1>4. pc[t] = "body" => block[t] = << >>
  BY DEF NextCall, EndBody
<1>5. \A u \in Regions : CountQuiet(u)
  BY <1>1, <1>2, <1>3, <1>4 DEF CountQuiet, ClientPCs, MovingPCs
<1> QED
  BY <1>1, <1>5, QuietCounts

\* Nobody has exited while a feature is executed.
LEMMA NobodyExited ==
  ASSUME Inv, Excl, Counts, NEW t \in Regions, pc[t] \in ClientPCs
  PROVE  \A u \in Regions : pc[u] # "exited"
<1>1. count # 0
  BY ZeroCount
<1> QED
  BY <1>1 DEF Counts, Exited

\* A session is counted before it is queued.
LEMMA CountSessionCounts ==
  ASSUME Inv, Excl, Counts, NEW t \in Regions, CountSession(t)
  PROVE  Counts'
<1>p. pc \in [Regions -> PCs]
  BY DEF Inv, TypeOK, ThreadTypes
<1>0. /\ pc[t] = "increment" /\ count' = count + 1 /\ pc'[t] = "append"
      /\ \A u \in Regions : u # t => pc'[u] = pc[u]
      /\ UNCHANGED <<allocated, isSubmitted, freed, block, cur>>
  BY <1>p DEF CountSession, sessionVars, localVars
<1>1. Live' = Live
  BY <1>0 DEF Live
<1>2. Root' = Root
  BY <1>0 DEF Root, ClientPCs
<1>3. t \notin Moving /\ Moving' = Moving \union {t}
  BY <1>0 DEF Moving, MovingPCs
<1>4. Counted'
  <2>1. /\ IsFiniteSet(Moving') /\ Cardinality(Moving') = Cardinality(Moving) + 1
        /\ Cardinality(Moving) \in Nat
    BY <1>3, OneMore DEF Counts, Counted
  <2>2. Cardinality(Live) \in Nat /\ Cardinality(Root) \in Nat
    BY FS_CardinalityType DEF Counts, Counted
  <2>3. count' = Cardinality(Live) + (Cardinality(Moving) + 1) + Cardinality(Root)
    BY <2>1, <2>2, <1>0 DEF Counts, Counted
  <2> QED
    BY <2>1, <2>3, <1>1, <1>2 DEF Counts, Counted
<1>5. Owned'
  BY <1>0 DEF Counts, Owned, ClientPCs
<1>6. Exited'
  <2>1. \A u \in Regions : pc[u] # "exited"
    BY <1>0, NobodyExited DEF ClientPCs
  <2> QED
    BY <2>1, <1>0 DEF Exited
<1> QED
  BY <1>4, <1>5, <1>6 DEF Counts

\* The session s becomes one of those that are counted for themselves.
LEMMA Submitted ==
  ASSUME Inv, Excl, NEW s \in 1..allocated, ~isSubmitted[s], s \notin freed,
         isSubmitted' = [isSubmitted EXCEPT ![s] = TRUE], UNCHANGED <<allocated, freed>>
  PROVE  s \notin Live /\ Live' = Live \union {s}
<1>1. s \in Sessions /\ isSubmitted \in [Sessions -> BOOLEAN] /\ 1..allocated \subseteq Sessions
  <2>1. 1..allocated \subseteq Sessions
    BY Pointers, MainAssumption
  <2> QED
    BY <2>1 DEF Inv, TypeOK, SessionTypes
<1>2. isSubmitted'[s] /\ \A x \in 1..allocated : x # s => (isSubmitted'[x] <=> isSubmitted[x])
  BY <1>1
<1> QED
  BY <1>2 DEF Live

\* A session submitted alone: counted by its client until it is queued.
LEMMA AppendSessionCounts ==
  ASSUME Inv, Excl, Counts, NEW t \in Regions, AppendSession(t)
  PROVE  Counts'
<1>p. /\ pc \in [Regions -> PCs] /\ isSubmitted \in [Sessions -> BOOLEAN]
  BY DEF Inv, TypeOK, ThreadTypes, SessionTypes
<1>r. PICK s, r : s = base[t] /\ r = callee[s]
  OBVIOUS
<1>0. /\ pc[t] = "append" /\ isSubmitted' = [isSubmitted EXCEPT ![s] = TRUE]
      /\ UNCHANGED <<allocated, freed, block, count, cur>>
  BY <1>r DEF AppendSession
<1>1. s \in 1..allocated /\ r \in Regions /\ s \in Sessions
  <2>1. s \in 1..allocated
    BY <1>0, <1>r, Pointers DEF BasePCs
  <2> QED
    BY <2>1, <1>r, Pointers
<1>2. ~isSubmitted[s] /\ s \notin freed
  <2>1. ~isSubmitted[s]
    BY <1>0, <1>r DEF Excl, AdderOK
  <2>2. pc[t] \in {"increment", "append", "mLock", "mRegion", "mAppend", "mWake"}
    BY <1>0
  <2>3. s \notin freed
    BY <2>2, <1>r, OwnRing
  <2> QED
    BY <2>1, <2>3
<1>3. /\ Woken(pc, r) \in [Regions -> PCs]
      /\ \A u \in Regions : \/ Woken(pc, r)[u] = pc[u]
                            \/ pc[u] = "waiting" /\ Woken(pc, r)[u] = "iterate"
  BY <1>1, <1>p, WokenIs
<1>4. /\ \A u \in Regions : u # t =>
           pc'[u] = pc[u] \/ (pc[u] = "waiting" /\ pc'[u] = "iterate")
      /\ pc'[t] \in {"sync", "body"}
  BY <1>r, <1>3 DEF AppendSession, CallLogged
<1>5. s \notin Live /\ Live' = Live \union {s}
  BY <1>0, <1>1, <1>2, Submitted
<1>6. t \in Moving /\ Moving' = Moving \ {t}
  BY <1>0, <1>4 DEF Moving, MovingPCs
<1>7. Root' = Root
  BY <1>0, <1>4 DEF Root, ClientPCs
<1>8. Counted'
  <2>1. IsFiniteSet(Live') /\ Cardinality(Live') = Cardinality(Live) + 1 /\ Cardinality(Live) \in Nat
    BY <1>5, OneMore DEF Counts, Counted
  <2>2. /\ IsFiniteSet(Moving') /\ Cardinality(Moving') = Cardinality(Moving) - 1
        /\ Cardinality(Moving) \in Nat
    BY <1>6, OneLess DEF Counts, Counted
  <2>3. Cardinality(Root) \in Nat
    BY FS_CardinalityType DEF Counts, Counted
  <2>4. count = (Cardinality(Live) + 1) + (Cardinality(Moving) - 1) + Cardinality(Root)
    BY <2>1, <2>2, <2>3 DEF Counts, Counted
  <2> QED
    BY <2>1, <2>2, <2>4, <1>0, <1>7 DEF Counts, Counted
<1>9. Owned'
  <2>1. \A x \in 1..allocated : isSubmitted[x] => isSubmitted'[x]
    BY <1>0, <1>1, <1>p, Pointers
  <2> QED
    BY <2>1, <1>0, <1>4 DEF Counts, Owned, ClientPCs
<1>10. Exited'
  BY <1>0, <1>4 DEF Counts, Exited
<1> QED
  BY <1>8, <1>9, <1>10 DEF Counts

\* A session of a multisession: counted as it is queued.
LEMMA AppendSiblingCounts ==
  ASSUME Inv, Excl, Counts, NEW t \in Regions, AppendSibling(t)
  PROVE  Counts'
<1>p. /\ pc \in [Regions -> PCs] /\ isSubmitted \in [Sessions -> BOOLEAN] /\ allocated \in Nat
  BY DEF Inv, TypeOK, ThreadTypes, SessionTypes
<1>r. PICK s : s = sib[t]
  OBVIOUS
<1>0. /\ pc[t] = "mAppend" /\ isSubmitted' = [isSubmitted EXCEPT ![s] = TRUE]
      /\ count' = count + 1 /\ UNCHANGED <<allocated, freed, block, cur>>
      /\ \A u \in Regions : u # t => pc'[u] = pc[u]
      /\ pc'[t] \in {"mAppend", "mWake"}
  BY <1>r, <1>p DEF AppendSibling
<1>1. s \in 1..allocated /\ base[t] \in 1..allocated /\ s \in Sessions
  <2>1. s \in 1..allocated /\ base[t] \in 1..allocated
    BY <1>0, <1>r, Pointers DEF SiblingPCs, BasePCs
  <2> QED
    BY <2>1, Pointers
<1>2. ~isSubmitted[s] /\ s \notin freed
  <2>1. pc[t] \in {"increment", "append", "mLock", "mRegion", "mAppend", "mWake"}
    BY <1>0
  <2>2. PICK f \in 1..allocated, l \in 1..allocated :
           RingAt(f, l) /\ base[t] \in f..l /\ \A x \in f..l : x \notin freed
    BY <2>1, OwnRing
  <2>3. s \in f..l
    BY <2>2, <1>0, <1>r DEF Excl, AdderOK
  <2>4. IF Distance(base[t], s, l - f + 1) < Distance(base[t], s, l - f + 1)
        THEN isSubmitted[s] ELSE ~isSubmitted[s] /\ regionLock[callee[s]] = t
    BY <2>2, <2>3, <1>0, <1>r DEF Excl, AdderOK
  <2>5. Distance(base[t], s, l - f + 1) \in 0..(l - f)
    <3>1. f \in Nat /\ l \in Nat
      BY <1>p
    <3> QED
      BY <3>1, <2>2, <2>3, DistanceIs
  <2>6. ~(Distance(base[t], s, l - f + 1) < Distance(base[t], s, l - f + 1))
    BY <2>5
  <2> QED
    BY <2>2, <2>3, <2>4, <2>6
<1>3. s \notin Live /\ Live' = Live \union {s}
  BY <1>0, <1>1, <1>2, Submitted
<1>4. Moving' = Moving /\ Root' = Root
  BY <1>0 DEF Moving, MovingPCs, Root, ClientPCs
<1>5. Counted'
  <2>1. IsFiniteSet(Live') /\ Cardinality(Live') = Cardinality(Live) + 1 /\ Cardinality(Live) \in Nat
    BY <1>3, OneMore DEF Counts, Counted
  <2>2. Cardinality(Moving) \in Nat /\ Cardinality(Root) \in Nat
    BY FS_CardinalityType DEF Counts, Counted
  <2>3. count' = (Cardinality(Live) + 1) + Cardinality(Moving) + Cardinality(Root)
    BY <2>1, <2>2, <1>0 DEF Counts, Counted
  <2> QED
    BY <2>1, <2>3, <1>4 DEF Counts, Counted
<1>6. Owned'
  <2>1. \A x \in 1..allocated : isSubmitted[x] => isSubmitted'[x]
    BY <1>0, <1>1, <1>p, Pointers
  <2> QED
    BY <2>1, <1>0 DEF Counts, Owned, ClientPCs
<1>7. Exited'
  <2>1. \A u \in Regions : pc[u] # "exited"
    BY <1>0, NobodyExited DEF ClientPCs
  <2> QED
    BY <2>1, <1>0 DEF Exited
<1> QED
  BY <1>5, <1>6, <1>7 DEF Counts

\* A session stays counted between its removal and the decrement.
LEMMA RemoveSessionCounts ==
  ASSUME Inv, Excl, Counts, NEW t \in Regions, RemoveSession(t)
  PROVE  Counts'
<1>p. pc \in [Regions -> PCs] /\ cur \in [Regions -> (1..allocated) \union {None}]
  BY DEF Inv, TypeOK, ThreadTypes
<1>r. PICK s : s = cur[t]
  OBVIOUS
<1>0. /\ pc[t] = "remove" /\ freed' = freed \union {s} /\ pc'[t] = "decrement"
      /\ \A u \in Regions : u # t => pc'[u] = pc[u] /\ cur'[u] = cur[u]
      /\ UNCHANGED <<allocated, isSubmitted, block, count>>
  BY <1>r, <1>p DEF RemoveSession
<1>1. s \in Live
  <2>1. cur[t] # None
    BY <1>0 DEF Inv, LocalsSet
  <2>2. queue[t] \in Seq(1..allocated) /\ queue[t] # << >> /\ s = queue[t][1] /\ QueueOK(t)
    BY <2>1, <1>r, Pointers DEF Inv, LocalsSet, Excl, QueueOK
  <2>3. 1 \in 1..Len(queue[t])
    BY <2>2, SeqTail
  <2>4. isSubmitted[s] /\ s \notin freed /\ s \in 1..allocated
    BY <2>2, <2>3, SeqElements DEF QueueOK
  <2> QED
    BY <2>4 DEF Live
<1>2. Live' = Live \ {s}
  BY <1>0 DEF Live
<1>3. t \notin Moving /\ Moving' = Moving \union {t}
  BY <1>0 DEF Moving, MovingPCs
<1>4. Root' = Root
  BY <1>0 DEF Root, ClientPCs
<1>5. Counted'
  <2>1. IsFiniteSet(Live') /\ Cardinality(Live') = Cardinality(Live) - 1 /\ Cardinality(Live) \in Nat
    BY <1>1, <1>2, OneLess DEF Counts, Counted
  <2>2. /\ IsFiniteSet(Moving') /\ Cardinality(Moving') = Cardinality(Moving) + 1
        /\ Cardinality(Moving) \in Nat
    BY <1>3, OneMore DEF Counts, Counted
  <2>3. Cardinality(Root) \in Nat
    BY FS_CardinalityType DEF Counts, Counted
  <2>4. count = (Cardinality(Live) - 1) + (Cardinality(Moving) + 1) + Cardinality(Root)
    BY <2>1, <2>2, <2>3 DEF Counts, Counted
  <2> QED
    BY <2>1, <2>2, <2>4, <1>0, <1>4 DEF Counts, Counted
<1>6. Owned'
  BY <1>0 DEF Counts, Owned, ClientPCs
<1>7. Exited'
  BY <1>0 DEF Counts, Exited
<1> QED
  BY <1>5, <1>6, <1>7 DEF Counts

\* The count is positive when it is decremented.
LEMMA DecrementCountCounts ==
  ASSUME Inv, Excl, Counts, NEW t \in Regions, DecrementCount(t)
  PROVE  Counts'
<1>p. pc \in [Regions -> PCs] /\ count \in Nat
  BY DEF Inv, TypeOK, ThreadTypes, SharedTypes
<1>0. /\ pc[t] = "decrement" /\ count' = (IF count > 0 THEN count - 1 ELSE count)
      /\ pc'[t] \in {"wakeMain", "iterate"}
      /\ \A u \in Regions : u # t => pc'[u] = pc[u]
      /\ UNCHANGED <<allocated, isSubmitted, freed, block, cur>>
  BY <1>p DEF DecrementCount, sessionVars, localVars
<1>1. Live' = Live /\ Root' = Root
  BY <1>0 DEF Live, Root, ClientPCs
<1>2. t \in Moving /\ Moving' = Moving \ {t}
  BY <1>0 DEF Moving, MovingPCs
<1>3. Counted'
  <2>1. /\ IsFiniteSet(Moving') /\ Cardinality(Moving') = Cardinality(Moving) - 1
        /\ Cardinality(Moving) \in Nat /\ Cardinality(Moving') \in Nat
    BY <1>2, OneLess DEF Counts, Counted
  <2>2. Cardinality(Live) \in Nat /\ Cardinality(Root) \in Nat
    BY FS_CardinalityType DEF Counts, Counted
  <2>3. count' = Cardinality(Live) + (Cardinality(Moving) - 1) + Cardinality(Root)
    BY <2>1, <2>2, <1>0 DEF Counts, Counted
  <2> QED
    BY <2>1, <2>3, <1>1 DEF Counts, Counted
<1>4. Owned'
  BY <1>0 DEF Counts, Owned, ClientPCs
<1>5. Exited'
  BY <1>0, <1>p DEF Counts, Exited
<1> QED
  BY <1>3, <1>4, <1>5 DEF Counts

\* The root creation procedure ends: it stays counted until the decrement.
LEMMA EndRootCounts ==
  ASSUME Inv, Excl, Counts, NEW t \in Regions, EndBody(t), cur[t] = None
  PROVE  Counts'
<1>p. pc \in [Regions -> PCs]
  BY DEF Inv, TypeOK, ThreadTypes
<1>0. /\ pc[t] = "body" /\ block[t] = << >> /\ pc'[t] = "decrement"
      /\ \A u \in Regions : u # t => pc'[u] = pc[u]
      /\ UNCHANGED <<allocated, isSubmitted, freed, block, cur, count>>
  BY <1>p DEF EndBody
<1>1. Live' = Live
  BY <1>0 DEF Live
<1>2. t \in Root /\ Root' = Root \ {t}
  BY <1>0 DEF Root, ClientPCs
<1>3. t \notin Moving /\ Moving' = Moving \union {t}
  BY <1>0 DEF Moving, MovingPCs
<1>4. Counted'
  <2>1. IsFiniteSet(Root') /\ Cardinality(Root') = Cardinality(Root) - 1 /\ Cardinality(Root) \in Nat
    BY <1>2, OneLess DEF Counts, Counted
  <2>2. /\ IsFiniteSet(Moving') /\ Cardinality(Moving') = Cardinality(Moving) + 1
        /\ Cardinality(Moving) \in Nat
    BY <1>3, OneMore DEF Counts, Counted
  <2>3. Cardinality(Live) \in Nat
    BY FS_CardinalityType DEF Counts, Counted
  <2>4. count = Cardinality(Live) + (Cardinality(Moving) + 1) + (Cardinality(Root) - 1)
    BY <2>1, <2>2, <2>3 DEF Counts, Counted
  <2> QED
    BY <2>1, <2>2, <2>4, <1>0, <1>1 DEF Counts, Counted
<1>5. Owned'
  BY <1>0 DEF Counts, Owned, ClientPCs
<1>6. Exited'
  BY <1>0 DEF Counts, Exited
<1> QED
  BY <1>4, <1>5, <1>6 DEF Counts

\* A session that was never submitted is freed by the client that closes it.
LEMMA CloseSessionCounts ==
  ASSUME Inv, Excl, Counts, NEW t \in Regions, CloseSession(t)
  PROVE  Counts'
<1>p. /\ pc \in [Regions -> PCs] /\ block \in [Regions -> Seq(1..allocated)]
  BY DEF Inv, TypeOK, ThreadTypes
<1>s. PICK s, b : s = Head(block[t]) /\ b = block[t]
  OBVIOUS
<1>0. /\ pc[t] \in {"body", "closing"} /\ pc'[t] \in {"body", "closing"} /\ b # << >>
      /\ freed' = (IF isSubmitted[s] THEN freed ELSE freed \union {s})
      /\ block'[t] = Tail(b)
      /\ \A u \in Regions : u # t => pc'[u] = pc[u] /\ block'[u] = block[u]
      /\ UNCHANGED <<allocated, isSubmitted, cur, count>>
  BY <1>s, <1>p DEF CloseSession
<1>1. Live' = Live
  BY <1>0 DEF Live
<1>2. Moving' = Moving /\ Root' = Root
  BY <1>0 DEF Moving, MovingPCs, Root, ClientPCs
<1>3. Counted'
  BY <1>0, <1>1, <1>2 DEF Counts, Counted
<1>b. /\ s = b[1] /\ Len(b) \in Nat /\ Len(Tail(b)) = Len(b) - 1
      /\ \A i \in 1..Len(Tail(b)) : Tail(b)[i] = b[i + 1]
  <2> DEFINE S == 1..allocated
  <2>1. b \in Seq(S)
    BY <1>p, <1>s
  <2> HIDE DEF S
  <2> QED
    BY <2>1, <1>0, <1>s, SeqTail
<1>4. ASSUME NEW x \in 1..allocated, ~isSubmitted[x], x \notin freed'
      PROVE  \E u \in Regions : \E i \in 1..Len(block'[u]) : block'[u][i] = x
  <2>1. x # s /\ x \notin freed
    BY <1>4, <1>0
  <2>2a. PICK u \in Regions : \E i \in 1..Len(block[u]) : block[u][i] = x
    BY <2>1, <1>4 DEF Counts, Owned
  <2>2. PICK i \in 1..Len(block[u]) : block[u][i] = x
    BY <2>2a
  <2>3. CASE u = t
    <3>1. b[i] = x /\ i \in 1..Len(b)
      BY <2>2, <2>3, <1>s
    <3>2. i # 1
      BY <3>1, <2>1, <1>b
    <3>3. i - 1 \in 1..Len(Tail(b)) /\ (i - 1) + 1 = i
      BY <3>1, <3>2, <1>b
    <3>4. Tail(b)[i - 1] = x
      BY <3>1, <3>3, <1>b
    <3> QED
      BY <3>3, <3>4, <1>0
  <2>4. CASE u # t
    BY <2>2, <2>4, <1>0
  <2> QED
    BY <2>3, <2>4
<1>5. Owned'
  BY <1>0, <1>4 DEF Counts, Owned, ClientPCs
<1>6. Exited'
  BY <1>0 DEF Counts, Exited
<1> QED
  BY <1>3, <1>5, <1>6 DEF Counts

\* New sessions belong to the feature that opens them.
LEMMA OpenBlockCounts ==
  ASSUME Inv, Excl, Counts, NEW t \in Regions, OpenBlock(t)
  PROVE  Counts'
<1>p. /\ pc \in [Regions -> PCs] /\ block \in [Regions -> Seq(1..allocated)]
      /\ allocated \in Nat /\ MaxSessions \in Nat
  BY BoundsAssumption DEF Inv, TypeOK, ThreadTypes, SessionTypes
<1>1. PICK b \in Blocks[t] : OpenSessions(t, b)
  BY DEF OpenBlock
<1>b. b \in Seq(Regions \ {t})
  BY <1>1, BlocksAssumption
<1>n. PICK n \in Nat : n = Len(b)
  BY <1>b
<1>a. PICK a \in Nat : a = allocated
  BY <1>p
<1>0. /\ pc[t] = "body" /\ block[t] = << >> /\ allocated' = a + n /\ a + n <= MaxSessions
      /\ block'[t] = [i \in 1..n |-> a + i]
      /\ \A u \in Regions : u # t => block'[u] = block[u]
      /\ UNCHANGED <<pc, cur, isSubmitted, freed, count>>
  BY <1>1, <1>n, <1>a, <1>p DEF OpenBlock, OpenSessions
<1>2. \A s \in 1..(a + n) : s > a => ~isSubmitted[s] /\ s \notin freed
  BY <1>0, <1>a, <1>p DEF Excl, FreshOK, Sessions
<1>3. Live' = Live
  BY <1>0, <1>2, <1>a DEF Live
<1>4. Moving' = Moving /\ Root' = Root
  BY <1>0 DEF Moving, Root
<1>5. Counted'
  BY <1>0, <1>3, <1>4 DEF Counts, Counted
<1>6. ASSUME NEW x \in 1..(a + n), ~isSubmitted[x], x \notin freed
      PROVE  \E u \in Regions : \E i \in 1..Len(block'[u]) : block'[u][i] = x
  <2>1. CASE x <= a
    <3>1. x \in 1..allocated
      BY <2>1, <1>a
    <3>2a. PICK u \in Regions : \E i \in 1..Len(block[u]) : block[u][i] = x
      BY <3>1, <1>6 DEF Counts, Owned
    <3>2. PICK i \in 1..Len(block[u]) : block[u][i] = x
      BY <3>2a
    <3>3. u # t
      BY <3>2, <1>0
    <3> QED
      BY <3>2, <3>3, <1>0
  <2>2. CASE x > a
    <3>1. x - a \in 1..n /\ a + (x - a) = x
      BY <2>2
    <3>2. Len(block'[t]) = n
      BY <1>0
    <3>3. block'[t][x - a] = x
      BY <3>1, <1>0
    <3> QED
      BY <3>1, <3>2, <3>3
  <2> QED
    BY <2>1, <2>2
<1>7. Owned'
  <2>1. \A u \in Regions : block'[u] # << >> => pc'[u] \in ClientPCs
    BY <1>0 DEF Counts, Owned, ClientPCs
  <2> QED
    BY <2>1, <1>0, <1>6 DEF Owned
<1>8. Exited'
  BY <1>0 DEF Counts, Exited
<1> QED
  BY <1>5, <1>7, <1>8 DEF Counts

\* Nothing happens.
LEMMA StutterCounts ==
  ASSUME Inv, Excl, Counts, UNCHANGED <<allocated, isSubmitted, freed, block, count, pc, cur>>
  PROVE  Counts'
BY QuietCounts DEF CountQuiet

\* The root creation procedure is counted from the start.
LEMMA InitCounts == Init => Counts
<1> SUFFICES ASSUME Init PROVE Counts
  OBVIOUS
<1>1. Live = {} /\ Moving = {} /\ Root = {Main}
  <2>1. Live = {}
    BY DEF Init, Live
  <2>2. \A t \in Regions : cur[t] = None /\ pc[t] = IF t = Main THEN "body" ELSE "iterate"
    BY DEF Init
  <2> QED
    BY <2>1, <2>2, MainAssumption DEF Moving, MovingPCs, Root, ClientPCs
<1>2. IsFiniteSet({}) /\ Cardinality({}) = 0
  BY FS_EmptySet
<1>3. IsFiniteSet({Main}) /\ Cardinality({Main}) = 1
  BY FS_Singleton
<1>4. Counted
  BY <1>1, <1>2, <1>3 DEF Counted, Init
<1>5. Owned
  <2>1. 1..allocated = {} /\ \A t \in Regions : block[t] = << >>
    BY DEF Init
  <2> QED
    BY <2>1 DEF Owned
<1>6. Exited
  BY DEF Init, Exited
<1> QED
  BY <1>4, <1>5, <1>6 DEF Counts

\* Every step keeps it.
LEMMA NextCounts == Inv /\ Excl /\ Counts /\ [Next]_vars => Counts'
<1> SUFFICES ASSUME Inv, Excl, Counts, [Next]_vars PROVE Counts'
  OBVIOUS
<1>1. CASE UNCHANGED vars
  BY <1>1, StutterCounts DEF vars, sessionVars, localVars
<1>2. CASE Terminated
  BY <1>2, StutterCounts DEF Terminated, vars, sessionVars, localVars
<1>3. ASSUME NEW t \in Regions, Client(t) PROVE Counts'
  BY <1>3, OpenBlockCounts, AddCallCounts, CountSessionCounts, AppendSessionCounts,
     AppendSiblingCounts, WakeCalleeCounts, CloseSessionCounts, ClientCounts
  DEF Client
<1>4. ASSUME NEW t \in Regions, Server(t) PROVE Counts'
  BY <1>4, ServerCounts, CallCounts, EndRootCounts, RemoveSessionCounts,
     DecrementCountCounts, WakeMainCounts
  DEF Server
<1>5. ASSUME NEW t \in Regions, PromoteFault(t) PROVE Counts'
  BY <1>5, StutterCounts DEF PromoteFault, sessionVars, localVars
<1>6. ASSUME NEW t \in Regions, Promote(t) PROVE Counts'
  BY <1>5, <1>6, ServerCounts, PromoteWakeCounts DEF Promote
<1> QED
  BY <1>1, <1>2, <1>3, <1>4, <1>6 DEF Next, Thread

\* The invariant of the session count.
LEMMA SpecCounts == Spec => [](Inv /\ Excl /\ Counts)
<1>1. Init => Inv /\ Excl /\ Counts
  BY InitInv, InitExcl, InitCounts
<1>2. (Inv /\ Excl /\ Counts) /\ [Next]_vars => (Inv /\ Excl /\ Counts)'
  BY NextInv, NextExcl, NextCounts
<1> QED
  BY <1>1, <1>2, PTL DEF Spec

\* A processor stops only when every session is freed, no processor executes anything
\* and no feature is left that could submit a session: the count is never zero while
\* one of these is on its way.
THEOREM SpecExitIsFinal == Spec => []ExitIsFinal
<1>1. Inv /\ Excl /\ Counts => ExitIsFinal
  <2> SUFFICES ASSUME Inv, Excl, Counts, NEW t \in Regions, pc[t] = "exited"
               PROVE  /\ freed = 1..allocated
                      /\ \A r \in Regions : cur[r] = None /\ block[r] = << >> /\ queue[r] = << >>
    BY DEF ExitIsFinal
  <2>1. count = 0
    BY DEF Counts, Exited
  <2>2. Live = {} /\ \A r \in Regions : cur[r] = None /\ pc[r] \notin ClientPCs
    BY <2>1, ZeroCount
  <2>3. ASSUME NEW r \in Regions PROVE block[r] = << >>
    BY <2>2 DEF Counts, Owned
  <2>4. ASSUME NEW r \in Regions, queue[r] # << >> PROVE FALSE
    <3>1. queue[r] \in Seq(1..allocated) /\ QueueOK(r)
      BY Pointers DEF Excl
    <3>2. 1 \in 1..Len(queue[r])
      BY <3>1, <2>4, SeqTail
    <3>3. queue[r][1] \in 1..allocated /\ isSubmitted[queue[r][1]] /\ queue[r][1] \notin freed
      BY <3>1, <3>2, SeqElements DEF QueueOK
    <3> QED
      BY <3>3, <2>2 DEF Live
  <2>5. freed \subseteq 1..allocated
    <3>1. freed \subseteq Sessions /\ allocated \in Nat /\ MaxSessions \in Nat
      BY BoundsAssumption DEF Inv, TypeOK, SessionTypes
    <3> QED
      BY <3>1 DEF Excl, FreshOK, Sessions
  <2>6. ASSUME NEW s \in 1..allocated, s \notin freed PROVE FALSE
    <3>1. ~isSubmitted[s]
      BY <2>2, <2>6 DEF Live
    <3>2a. PICK u \in Regions : \E i \in 1..Len(block[u]) : block[u][i] = s
      BY <3>1, <2>6 DEF Counts, Owned
    <3>2. PICK i \in 1..Len(block[u]) : block[u][i] = s
      BY <3>2a
    <3>3. Len(block[u]) = 0
      BY <2>3
    <3> QED
      BY <3>2, <3>3
  <2> QED
    BY <2>2, <2>3, <2>4, <2>5, <2>6
<1> QED
  BY <1>1, SpecCounts, PTL

-----------------------------------------------------------------------------
(***************************************************************************)
(* The order of the calls: SingletonsInOrder, and what makes it inductive. *)
(***************************************************************************)

\* The calls of a session: those executed and those still to be executed.
CallsOK(s) ==
  /\ logged[s] = applied[s] + Len(calls[s])
  /\ s > allocated => logged[s] = 0

\* A session is in the block of its client while it is open, and is submitted with
\* its first call; it is freed without calls left.
LedgerOK(s) ==
  /\ isOpen[s] => \E i \in 1..Len(block[caller[s]]) : block[caller[s]][i] = s
  /\ Singleton(s) /\ logged[s] > 0 /\ ~isSubmitted[s] =>
       \E t \in Regions : pc[t] \in {"increment", "append"} /\ base[t] = s
  /\ isSubmitted[s] /\ s \in freed => calls[s] = << >>

\* A feature with one separate argument is over when its client opens other sessions.
ClosedOK(s, x) == s < x /\ caller[s] = caller[x] /\ Singleton(s) => ~isOpen[s]

Ledger ==
  /\ \A s \in Sessions : CallsOK(s)
  /\ \A s \in 1..allocated : LedgerOK(s)
  /\ \A s, x \in 1..allocated : ClosedOK(s, x)
  /\ \A t \in Regions : pc[t] = "remove" => calls[cur[t]] = << >>

\* Singletons of one client are in their order in a queue ...
LineOK(r) ==
  \A i, j \in 1..Len(queue[r]) :
     /\ Singleton(queue[r][i]) /\ Singleton(queue[r][j])
     /\ caller[queue[r][i]] = caller[queue[r][j]] /\ queue[r][i] < queue[r][j]
     => i < j

\* ... and a promotion moves no singleton past another one.
ScanOK(t) ==
  pc[t] = "prScan" \/ Searching(t) =>
    \A i \in 1..Len(queue[t]) : i < scan[t] => ~Singleton(queue[t][i])

Lines == \A r \in Regions : LineOK(r) /\ ScanOK(r)
LedgerQuiet(u) ==
  /\ pc[u] \in {"increment", "append"} =>
       pc'[u] \in {"increment", "append"} /\ base'[u] = base[u]
  /\ pc'[u] = "remove" =>
       cur'[u] = cur[u] /\ (pc[u] = "remove" \/ calls[cur[u]] = << >>)

\* A step that opens, closes, submits and frees nothing, and logs and takes no call.
LEMMA QuietLedger ==
  ASSUME Ledger, UNCHANGED <<allocated, caller, nextSibling, isOpen, block, logged, applied,
                             calls, isSubmitted, freed>>,
         \A u \in Regions : LedgerQuiet(u)
  PROVE  Ledger'
<1>1. \A s \in Sessions : CallsOK(s)'
  BY DEF Ledger, CallsOK
<1>2. ASSUME NEW s \in 1..allocated PROVE LedgerOK(s)'
  <2>1. LedgerOK(s)
    BY DEF Ledger
  <2> QED
    BY <2>1 DEF LedgerOK, LedgerQuiet, Singleton
<1>3. \A s, x \in 1..allocated : ClosedOK(s, x)'
  BY DEF Ledger, ClosedOK, Singleton
<1>4. \A t \in Regions : pc'[t] = "remove" => calls'[cur'[t]] = << >>
  BY DEF Ledger, LedgerQuiet
<1> QED
  BY <1>1, <1>2, <1>3, <1>4 DEF Ledger

\* Steps of t that only move its program counter, or wake other processors.
LEMMA PlainLedger ==
  ASSUME Inv, Excl, Ledger, NEW t \in Regions,
         \/ CountSession(t) \/ LockMultisessions(t) \/ LockCallee(t)
         \/ SyncReturn(t) \/ Iterate(t) \/ Recheck(t) \/ Idle(t) \/ Sleep(t) \/ Timeout(t)
         \/ EndSession(t) \/ EndBody(t) \/ DecrementCount(t)
         \/ PromoteLock(t) \/ PromoteRegion(t) \/ PromoteScan(t) \/ PromoteSibling(t)
         \/ PromoteMark(t) \/ PromoteDone(t)
  PROVE  Ledger'
<1>p. /\ pc \in [Regions -> PCs] /\ base \in [Regions -> (1..allocated) \union {None}]
      /\ cur \in [Regions -> (1..allocated) \union {None}]
  BY DEF Inv, TypeOK, ThreadTypes
<1>1. UNCHANGED <<allocated, caller, nextSibling, isOpen, block, logged, applied,
                  calls, isSubmitted, freed>>
  BY DEF CountSession, LockMultisessions, LockCallee, SyncReturn, Iterate, Recheck, Idle, Sleep,
         Timeout, EndSession, EndBody, DecrementCount, PromoteLock, PromoteRegion, PromoteScan,
         PromoteSibling, PromoteMark, PromoteDone, sessionVars, localVars
<1>2. \A u \in Regions : u # t => pc'[u] = pc[u] /\ base'[u] = base[u] /\ cur'[u] = cur[u]
  BY <1>p DEF CountSession, LockMultisessions, LockCallee, SyncReturn, Iterate, Recheck, Idle,
         Sleep, Timeout, EndSession, EndBody, DecrementCount, PromoteLock, PromoteRegion,
         PromoteScan, PromoteSibling, PromoteMark, PromoteDone, Take, localVars
<1>3. LedgerQuiet(t)
  <2>1. pc[t] \in {"increment", "append"} =>
          pc'[t] \in {"increment", "append"} /\ base'[t] = base[t]
    BY <1>p DEF CountSession, LockMultisessions, LockCallee, SyncReturn, Iterate, Recheck, Idle,
         Sleep, Timeout, EndSession, EndBody, DecrementCount, PromoteLock, PromoteRegion,
         PromoteScan, PromoteSibling, PromoteMark, PromoteDone, localVars
  <2>2. pc'[t] = "remove" => cur'[t] = cur[t] /\ (pc[t] = "remove" \/ calls[cur[t]] = << >>)
    BY <1>p DEF CountSession, LockMultisessions, LockCallee, SyncReturn, Iterate, Recheck, Idle,
         Sleep, Timeout, EndSession, EndBody, DecrementCount, PromoteLock, PromoteRegion,
         PromoteScan, PromoteSibling, PromoteMark, PromoteDone, Take, localVars
  <2> QED
    BY <2>1, <2>2 DEF LedgerQuiet
<1>4. \A u \in Regions : LedgerQuiet(u)
  BY <1>2, <1>3 DEF LedgerQuiet
<1> QED
  BY <1>1, <1>4, QuietLedger

\* The steps that wake a processor.
LEMMA WakeLedger ==
  ASSUME Inv, Excl, Ledger, NEW t \in Regions, WakeCallee(t) \/ PromoteWake(t) \/ WakeMain(t)
  PROVE  Ledger'
<1>p. /\ pc \in [Regions -> PCs] /\ base \in [Regions -> (1..allocated) \union {None}]
  BY DEF Inv, TypeOK, ThreadTypes
<1>1. UNCHANGED <<allocated, caller, nextSibling, isOpen, block, logged, applied,
                  calls, isSubmitted, freed, cur>>
  BY DEF WakeCallee, PromoteWake, WakeMain, sessionVars, localVars
<1>2. \A u \in Regions : /\ pc[u] \in {"increment", "append"} => pc'[u] = pc[u] /\ base'[u] = base[u]
                         /\ pc'[u] = "remove" => pc[u] = "remove"
  <2>1. CASE WakeCallee(t)
    <3>r. PICK r : r = callee[sib[t]]
      OBVIOUS
    <3>1. r \in Regions
      <4>1. sib[t] \in 1..allocated
        BY <2>1, Pointers DEF WakeCallee, SiblingPCs
      <4> QED
        BY <4>1, <3>r, Pointers
    <3>2. /\ Woken(pc, r) \in [Regions -> PCs]
          /\ \A u \in Regions : \/ Woken(pc, r)[u] = pc[u]
                                \/ pc[u] = "waiting" /\ Woken(pc, r)[u] = "iterate"
      BY <3>1, <1>p, WokenIs
    <3>3. \A u \in Regions : u # t =>
            base'[u] = base[u] /\ (pc'[u] = pc[u] \/ (pc[u] = "waiting" /\ pc'[u] = "iterate"))
      BY <2>1, <1>p, <3>r, <3>2 DEF WakeCallee, CallLogged
    <3>4. pc[t] = "mWake" /\ pc'[t] # "remove"
      BY <2>1, <3>r, <3>2 DEF WakeCallee, CallLogged
    <3> QED
      BY <3>3, <3>4
  <2>2. CASE PromoteWake(t)
    <3>r. PICK r : r = callee[nextSibling[sib[t]]]
      OBVIOUS
    <3>1. r \in Regions
      <4>1. sib[t] \in 1..allocated
        BY <2>2, Pointers DEF PromoteWake, SiblingPCs
      <4>2. nextSibling[sib[t]] \in 1..allocated
        BY <4>1, Pointers
      <4> QED
        BY <4>2, <3>r, Pointers
    <3>2. \A u \in Regions : \/ Woken(pc, r)[u] = pc[u]
                             \/ pc[u] = "waiting" /\ Woken(pc, r)[u] = "iterate"
      BY <3>1, <1>p, WokenIs
    <3>3. \A u \in Regions : \/ pc'[u] = pc[u]
                             \/ /\ pc[u] \in {"waiting", "prWake"}
                                /\ pc'[u] \in {"iterate", "prDone"}
      BY <2>2, <1>p, <3>r, <3>2 DEF PromoteWake
    <3> QED
      BY <2>2, <3>3 DEF PromoteWake
  <2>3. CASE WakeMain(t)
    <3>n. PICK next : next = [pc EXCEPT ![t] = "iterate"]
      OBVIOUS
    <3>1. next \in [Regions -> PCs] /\ pc' = Woken(next, Main) /\ pc[t] = "wakeMain"
      BY <2>3, <1>p, <3>n DEF WakeMain, PCs
    <3>2. \A u \in Regions : pc'[u] = next[u] \/ (next[u] = "waiting" /\ pc'[u] = "iterate")
      BY <3>1, WokenIs, MainAssumption
    <3>3. \A u \in Regions : next[u] = pc[u] \/ (pc[u] = "wakeMain" /\ next[u] = "iterate")
      BY <1>p, <3>1, <3>n
    <3> QED
      BY <2>3, <3>2, <3>3 DEF WakeMain, localVars
  <2> QED
    BY <2>1, <2>2, <2>3
<1>3. \A u \in Regions : LedgerQuiet(u)
  BY <1>1, <1>2 DEF LedgerQuiet
<1> QED
  BY <1>1, <1>3, QuietLedger

\* The types of what the ledger is about.
LEMMA CallTypes ==
  ASSUME Inv
  PROVE  /\ pc \in [Regions -> PCs] /\ base \in [Regions -> (1..allocated) \union {None}]
         /\ calls \in [Sessions -> Seq({"async", "sync"})]
         /\ logged \in [Sessions -> Nat] /\ applied \in [Sessions -> Nat]
         /\ allocated \in Nat /\ 1..allocated \subseteq Sessions
<1>1. 1..allocated \subseteq Sessions
  BY Pointers, MainAssumption
<1>2. /\ pc \in [Regions -> PCs] /\ base \in [Regions -> (1..allocated) \union {None}]
  BY DEF Inv, TypeOK, ThreadTypes
<1>3. /\ calls \in [Sessions -> Seq({"async", "sync"})]
      /\ logged \in [Sessions -> Nat] /\ applied \in [Sessions -> Nat] /\ allocated \in Nat
  BY DEF Inv, TypeOK, SessionTypes
<1> QED
  BY <1>1, <1>2, <1>3

\* A call is logged in an open session.
LEMMA AddCallLedger ==
  ASSUME Inv, Excl, Ledger, NEW t \in Regions, AddCall(t)
  PROVE  Ledger'
<1>p. /\ pc \in [Regions -> PCs] /\ base \in [Regions -> (1..allocated) \union {None}]
      /\ calls \in [Sessions -> Seq({"async", "sync"})]
      /\ logged \in [Sessions -> Nat] /\ applied \in [Sessions -> Nat]
      /\ allocated \in Nat /\ 1..allocated \subseteq Sessions
  BY CallTypes
<1>1. PICK i \in 1..Len(block[t]), k \in CallKinds : AddCallTo(t, block[t][i], k)
  BY DEF AddCall
<1>s. PICK s : s = block[t][i]
  OBVIOUS
<1>2. s \in 1..allocated /\ s \in Sessions /\ isOpen[s] /\ k \in {"async", "sync"}
  BY <1>1, <1>p, <1>s, BlockCaller, KindsAssumption
<1>3. /\ calls'[s] = Append(calls[s], k) /\ logged'[s] = logged[s] + 1
      /\ \A x \in Sessions : x # s => calls'[x] = calls[x] /\ logged'[x] = logged[x]
      /\ UNCHANGED <<allocated, caller, nextSibling, isOpen, block, applied, isSubmitted,
                     freed, cur>>
  BY <1>1, <1>2, <1>p, <1>s DEF AddCallTo
<1>4. /\ \A u \in Regions : u # t => pc'[u] = pc[u] /\ base'[u] = base[u]
      /\ pc[t] = "body" /\ pc'[t] # "remove"
      /\ Singleton(s) /\ ~isSubmitted[s] => pc'[t] = "increment" /\ base'[t] = s
  BY <1>1, <1>p, <1>s DEF AddCall, AddCallTo
<1>5. ASSUME NEW x \in Sessions PROVE CallsOK(x)'
  <2>1. CallsOK(x)
    BY DEF Ledger
  <2>2. CASE x = s
    <3>1. Len(Append(calls[s], k)) = Len(calls[s]) + 1 /\ Len(calls[s]) \in Nat
      BY <1>2, <1>p
    <3>2. logged[s] \in Nat /\ applied[s] \in Nat
      BY <1>2, <1>p
    <3>3. ~(s > allocated)
      BY <1>2, <1>p
    <3>4. logged'[s] = applied[s] + Len(calls'[s])
      BY <3>1, <3>2, <2>1, <2>2, <1>3 DEF CallsOK
    <3> QED
      BY <3>3, <3>4, <2>2, <1>3 DEF CallsOK
  <2>3. CASE x # s
    BY <2>1, <2>3, <1>3 DEF CallsOK
  <2> QED
    BY <2>2, <2>3
<1>6. ASSUME NEW x \in 1..allocated PROVE LedgerOK(x)'
  <2>1. LedgerOK(x) /\ x \in Sessions
    BY <1>p DEF Ledger
  <2>2. CASE x = s
    <3>1. s \notin freed
      BY <1>2 DEF Excl, SessionOK
    <3> QED
      BY <3>1, <2>1, <2>2, <1>3, <1>4 DEF LedgerOK, Singleton
  <2>3. CASE x # s
    <3>1. \A u \in Regions : pc[u] \in {"increment", "append"} => u # t
      BY <1>4
    <3> QED
      BY <3>1, <2>1, <2>3, <1>3, <1>4 DEF LedgerOK, Singleton
  <2> QED
    BY <2>2, <2>3
<1>7. \A x, y \in 1..allocated : ClosedOK(x, y)'
  BY <1>3 DEF Ledger, ClosedOK, Singleton
<1>8. ASSUME NEW u \in Regions, pc'[u] = "remove" PROVE calls'[cur'[u]] = << >>
  <2>1. pc[u] = "remove"
    BY <1>4, <1>8
  <2>2. ~isOpen[cur[u]] /\ calls[cur[u]] = << >> /\ cur[u] # None
    BY <2>1 DEF Excl, LocksOK, Ledger, Inv, LocalsSet
  <2>3. cur[u] \in Sessions /\ cur[u] # s
    BY <2>2, <1>2, <1>p, Pointers
  <2> QED
    BY <2>2, <2>3, <1>3
<1> QED
  BY <1>3, <1>5, <1>6, <1>7, <1>8 DEF Ledger

\* Sessions are submitted while they are open.
LEMMA SubmitLedger ==
  ASSUME Inv, Excl, Ledger, NEW s \in 1..allocated, s \notin freed,
         isSubmitted' = [isSubmitted EXCEPT ![s] = TRUE],
         UNCHANGED <<allocated, caller, nextSibling, isOpen, block, logged, applied, calls,
                     freed, cur>>,
         \A u \in Regions :
            /\ pc[u] \in {"increment", "append"} => base[u] = s \/ (pc'[u] = pc[u] /\ base'[u] = base[u])
            /\ pc'[u] = "remove" => pc[u] = "remove"
  PROVE  Ledger'
<1>p. 1..allocated \subseteq Sessions /\ isSubmitted \in [Sessions -> BOOLEAN]
  <2>1. isSubmitted \in [Sessions -> BOOLEAN]
    BY DEF Inv, TypeOK, SessionTypes
  <2> QED
    BY <2>1, CallTypes
<1>1. isSubmitted'[s] /\ \A x \in 1..allocated : x # s => (isSubmitted'[x] <=> isSubmitted[x])
  BY <1>p
<1>2. \A x \in Sessions : CallsOK(x)'
  BY DEF Ledger, CallsOK
<1>3. ASSUME NEW x \in 1..allocated PROVE LedgerOK(x)'
  <2>1. LedgerOK(x)
    BY DEF Ledger
  <2>2. CASE x = s
    BY <2>1, <2>2, <1>1 DEF LedgerOK
  <2>3. CASE x # s
    BY <2>1, <2>3, <1>1 DEF LedgerOK, Singleton
  <2> QED
    BY <2>2, <2>3
<1>4. \A x, y \in 1..allocated : ClosedOK(x, y)'
  BY DEF Ledger, ClosedOK, Singleton
<1>5. \A t \in Regions : pc'[t] = "remove" => calls'[cur'[t]] = << >>
  BY DEF Ledger
<1> QED
  BY <1>2, <1>3, <1>4, <1>5 DEF Ledger

\* A session that stands alone is submitted.
LEMMA AppendSessionLedger ==
  ASSUME Inv, Excl, Ledger, NEW t \in Regions, AppendSession(t)
  PROVE  Ledger'
<1>p. /\ pc \in [Regions -> PCs] /\ base \in [Regions -> (1..allocated) \union {None}]
  BY CallTypes
<1>r. PICK s, r : s = base[t] /\ r = callee[s]
  OBVIOUS
<1>0. /\ pc[t] = "append" /\ isSubmitted' = [isSubmitted EXCEPT ![s] = TRUE]
      /\ UNCHANGED <<allocated, caller, nextSibling, isOpen, block, logged, applied, calls,
                     freed, cur>>
  BY <1>r DEF AppendSession
<1>1. s \in 1..allocated /\ r \in Regions
  <2>1. s \in 1..allocated
    BY <1>0, <1>r, Pointers DEF BasePCs
  <2> QED
    BY <2>1, <1>r, Pointers
<1>2. s \notin freed
  <2>1. pc[t] \in {"increment", "append", "mLock", "mRegion", "mAppend", "mWake"}
    BY <1>0
  <2> QED
    BY <2>1, <1>r, OwnRing
<1>3. /\ Woken(pc, r) \in [Regions -> PCs]
      /\ \A u \in Regions : \/ Woken(pc, r)[u] = pc[u]
                            \/ pc[u] = "waiting" /\ Woken(pc, r)[u] = "iterate"
  BY <1>1, <1>p, WokenIs
<1>4. /\ \A u \in Regions : u # t =>
           /\ base'[u] = base[u]
           /\ pc'[u] = pc[u] \/ (pc[u] = "waiting" /\ pc'[u] = "iterate")
      /\ pc'[t] \in {"sync", "body"}
  BY <1>r, <1>3, <1>p DEF AppendSession, CallLogged
<1>5. \A u \in Regions :
         /\ pc[u] \in {"increment", "append"} => base[u] = s \/ (pc'[u] = pc[u] /\ base'[u] = base[u])
         /\ pc'[u] = "remove" => pc[u] = "remove"
  BY <1>4, <1>r
<1> QED
  BY <1>0, <1>1, <1>2, <1>5, SubmitLedger

\* A session of a multisession is submitted.
LEMMA AppendSiblingLedger ==
  ASSUME Inv, Excl, Ledger, NEW t \in Regions, AppendSibling(t)
  PROVE  Ledger'
<1>p. pc \in [Regions -> PCs]
  BY CallTypes
<1>r. PICK s : s = sib[t]
  OBVIOUS
<1>0. /\ pc[t] = "mAppend" /\ isSubmitted' = [isSubmitted EXCEPT ![s] = TRUE]
      /\ UNCHANGED <<allocated, caller, nextSibling, isOpen, block, logged, applied, calls,
                     freed, cur, base>>
      /\ \A u \in Regions : u # t => pc'[u] = pc[u]
      /\ pc'[t] \in {"mAppend", "mWake"}
  BY <1>r, <1>p DEF AppendSibling
<1>1. s \in 1..allocated /\ s \notin freed
  <2>1. pc[t] \in {"increment", "append", "mLock", "mRegion", "mAppend", "mWake"}
    BY <1>0
  <2>2. PICK f \in 1..allocated, l \in 1..allocated :
           RingAt(f, l) /\ base[t] \in f..l /\ \A x \in f..l : x \notin freed
    BY <2>1, OwnRing
  <2>3. s \in f..l
    BY <2>2, <1>0, <1>r DEF Excl, AdderOK
  <2>4. s \in 1..allocated
    BY <1>0, <1>r, Pointers DEF SiblingPCs
  <2> QED
    BY <2>2, <2>3, <2>4
<1>2. \A u \in Regions :
         /\ pc[u] \in {"increment", "append"} => pc'[u] = pc[u] /\ base'[u] = base[u]
         /\ pc'[u] = "remove" => pc[u] = "remove"
  BY <1>0
<1> QED
  BY <1>0, <1>1, <1>2, SubmitLedger

\* A closed session leaves the block of its client.
LEMMA CloseSessionLedger ==
  ASSUME Inv, Excl, Ledger, NEW t \in Regions, CloseSession(t)
  PROVE  Ledger'
<1>p. /\ pc \in [Regions -> PCs] /\ block \in [Regions -> Seq(1..allocated)]
      /\ isOpen \in [Sessions -> BOOLEAN]
  BY DEF Inv, TypeOK, ThreadTypes, SessionTypes
<1>s. PICK s, b : s = Head(block[t]) /\ b = block[t]
  OBVIOUS
<1>0. /\ pc[t] \in {"body", "closing"} /\ pc'[t] \in {"body", "closing"} /\ b # << >>
      /\ freed' = (IF isSubmitted[s] THEN freed ELSE freed \union {s})
      /\ isOpen' = [isOpen EXCEPT ![s] = FALSE]
      /\ block'[t] = Tail(b)
      /\ \A u \in Regions : u # t => pc'[u] = pc[u] /\ block'[u] = block[u]
      /\ UNCHANGED <<allocated, caller, nextSibling, logged, applied, calls, isSubmitted, cur,
                     base>>
  BY <1>s, <1>p DEF CloseSession, Closed
<1>b. /\ s = b[1] /\ Len(b) \in Nat /\ Len(Tail(b)) = Len(b) - 1
      /\ \A i \in 1..Len(Tail(b)) : Tail(b)[i] = b[i + 1]
      /\ s \in 1..allocated
  <2> DEFINE S == 1..allocated
  <2>1. b \in Seq(S)
    BY <1>p, <1>s
  <2> HIDE DEF S
  <2>2. s \in S
    BY <2>1, <1>0, <1>s, SeqElements
  <2> QED
    BY <2>1, <2>2, <1>0, <1>s, SeqTail DEF S
<1>o. \A x \in 1..allocated : isOpen'[x] => isOpen[x] /\ x # s
  <2>1. 1..allocated \subseteq Sessions
    BY CallTypes
  <2> QED
    BY <2>1, <1>0, <1>b, <1>p
<1>1. \A x \in Sessions : CallsOK(x)'
  BY <1>0 DEF Ledger, CallsOK
<1>2. ASSUME NEW x \in 1..allocated PROVE LedgerOK(x)'
  <2>1. LedgerOK(x)
    BY DEF Ledger
  <2>2. ASSUME isOpen'[x]
        PROVE  \E i \in 1..Len(block'[caller[x]]) : block'[caller[x]][i] = x
    <3>1. isOpen[x] /\ x # s
      BY <2>2, <1>o
    <3>2. PICK i \in 1..Len(block[caller[x]]) : block[caller[x]][i] = x
      BY <3>1, <2>1 DEF LedgerOK
    <3>3. caller[x] \in Regions
      BY Pointers
    <3>4. CASE caller[x] = t
      <4>1. b[i] = x /\ i \in 1..Len(b)
        BY <3>2, <3>4, <1>s
      <4>2. i # 1
        BY <4>1, <3>1, <1>b
      <4>3. i - 1 \in 1..Len(Tail(b)) /\ (i - 1) + 1 = i
        BY <4>1, <4>2, <1>b
      <4>4. Tail(b)[i - 1] = x
        BY <4>1, <4>3, <1>b
      <4> QED
        BY <4>3, <4>4, <3>4, <1>0
    <3>5. CASE caller[x] # t
      BY <3>2, <3>3, <3>5, <1>0
    <3> QED
      BY <3>4, <3>5
  <2>3. \A u \in Regions : pc[u] \in {"increment", "append"} => pc'[u] = pc[u]
    BY <1>0
  <2>4. (Singleton(x) /\ logged[x] > 0 /\ ~isSubmitted[x])' =>
          \E u \in Regions : pc'[u] \in {"increment", "append"} /\ base'[u] = x
    BY <2>1, <2>3, <1>0 DEF LedgerOK, Singleton
  <2>5. isSubmitted[x] /\ x \in freed' => calls[x] = << >>
    BY <2>1, <1>0 DEF LedgerOK
  <2> QED
    BY <2>2, <2>4, <2>5, <1>0 DEF LedgerOK
<1>3. \A x, y \in 1..allocated : ClosedOK(x, y)'
  BY <1>0, <1>o DEF Ledger, ClosedOK, Singleton
<1>4. \A u \in Regions : pc'[u] = "remove" => calls'[cur'[u]] = << >>
  BY <1>0 DEF Ledger
<1> QED
  BY <1>0, <1>1, <1>2, <1>3, <1>4 DEF Ledger

\* The processor takes a call.
LEMMA NextCallLedger ==
  ASSUME Inv, Excl, Ledger, NEW t \in Regions, NextCall(t)
  PROVE  Ledger'
<1>p. /\ pc \in [Regions -> PCs] /\ calls \in [Sessions -> Seq({"async", "sync"})]
      /\ logged \in [Sessions -> Nat] /\ applied \in [Sessions -> Nat]
      /\ allocated \in Nat /\ 1..allocated \subseteq Sessions
  BY CallTypes
<1>s. PICK s : s = cur[t]
  OBVIOUS
<1>1. s \in 1..allocated /\ s \in Sessions /\ s \notin freed
  <2>1. cur[t] # None
    BY DEF NextCall, Inv, LocalsSet
  <2>2. queue[t] \in Seq(1..allocated) /\ queue[t] # << >> /\ s = queue[t][1] /\ QueueOK(t)
    BY <2>1, <1>s, Pointers DEF Inv, LocalsSet, Excl, QueueOK
  <2>3. 1 \in 1..Len(queue[t])
    BY <2>2, SeqTail
  <2> QED
    BY <2>2, <2>3, <1>p, SeqElements DEF QueueOK
<1>2. /\ calls[s] # << >> /\ calls'[s] = Tail(calls[s]) /\ applied'[s] = applied[s] + 1
      /\ \A x \in Sessions : x # s => calls'[x] = calls[x] /\ applied'[x] = applied[x]
      /\ UNCHANGED <<allocated, caller, nextSibling, isOpen, block, logged, isSubmitted,
                     freed, cur, base>>
      /\ pc[t] = "exec" /\ pc'[t] = "body" /\ \A u \in Regions : u # t => pc'[u] = pc[u]
  BY <1>1, <1>s, <1>p DEF NextCall
<1>3. ASSUME NEW x \in Sessions PROVE CallsOK(x)'
  <2>1. CallsOK(x)
    BY DEF Ledger
  <2>2. CASE x = s
    <3>1. Len(Tail(calls[s])) = Len(calls[s]) - 1 /\ Len(calls[s]) \in Nat
      BY <1>1, <1>2, <1>p
    <3>2. logged[s] \in Nat /\ applied[s] \in Nat
      BY <1>1, <1>p
    <3>3. logged[s] = applied'[s] + Len(calls'[s])
      BY <3>1, <3>2, <2>1, <2>2, <1>2 DEF CallsOK
    <3>4. ~(s > allocated)
      BY <1>1, <1>p
    <3> QED
      BY <3>3, <3>4, <2>2, <1>2 DEF CallsOK
  <2>3. CASE x # s
    BY <2>1, <2>3, <1>2 DEF CallsOK
  <2> QED
    BY <2>2, <2>3
<1>4. ASSUME NEW x \in 1..allocated PROVE LedgerOK(x)'
  <2>1. LedgerOK(x) /\ x \in Sessions
    BY <1>p DEF Ledger
  <2>2. \A u \in Regions : pc[u] \in {"increment", "append"} => pc'[u] = pc[u]
    BY <1>2
  <2>3. isSubmitted[x] /\ x \in freed => calls'[x] = << >>
    BY <2>1, <1>1, <1>2 DEF LedgerOK
  <2> QED
    BY <2>1, <2>2, <2>3, <1>2 DEF LedgerOK, Singleton
<1>5. \A x, y \in 1..allocated : ClosedOK(x, y)'
  BY <1>2 DEF Ledger, ClosedOK, Singleton
<1>6. ASSUME NEW u \in Regions, pc'[u] = "remove" PROVE calls'[cur'[u]] = << >>
  <2>1. pc[u] = "remove"
    BY <1>2, <1>6
  <2>2. calls[cur[u]] = << >> /\ cur[u] # None
    BY <2>1 DEF Ledger, Inv, LocalsSet
  <2>3. cur[u] \in Sessions
    BY <2>2, <1>p, Pointers
  <2> QED
    BY <2>2, <2>3, <1>2
<1> QED
  BY <1>2, <1>3, <1>4, <1>5, <1>6 DEF Ledger

\* A session is freed at its end.
LEMMA RemoveSessionLedger ==
  ASSUME Inv, Excl, Ledger, NEW t \in Regions, RemoveSession(t)
  PROVE  Ledger'
<1>p. pc \in [Regions -> PCs] /\ cur \in [Regions -> (1..allocated) \union {None}]
  BY DEF Inv, TypeOK, ThreadTypes
<1>0. /\ pc[t] = "remove" /\ freed' = freed \union {cur[t]} /\ pc'[t] = "decrement"
      /\ \A u \in Regions : u # t => pc'[u] = pc[u] /\ cur'[u] = cur[u]
      /\ UNCHANGED <<allocated, caller, nextSibling, isOpen, block, logged, applied, calls,
                     isSubmitted, base>>
  BY <1>p DEF RemoveSession
<1>1. calls[cur[t]] = << >>
  BY <1>0 DEF Ledger
<1>2. \A x \in Sessions : CallsOK(x)'
  BY <1>0 DEF Ledger, CallsOK
<1>3. ASSUME NEW x \in 1..allocated PROVE LedgerOK(x)'
  <2>1. LedgerOK(x)
    BY DEF Ledger
  <2>2. \A u \in Regions : pc[u] \in {"increment", "append"} => pc'[u] = pc[u]
    BY <1>0
  <2> QED
    BY <2>1, <2>2, <1>0, <1>1 DEF LedgerOK, Singleton
<1>4. \A x, y \in 1..allocated : ClosedOK(x, y)'
  BY <1>0 DEF Ledger, ClosedOK, Singleton
<1>5. \A u \in Regions : pc'[u] = "remove" => calls'[cur'[u]] = << >>
  BY <1>0 DEF Ledger
<1> QED
  BY <1>0, <1>2, <1>3, <1>4, <1>5 DEF Ledger

\* What a feature opens: sessions after all the others, all in its block.
LEMMA Opened ==
  ASSUME Inv, Excl, NEW t \in Regions, OpenBlock(t)
  PROVE  \E a \in Nat, n \in Nat :
           /\ a = allocated /\ allocated' = a + n /\ n > 0 /\ a + n <= MaxSessions
           /\ pc[t] = "body" /\ block[t] = << >>
           /\ block'[t] = [i \in 1..n |-> a + i]
           /\ \A u \in Regions : u # t => block'[u] = block[u]
           /\ \A s \in 1..a : /\ caller'[s] = caller[s] /\ nextSibling'[s] = nextSibling[s]
                              /\ isOpen'[s] <=> isOpen[s]
           /\ \A s \in (a + 1)..(a + n) : /\ caller'[s] = t
                                          /\ nextSibling'[s] = s => n = 1
           /\ UNCHANGED <<pc, base, cur, queue, scan, ready, step, logged, applied, calls,
                          isSubmitted, freed>>
<1>p. /\ block \in [Regions -> Seq(1..allocated)] /\ allocated \in Nat /\ MaxSessions \in Nat
  BY BoundsAssumption DEF Inv, TypeOK, ThreadTypes, SessionTypes
<1>1. PICK b \in Blocks[t] : OpenSessions(t, b)
  BY DEF OpenBlock
<1>b. b \in Seq(Regions \ {t}) /\ b # << >>
  BY <1>1, BlocksAssumption
<1>n. PICK n \in Nat : n = Len(b) /\ n > 0
  BY <1>b
<1>a. PICK a \in Nat : a = allocated
  BY <1>p
<1>0. /\ pc[t] = "body" /\ block[t] = << >> /\ allocated' = a + n /\ a + n <= MaxSessions
      /\ block'[t] = [i \in 1..n |-> a + i]
      /\ \A u \in Regions : u # t => block'[u] = block[u]
      /\ UNCHANGED <<pc, base, cur, queue, scan, ready, step, logged, applied, calls,
                     isSubmitted, freed>>
  BY <1>1, <1>n, <1>a, <1>p DEF OpenBlock, OpenSessions
<1>2. \A s \in Sessions :
        /\ caller'[s] = (IF s \in (a + 1)..(a + n) THEN t ELSE caller[s])
        /\ nextSibling'[s] = (IF s \in (a + 1)..(a + n) THEN NextInRing(s, n) ELSE nextSibling[s])
        /\ isOpen'[s] <=> (s \in (a + 1)..(a + n) \/ isOpen[s])
  BY <1>1, <1>n, <1>a DEF OpenSessions
<1>3. \A s \in 1..a : s \in Sessions /\ s \notin (a + 1)..(a + n)
  BY <1>0, <1>p DEF Sessions
<1>4. \A s \in (a + 1)..(a + n) : s \in Sessions
  BY <1>0, <1>p DEF Sessions
<1>5. \A s \in (a + 1)..(a + n) : NextInRing(s, n) = s => n = 1
  BY <1>a DEF NextInRing
<1> QED
  BY <1>0, <1>2, <1>3, <1>4, <1>5, <1>a, <1>n

\* A feature opens sessions.
LEMMA OpenBlockLedger ==
  ASSUME Inv, Excl, Ledger, NEW t \in Regions, OpenBlock(t)
  PROVE  Ledger'
<1>1. PICK a \in Nat, n \in Nat :
           /\ a = allocated /\ allocated' = a + n /\ n > 0 /\ a + n <= MaxSessions
           /\ pc[t] = "body" /\ block[t] = << >>
           /\ block'[t] = [i \in 1..n |-> a + i]
           /\ \A u \in Regions : u # t => block'[u] = block[u]
           /\ \A s \in 1..a : /\ caller'[s] = caller[s] /\ nextSibling'[s] = nextSibling[s]
                              /\ isOpen'[s] <=> isOpen[s]
           /\ \A s \in (a + 1)..(a + n) : /\ caller'[s] = t
                                          /\ nextSibling'[s] = s => n = 1
           /\ UNCHANGED <<pc, base, cur, queue, scan, ready, step, logged, applied, calls,
                          isSubmitted, freed>>
  BY Opened
<1>s. Sessions = 1..MaxSessions /\ MaxSessions \in Nat
  BY BoundsAssumption DEF Sessions
<1>2. ASSUME NEW x \in Sessions PROVE CallsOK(x)'
  <2>1. CallsOK(x)
    BY DEF Ledger
  <2>2. x > a + n => x > a
    BY <1>s
  <2> QED
    BY <2>1, <2>2, <1>1 DEF CallsOK
<1>o. ASSUME NEW x \in 1..a, isOpen[x] PROVE caller[x] # t
  <2>1. PICK i \in 1..Len(block[caller[x]]) : block[caller[x]][i] = x
    BY <1>o, <1>1 DEF Ledger, LedgerOK
  <2>2. Len(block[t]) = 0
    BY <1>1
  <2> QED
    BY <2>1, <2>2
<1>3. ASSUME NEW x \in 1..(a + n) PROVE LedgerOK(x)'
  <2>1. CASE x \in 1..a
    <3>1. LedgerOK(x)
      BY <2>1, <1>1 DEF Ledger
    <3>2. isOpen'[x] => \E i \in 1..Len(block'[caller'[x]]) : block'[caller'[x]][i] = x
      <4>1. caller[x] \in Regions
        BY <2>1, <1>1, Pointers
      <4> QED
        BY <4>1, <3>1, <2>1, <1>1, <1>o DEF LedgerOK
    <3> QED
      BY <3>1, <3>2, <2>1, <1>1 DEF LedgerOK, Singleton
  <2>2. CASE x \notin 1..a
    <3>1. x \in (a + 1)..(a + n) /\ x > a /\ x \in Sessions /\ x - a \in 1..n /\ a + (x - a) = x
      BY <2>2, <1>1, <1>s
    <3>2. Len(block'[t]) = n /\ block'[t][x - a] = x
      BY <3>1, <1>1
    <3>3. caller'[x] = t
      BY <3>1, <1>1
    <3>4. logged[x] = 0 /\ ~isSubmitted[x]
      BY <3>1, <1>1 DEF Ledger, CallsOK, Excl, FreshOK
    <3>5. isOpen'[x] => \E i \in 1..Len(block'[caller'[x]]) : block'[caller'[x]][i] = x
      BY <3>1, <3>2, <3>3
    <3>6. ~(logged'[x] > 0)
      BY <3>4, <1>1
    <3> QED
      BY <3>4, <3>5, <3>6, <1>1 DEF LedgerOK
  <2> QED
    BY <2>1, <2>2
<1>4. ASSUME NEW x \in 1..(a + n), NEW y \in 1..(a + n) PROVE ClosedOK(x, y)'
  <2> SUFFICES ASSUME x < y, caller'[x] = caller'[y], nextSibling'[x] = x PROVE ~isOpen'[x]
    BY DEF ClosedOK, Singleton
  <2>1. CASE x \in 1..a /\ y \in 1..a
    BY <2>1, <1>1 DEF Ledger, ClosedOK, Singleton
  <2>2. CASE x \in 1..a /\ y \notin 1..a
    <3>1. y \in (a + 1)..(a + n)
      BY <2>2
    <3>2. caller[x] = t
      BY <3>1, <2>2, <1>1
    <3> QED
      BY <3>2, <2>2, <1>1, <1>o
  <2>3. CASE x \notin 1..a
    <3>1. x \in (a + 1)..(a + n) /\ y \in (a + 1)..(a + n)
      BY <2>3
    <3>2. n = 1
      BY <3>1, <1>1
    <3> QED
      BY <3>1, <3>2
  <2> QED
    BY <2>1, <2>2, <2>3
<1>5. \A u \in Regions : pc'[u] = "remove" => calls'[cur'[u]] = << >>
  BY <1>1 DEF Ledger
<1> QED
  BY <1>1, <1>2, <1>3, <1>4, <1>5 DEF Ledger

\* No call is logged at first.
LEMMA InitLedger == Init => Ledger
<1> SUFFICES ASSUME Init PROVE Ledger
  OBVIOUS
<1>1. 1..allocated = {}
  BY DEF Init
<1>2. \A s \in Sessions : CallsOK(s)
  BY DEF Init, CallsOK
<1>3. \A t \in Regions : pc[t] # "remove"
  BY DEF Init
<1> QED
  BY <1>1, <1>2, <1>3 DEF Ledger

\* Every step keeps it.
LEMMA NextLedger == Inv /\ Excl /\ Ledger /\ [Next]_vars => Ledger'
<1> SUFFICES ASSUME Inv, Excl, Ledger, [Next]_vars PROVE Ledger'
  OBVIOUS
<1>q. ASSUME UNCHANGED <<sessionVars, pc, localVars>> PROVE Ledger'
  BY <1>q, QuietLedger DEF LedgerQuiet, sessionVars, localVars
<1>1. CASE UNCHANGED vars
  BY <1>1, <1>q DEF vars
<1>2. CASE Terminated
  BY <1>2, <1>q DEF Terminated, vars
<1>3. ASSUME NEW t \in Regions, Client(t) PROVE Ledger'
  BY <1>3, OpenBlockLedger, AddCallLedger, AppendSessionLedger, AppendSiblingLedger,
     CloseSessionLedger, PlainLedger, WakeLedger
  DEF Client
<1>4. ASSUME NEW t \in Regions, Server(t) PROVE Ledger'
  BY <1>4, PlainLedger, NextCallLedger, RemoveSessionLedger, WakeLedger DEF Server
<1>5. ASSUME NEW t \in Regions, PromoteFault(t) PROVE Ledger'
  BY <1>5, <1>q DEF PromoteFault
<1>6. ASSUME NEW t \in Regions, Promote(t) PROVE Ledger'
  BY <1>5, <1>6, PlainLedger, WakeLedger DEF Promote
<1> QED
  BY <1>1, <1>2, <1>3, <1>4, <1>6 DEF Next, Thread

\* A queue that keeps its sessions keeps their order.
LEMMA LineKept ==
  ASSUME Inv, NEW r \in Regions, LineOK(r), queue'[r] = queue[r],
         \A s \in 1..allocated : caller'[s] = caller[s] /\ nextSibling'[s] = nextSibling[s]
  PROVE  LineOK(r)'
<1>1. \A i \in 1..Len(queue[r]) : queue[r][i] \in 1..allocated
  <2>1. queue[r] \in Seq(1..allocated)
    BY Pointers
  <2> QED
    BY <2>1, SeqElements
<1> QED
  BY <1>1 DEF LineOK, Singleton

\* A step that leaves the queue of a promoting processor alone keeps what it has seen.
LEMMA ScanKept ==
  ASSUME Inv, NEW t \in Regions, ScanOK(t), queue'[t] = queue[t], scan'[t] = scan[t],
         \A s \in 1..allocated : nextSibling'[s] = nextSibling[s],
         (pc'[t] = "prScan" \/ Searching(t)') => (pc[t] = "prScan" \/ Searching(t))
  PROVE  ScanOK(t)'
<1>1. \A i \in 1..Len(queue[t]) : queue[t][i] \in 1..allocated
  <2>1. queue[t] \in Seq(1..allocated)
    BY Pointers
  <2> QED
    BY <2>1, SeqElements
<1> QED
  BY <1>1 DEF ScanOK, Singleton

\* A processor that promotes has the mutex of its region: its queue is left alone.
LEMMA ScanLocked ==
  ASSUME Inv, Excl, NEW t \in Regions, pc[t] = "prScan" \/ Searching(t)
  PROVE  regionLock[t] = t
BY DEF Excl, LocksOK, OwnPCs, Searching

\* What a step of t must keep for the processors that promote.
LineQuiet(u) ==
  /\ (pc'[u] = "prScan" \/ Searching(u)') => (pc[u] = "prScan" \/ Searching(u))
  /\ scan'[u] = scan[u]

\* A step that moves no session.
LEMMA QuietLines ==
  ASSUME Inv, Lines, UNCHANGED queue,
         \A s \in 1..allocated : caller'[s] = caller[s] /\ nextSibling'[s] = nextSibling[s],
         \A u \in Regions : LineQuiet(u)
  PROVE  Lines'
<1>1. ASSUME NEW r \in Regions PROVE LineOK(r)' /\ ScanOK(r)'
  <2>1. LineOK(r) /\ ScanOK(r) /\ LineQuiet(r)
    BY DEF Lines
  <2>2. LineOK(r)'
    BY <2>1, LineKept
  <2>3. ScanOK(r)'
    BY <2>1, ScanKept DEF LineQuiet
  <2> QED
    BY <2>2, <2>3
<1> QED
  BY <1>1 DEF Lines

\* Steps that leave the queues alone.
LEMMA PlainLines ==
  ASSUME Inv, Excl, Lines, NEW t \in Regions,
         \/ CountSession(t) \/ LockMultisessions(t) \/ LockCallee(t) \/ SyncReturn(t)
         \/ CloseSession(t) \/ Iterate(t) \/ Recheck(t) \/ Idle(t) \/ Sleep(t) \/ Timeout(t)
         \/ NextCall(t) \/ EndSession(t) \/ EndBody(t) \/ DecrementCount(t) \/ PromoteLock(t)
  PROVE  Lines'
<1>p. pc \in [Regions -> PCs]
  BY DEF Inv, TypeOK, ThreadTypes
<1>1. UNCHANGED <<queue, caller, nextSibling, scan, ready, step>>
  BY DEF CountSession, LockMultisessions, LockCallee, SyncReturn, CloseSession, Iterate, Recheck,
         Idle, Sleep, Timeout, NextCall, EndSession, EndBody, DecrementCount, PromoteLock,
         sessionVars, localVars
<1>2. \A u \in Regions : u # t => pc'[u] = pc[u]
  BY <1>p DEF CountSession, LockMultisessions, LockCallee, SyncReturn, CloseSession, Iterate,
         Recheck, Idle, Sleep, Timeout, NextCall, EndSession, EndBody, DecrementCount,
         PromoteLock, Take
<1>3. pc'[t] \notin {"prScan", "prSibling", "prMark"}
  BY <1>p DEF CountSession, LockMultisessions, LockCallee, SyncReturn, CloseSession, Iterate,
         Recheck, Idle, Sleep, Timeout, NextCall, EndSession, EndBody, DecrementCount,
         PromoteLock, Take
<1>4. \A u \in Regions : LineQuiet(u)
  BY <1>1, <1>2, <1>3 DEF LineQuiet, Searching
<1> QED
  BY <1>1, <1>4, QuietLines

\* The steps that wake other processors.
LEMMA WakeLines ==
  ASSUME Inv, Excl, Lines, NEW t \in Regions, WakeCallee(t) \/ PromoteWake(t) \/ WakeMain(t)
  PROVE  Lines'
<1>p. pc \in [Regions -> PCs]
  BY DEF Inv, TypeOK, ThreadTypes
<1>1. UNCHANGED <<queue, caller, nextSibling, scan, ready>>
  BY DEF WakeCallee, PromoteWake, WakeMain, sessionVars, localVars
<1>2. \A u \in Regions : u # t => step'[u] = step[u]
  BY DEF WakeCallee, PromoteWake, WakeMain, sessionVars, localVars, Inv, TypeOK, ThreadTypes
<1>3. /\ \A u \in Regions : u # t => pc'[u] = pc[u] \/ pc'[u] = "iterate"
      /\ pc'[t] \notin {"prScan", "prSibling", "prMark"}
  <2>1. CASE WakeCallee(t)
    <3>r. PICK r : r = callee[sib[t]]
      OBVIOUS
    <3>1. r \in Regions
      <4>1. sib[t] \in 1..allocated
        BY <2>1, Pointers DEF WakeCallee, SiblingPCs
      <4> QED
        BY <4>1, <3>r, Pointers
    <3>2. /\ Woken(pc, r) \in [Regions -> PCs]
          /\ \A u \in Regions : Woken(pc, r)[u] = pc[u] \/ Woken(pc, r)[u] = "iterate"
      BY <3>1, <1>p, WokenIs
    <3> QED
      BY <2>1, <1>p, <3>r, <3>2 DEF WakeCallee, CallLogged
  <2>2. CASE PromoteWake(t)
    <3>r. PICK r : r = callee[nextSibling[sib[t]]]
      OBVIOUS
    <3>1. r \in Regions
      <4>1. sib[t] \in 1..allocated
        BY <2>2, Pointers DEF PromoteWake, SiblingPCs
      <4>2. nextSibling[sib[t]] \in 1..allocated
        BY <4>1, Pointers
      <4> QED
        BY <4>2, <3>r, Pointers
    <3>2. \A u \in Regions : Woken(pc, r)[u] = pc[u] \/ Woken(pc, r)[u] = "iterate"
      BY <3>1, <1>p, WokenIs
    <3>3. pc[t] = "prWake"
      BY <2>2 DEF PromoteWake
    <3>4. \A u \in Regions : u # t => pc'[u] = pc[u] \/ pc'[u] = "iterate"
      BY <2>2, <1>p, <3>r, <3>2 DEF PromoteWake
    <3>5. pc'[t] \in {"prWake", "iterate", "prDone"}
      BY <2>2, <1>p, <3>r, <3>2, <3>3 DEF PromoteWake
    <3> QED
      BY <3>4, <3>5
  <2>3. CASE WakeMain(t)
    <3>n. PICK next : next = [pc EXCEPT ![t] = "iterate"]
      OBVIOUS
    <3>1. next \in [Regions -> PCs] /\ pc' = Woken(next, Main)
      BY <2>3, <1>p, <3>n DEF WakeMain, PCs
    <3>2. \A u \in Regions : pc'[u] = next[u] \/ pc'[u] = "iterate"
      BY <3>1, WokenIs, MainAssumption
    <3>3. next[t] = "iterate" /\ \A u \in Regions : u # t => next[u] = pc[u]
      BY <1>p, <3>1, <3>n
    <3> QED
      BY <3>2, <3>3
  <2> QED
    BY <2>1, <2>2, <2>3
<1>4. \A u \in Regions : LineQuiet(u)
  BY <1>1, <1>2, <1>3 DEF LineQuiet, Searching
<1> QED
  BY <1>1, <1>4, QuietLines

\* A call is logged.
LEMMA AddCallLines ==
  ASSUME Inv, Excl, Lines, NEW t \in Regions, AddCall(t)
  PROVE  Lines'
<1>p. pc \in [Regions -> PCs]
  BY DEF Inv, TypeOK, ThreadTypes
<1>1. PICK s, k : AddCallTo(t, s, k)
  BY DEF AddCall
<1>2. UNCHANGED <<queue, caller, nextSibling, scan, ready, step>>
  BY <1>1 DEF AddCallTo
<1>3. /\ \A u \in Regions : u # t => pc'[u] = pc[u]
      /\ pc'[t] \notin {"prScan", "prSibling", "prMark"}
  BY <1>1, <1>p DEF AddCallTo
<1>4. \A u \in Regions : LineQuiet(u)
  BY <1>2, <1>3 DEF LineQuiet, Searching
<1> QED
  BY <1>2, <1>4, QuietLines

\* A feature opens sessions: they are in no queue yet.
LEMMA OpenBlockLines ==
  ASSUME Inv, Excl, Lines, NEW t \in Regions, OpenBlock(t)
  PROVE  Lines'
<1>1. /\ UNCHANGED <<queue, pc, scan, ready, step>>
      /\ \A s \in 1..allocated : caller'[s] = caller[s] /\ nextSibling'[s] = nextSibling[s]
  BY Opened
<1>2. \A u \in Regions : LineQuiet(u)
  BY <1>1 DEF LineQuiet, Searching
<1> QED
  BY <1>1, <1>2, QuietLines

\* The first steps of a promotion.
LEMMA PromoteLines ==
  ASSUME Inv, Excl, Lines, NEW t \in Regions,
         PromoteRegion(t) \/ PromoteSibling(t) \/ PromoteDone(t)
  PROVE  Lines'
<1>p. pc \in [Regions -> PCs] /\ queue \in [Regions -> Seq(1..allocated)]
  BY DEF Inv, TypeOK, ThreadTypes, SharedTypes
<1>1. UNCHANGED <<queue, caller, nextSibling>>
  BY DEF PromoteRegion, PromoteSibling, PromoteDone, sessionVars
<1>2. \A u \in Regions : u # t => /\ pc'[u] = pc[u] /\ scan'[u] = scan[u] /\ step'[u] = step[u]
                                  /\ ready'[u] = ready[u]
  BY DEF PromoteRegion, PromoteSibling, PromoteDone, Inv, TypeOK, ThreadTypes
<1>3. \/ pc'[t] = "prScan" /\ scan'[t] = 1
      \/ pc[t] = "prSibling" /\ scan'[t] = scan[t]
      \/ pc'[t] = "recheck"
  BY <1>p DEF PromoteRegion, PromoteSibling, PromoteDone, Inv, TypeOK, ThreadTypes
<1>4. \A r \in Regions : LineOK(r)'
  BY <1>1, LineKept DEF Lines
<1>5. ASSUME NEW u \in Regions, u # t PROVE ScanOK(u)'
  <2>1. ScanOK(u)
    BY DEF Lines
  <2> QED
    BY <2>1, <1>1, <1>2, <1>5, ScanKept DEF Searching
<1>6. ScanOK(t)'
  <2>1. CASE pc'[t] = "prScan" /\ scan'[t] = 1
    <3>1. \A i \in 1..Len(queue[t]) : ~(i < 1)
      BY <1>p
    <3> QED
      BY <3>1, <2>1, <1>1 DEF ScanOK
  <2>2. CASE pc[t] = "prSibling" /\ scan'[t] = scan[t]
    <3>1. ScanOK(t)
      BY DEF Lines
    <3> QED
      BY <3>1, <2>2, <1>1, ScanKept DEF Searching
  <2>3. CASE pc'[t] = "recheck"
    BY <2>3 DEF ScanOK, Searching
  <2> QED
    BY <2>1, <2>2, <2>3, <1>3
<1> QED
  BY <1>4, <1>5, <1>6 DEF Lines

\* A session appended to a queue where no singleton of its client is younger.
LEMMA LineAppended ==
  ASSUME Inv, Excl, NEW r \in Regions, LineOK(r), NEW s \in 1..allocated,
         UNCHANGED <<caller, nextSibling>>, queue'[r] = AddLast(queue[r], s),
         \A i \in 1..Len(queue[r]) :
            Singleton(s) /\ Singleton(queue[r][i]) /\ caller[queue[r][i]] = caller[s] =>
              ~(s < queue[r][i])
  PROVE  LineOK(r)'
<1>1. PICK q : q = queue[r]
  OBVIOUS
<1>n. PICK n \in Nat : n = Len(q)
  BY <1>1, Pointers
<1>2. /\ Len(queue'[r]) = n + 1 /\ queue'[r][n + 1] = s
      /\ \A i \in 1..n : queue'[r][i] = q[i]
  <2> DEFINE S == 1..allocated
  <2>1. q \in Seq(S) /\ s \in S
    BY <1>1, Pointers
  <2> HIDE DEF S
  <2> QED
    BY <2>1, <1>1, <1>n DEF AddLast
<1> SUFFICES ASSUME NEW i \in 1..(n + 1), NEW j \in 1..(n + 1),
                    Singleton(queue[r][i])', Singleton(queue[r][j])',
                    caller[queue'[r][i]] = caller[queue'[r][j]],
                    queue'[r][i] < queue'[r][j]
             PROVE  i < j
  BY <1>2 DEF LineOK
<1>3. CASE i \in 1..n /\ j \in 1..n
  <2>1. queue'[r][i] = q[i] /\ queue'[r][j] = q[j]
    BY <1>2, <1>3
  <2>2. Singleton(q[i]) /\ Singleton(q[j]) /\ caller[q[i]] = caller[q[j]] /\ q[i] < q[j]
    BY <2>1 DEF Singleton
  <2> QED
    BY <2>2, <1>1, <1>3, <1>n DEF LineOK
<1>4. CASE i = n + 1 /\ j \in 1..n
  <2>1. queue'[r][i] = s /\ queue'[r][j] = q[j]
    BY <1>2, <1>4
  <2>2. Singleton(s) /\ Singleton(q[j]) /\ caller[q[j]] = caller[s] /\ s < q[j]
    BY <2>1 DEF Singleton
  <2> QED
    BY <2>2, <1>1, <1>4, <1>n
<1>5. CASE i = n + 1 /\ j = n + 1
  <2>1. s < s
    BY <1>2, <1>5
  <2>2. s \in Int
    BY DEF Inv, TypeOK, SessionTypes
  <2> QED
    BY <2>1, <2>2
<1> QED
  BY <1>3, <1>4, <1>5

\* A singleton is submitted while it is open, so after the earlier ones of its client.
LEMMA AppendSessionLines ==
  ASSUME Inv, Excl, Ledger, Lines, NEW t \in Regions, AppendSession(t)
  PROVE  Lines'
<1> USE NoneAssumption
<1>p. pc \in [Regions -> PCs] /\ queue \in [Regions -> Seq(1..allocated)]
  BY DEF Inv, TypeOK, ThreadTypes, SharedTypes
<1>r. PICK s, r : s = base[t] /\ r = callee[s]
  OBVIOUS
<1>0. /\ pc[t] = "append" /\ regionLock[r] = None
      /\ queue' = [queue EXCEPT ![r] = AddLast(@, s)]
      /\ UNCHANGED <<allocated, caller, nextSibling, scan, ready, step>>
  BY <1>r DEF AppendSession
<1>1. s \in 1..allocated /\ r \in Regions
  <2>1. s \in 1..allocated
    BY <1>0, <1>r, Pointers DEF BasePCs
  <2> QED
    BY <2>1, <1>r, Pointers
<1>2. isOpen[s]
  <2>1. pc[t] \in {"increment", "append", "mLock", "mRegion", "mAppend", "mWake"}
    BY <1>0
  <2> QED
    BY <2>1, <1>r, OwnRing
<1>3. /\ Woken(pc, r) \in [Regions -> PCs]
      /\ \A u \in Regions : Woken(pc, r)[u] = pc[u] \/ Woken(pc, r)[u] = "iterate"
  BY <1>1, <1>p, WokenIs
<1>4. /\ \A u \in Regions : u # t => pc'[u] = pc[u] \/ pc'[u] = "iterate"
      /\ pc'[t] \in {"sync", "body"}
  BY <1>r, <1>3 DEF AppendSession, CallLogged
<1>5. queue'[r] = AddLast(queue[r], s) /\ \A u \in Regions : u # r => queue'[u] = queue[u]
  BY <1>0, <1>1, <1>p
<1>6. LineOK(r)'
  <2>1. \A i \in 1..Len(queue[r]) : queue[r][i] \in 1..allocated
    <3>1. queue[r] \in Seq(1..allocated)
      BY <1>1, <1>p
    <3> QED
      BY <3>1, SeqElements
  <2>2. ASSUME NEW i \in 1..Len(queue[r]), Singleton(s), caller[queue[r][i]] = caller[s]
        PROVE  ~(s < queue[r][i])
    BY <2>1, <2>2, <1>1, <1>2 DEF Ledger, ClosedOK
  <2> QED
    BY <2>2, <1>0, <1>1, <1>5, LineAppended DEF Lines
<1>7. ASSUME NEW u \in Regions PROVE LineOK(u)' /\ ScanOK(u)'
  <2>1. LineOK(u) /\ ScanOK(u)
    BY DEF Lines
  <2>2. u # r => LineOK(u)'
    BY <2>1, <1>0, <1>5, LineKept
  <2>3. (pc'[u] = "prScan" \/ Searching(u)') => (pc[u] = "prScan" \/ Searching(u))
    BY <1>0, <1>4 DEF Searching
  <2>4. pc[u] = "prScan" \/ Searching(u) => u # r
    <3>1. pc[u] = "prScan" \/ Searching(u) => regionLock[u] = u
      BY ScanLocked
    <3> QED
      BY <3>1, <1>0
  <2>5. CASE pc[u] = "prScan" \/ Searching(u)
    BY <2>1, <2>3, <2>4, <2>5, <1>0, <1>5, <2>2, <1>6, ScanKept
  <2>6. CASE ~(pc[u] = "prScan" \/ Searching(u))
    <3>1. ScanOK(u)'
      BY <2>3, <2>6 DEF ScanOK
    <3> QED
      BY <3>1, <2>2, <1>6
  <2> QED
    BY <2>5, <2>6
<1> QED
  BY <1>7 DEF Lines

\* The sessions of a multisession are no singletons.
LEMMA AppendSiblingLines ==
  ASSUME Inv, Excl, Naps, Lines, NEW t \in Regions, AppendSibling(t)
  PROVE  Lines'
<1> USE NoneAssumption
<1>p. pc \in [Regions -> PCs] /\ queue \in [Regions -> Seq(1..allocated)] /\ allocated \in Nat
  BY DEF Inv, TypeOK, ThreadTypes, SharedTypes, SessionTypes
<1>r. PICK s, r : s = sib[t] /\ r = callee[s]
  OBVIOUS
<1>0. /\ pc[t] = "mAppend" /\ queue' = [queue EXCEPT ![r] = AddLast(@, s)]
      /\ UNCHANGED <<allocated, caller, nextSibling, scan, ready, step>>
      /\ \A u \in Regions : u # t => pc'[u] = pc[u]
      /\ pc'[t] \in {"mAppend", "mWake"}
  BY <1>r, <1>p DEF AppendSibling
<1>1. s \in 1..allocated /\ base[t] \in 1..allocated /\ r \in Regions
  <2>1. s \in 1..allocated /\ base[t] \in 1..allocated
    BY <1>0, <1>r, Pointers DEF SiblingPCs, BasePCs
  <2> QED
    BY <2>1, <1>r, Pointers
<1>2. ~Singleton(s) /\ regionLock[r] = t
  <2>1. PICK f \in 1..allocated, l \in 1..allocated : RingAt(f, l) /\ base[t] \in f..l
    BY <1>1, RingOf
  <2>2. s \in f..l
    BY <2>1, <1>0, <1>r DEF Excl, AdderOK
  <2>3. ~Singleton(base[t])
    BY <1>0 DEF Naps, Napping, AdderPCs
  <2>4. Singleton(s) => f = l
    BY <2>1, <2>2, <1>p, NextIs DEF Singleton
  <2>5. f = l => s = base[t]
    BY <2>1, <2>2
  <2>6. Distance(base[t], s, l - f + 1) \in 0..(l - f)
    <3>1. f \in Nat /\ l \in Nat
      BY <1>p
    <3> QED
      BY <3>1, <2>1, <2>2, DistanceIs
  <2>7. ~(Distance(base[t], s, l - f + 1) < Distance(base[t], s, l - f + 1))
    BY <2>6
  <2>8. regionLock[r] = t
    BY <2>1, <2>2, <2>7, <1>0, <1>r DEF Excl, AdderOK
  <2> QED
    BY <2>3, <2>4, <2>5, <2>8
<1>5. queue'[r] = AddLast(queue[r], s) /\ \A u \in Regions : u # r => queue'[u] = queue[u]
  BY <1>0, <1>1, <1>p
<1>6. LineOK(r)'
  BY <1>0, <1>1, <1>2, <1>5, LineAppended DEF Lines
<1>7. ASSUME NEW u \in Regions PROVE LineOK(u)' /\ ScanOK(u)'
  <2>1. LineOK(u) /\ ScanOK(u)
    BY DEF Lines
  <2>2. u # r => LineOK(u)'
    BY <2>1, <1>0, <1>5, LineKept
  <2>3. (pc'[u] = "prScan" \/ Searching(u)') => (pc[u] = "prScan" \/ Searching(u))
    BY <1>0 DEF Searching
  <2>4. pc[u] = "prScan" \/ Searching(u) => u # r
    <3>1. pc[u] = "prScan" \/ Searching(u) => regionLock[u] = u /\ u # t
      BY <1>0, ScanLocked DEF Searching
    <3> QED
      BY <3>1, <1>2
  <2>5. CASE pc[u] = "prScan" \/ Searching(u)
    BY <2>1, <2>3, <2>4, <2>5, <1>0, <1>5, <2>2, <1>6, ScanKept
  <2>6. CASE ~(pc[u] = "prScan" \/ Searching(u))
    <3>1. ScanOK(u)'
      BY <2>3, <2>6 DEF ScanOK
    <3> QED
      BY <3>1, <2>2, <1>6
  <2> QED
    BY <2>5, <2>6
<1> QED
  BY <1>7 DEF Lines

\* The first session is removed.
LEMMA RemoveSessionLines ==
  ASSUME Inv, Excl, Lines, NEW t \in Regions, RemoveSession(t)
  PROVE  Lines'
<1>p. /\ pc \in [Regions -> PCs] /\ queue \in [Regions -> Seq(1..allocated)]
  BY DEF Inv, TypeOK, ThreadTypes, SharedTypes
<1>0. /\ pc[t] = "remove" /\ queue'[t] = Without(queue[t], cur[t]) /\ pc'[t] = "decrement"
      /\ \A u \in Regions : u # t => pc'[u] = pc[u] /\ queue'[u] = queue[u]
      /\ UNCHANGED <<allocated, caller, nextSibling, scan, ready, step>>
  BY <1>p DEF RemoveSession
<1>1. queue[t] # << >> /\ cur[t] = queue[t][1] /\ Distinct(queue[t])
  <2>1. cur[t] # None
    BY <1>0 DEF Inv, LocalsSet
  <2> QED
    BY <2>1 DEF Inv, LocalsSet, Excl, QueueOK
<1>2. PICK q, w : q = queue[t] /\ w = queue'[t]
  OBVIOUS
<1>3. Len(q) \in Nat /\ Len(w) = Len(q) - 1 /\ \A i \in 1..Len(w) : w[i] = q[i + 1]
  <2> DEFINE S == 1..allocated
  <2>1. q \in Seq(S)
    BY <1>2, <1>p
  <2> HIDE DEF S
  <2>2. w = Without(q, q[1])
    BY <1>0, <1>1, <1>2
  <2> QED
    BY <2>1, <2>2, <1>1, <1>2, WithoutFirstIs
<1>4. LineOK(t)'
  <2> SUFFICES ASSUME NEW i \in 1..Len(w), NEW j \in 1..Len(w),
                      Singleton(w[i]), Singleton(w[j]), caller[w[i]] = caller[w[j]], w[i] < w[j]
               PROVE  i < j
    BY <1>0, <1>2 DEF LineOK, Singleton
  <2>1. i + 1 \in 1..Len(q) /\ j + 1 \in 1..Len(q) /\ w[i] = q[i + 1] /\ w[j] = q[j + 1]
    BY <1>3
  <2>2. i + 1 < j + 1
    BY <2>1, <1>2 DEF Lines, LineOK
  <2> QED
    BY <2>2, <1>3
<1>5. ASSUME NEW u \in Regions, u # t PROVE LineOK(u)' /\ ScanOK(u)'
  <2>1. LineOK(u) /\ ScanOK(u)
    BY DEF Lines
  <2>2. LineOK(u)'
    BY <2>1, <1>0, <1>5, LineKept
  <2>3. ScanOK(u)'
    BY <2>1, <1>0, <1>5, ScanKept DEF Searching
  <2> QED
    BY <2>2, <2>3
<1>6. ScanOK(t)'
  BY <1>0 DEF ScanOK, Searching
<1> QED
  BY <1>4, <1>5, <1>6 DEF Lines

\* A session moved to the front: it is no singleton, or no singleton was before it.
LEMMA LineMoved ==
  ASSUME Inv, Excl, NEW r \in Regions, LineOK(r), NEW p \in 1..Len(queue[r]),
         UNCHANGED <<caller, nextSibling>>,
         queue'[r] = MoveToFirst(queue[r], queue[r][p]),
         \/ ~Singleton(queue[r][p])
         \/ \A i \in 1..Len(queue[r]) : i < p => ~Singleton(queue[r][i])
  PROVE  LineOK(r)'
<1>1. PICK q, m : q = queue[r] /\ m = queue'[r]
  OBVIOUS
<1>n. PICK n \in Nat : n = Len(q)
  BY <1>1, Pointers
<1>p. p \in 1..n /\ p \in Nat
  BY <1>1, <1>n
<1>2. /\ Len(m) = n /\ m[1] = q[p]
      /\ \A i \in 2..p : m[i] = q[i-1]
      /\ \A i \in (p+1)..n : m[i] = q[i]
  <2> DEFINE S == 1..allocated
  <2>1. q \in Seq(S) /\ Distinct(q)
    BY <1>1, Pointers DEF Excl, QueueOK
  <2> HIDE DEF S
  <2>2. m = MoveToFirst(q, q[p])
    BY <1>1
  <2> QED
    BY <2>1, <2>2, <1>n, <1>p, MoveToFirstIs
<1> SUFFICES ASSUME NEW i \in 1..n, NEW j \in 1..n,
                    Singleton(m[i]), Singleton(m[j]), caller[m[i]] = caller[m[j]], m[i] < m[j]
             PROVE  i < j
  BY <1>1, <1>2 DEF LineOK, Singleton
<1>q. \A x, y \in 1..n :
        Singleton(q[x]) /\ Singleton(q[y]) /\ caller[q[x]] = caller[q[y]] /\ q[x] < q[y] => x < y
  BY <1>1, <1>n DEF LineOK
<1>o. \A x \in 2..n : \E y \in 1..n : m[x] = q[y] /\ (IF x <= p THEN y = x - 1 ELSE y = x)
  <2> SUFFICES ASSUME NEW x \in 2..n
               PROVE \E y \in 1..n : m[x] = q[y] /\ (IF x <= p THEN y = x - 1 ELSE y = x)
    OBVIOUS
  <2>1. CASE x <= p
    <3>1. x \in 2..p /\ x - 1 \in 1..n
      BY <2>1, <1>p
    <3> QED
      BY <3>1, <2>1, <1>2
  <2>2. CASE x > p
    <3>1. x \in (p+1)..n /\ x \in 1..n
      BY <2>2, <1>p
    <3> QED
      BY <3>1, <2>2, <1>2, <1>p
  <2> QED
    BY <2>1, <2>2, <1>p
<1>3. CASE i = 1
  <2>1. j # 1
    <3>1. m[1] \in Int
      <4>1. q[p] \in 1..allocated
        <5>1. q \in Seq(1..allocated)
          BY <1>1, Pointers
        <5> QED
          BY <5>1, <1>n, <1>p, SeqElements
      <4> QED
        BY <4>1, <1>2 DEF Inv, TypeOK, SessionTypes
    <3> QED
      BY <3>1, <1>3
  <2> QED
    BY <2>1, <1>3
<1>4. CASE i # 1 /\ j = 1
  <2>1. i \in 2..n
    BY <1>4
  <2>2. PICK y \in 1..n : m[i] = q[y] /\ (IF i <= p THEN y = i - 1 ELSE y = i)
    BY <2>1, <1>o
  <2>3. m[j] = q[p]
    BY <1>2, <1>4
  <2>4. y < p
    BY <2>2, <2>3, <1>q, <1>p
  <2>5. Singleton(q[p]) /\ Singleton(q[y])
    BY <2>2, <2>3
  <2> QED
    BY <2>4, <2>5, <1>1, <1>n
<1>5. CASE i # 1 /\ j # 1
  <2>1. i \in 2..n /\ j \in 2..n
    BY <1>5
  <2>2. PICK y \in 1..n : m[i] = q[y] /\ (IF i <= p THEN y = i - 1 ELSE y = i)
    BY <2>1, <1>o
  <2>3. PICK z \in 1..n : m[j] = q[z] /\ (IF j <= p THEN z = j - 1 ELSE z = j)
    BY <2>1, <1>o
  <2>4. y < z
    BY <2>2, <2>3, <1>q
  <2> QED
    BY <2>1, <2>2, <2>3, <2>4, <1>p
<1> QED
  BY <1>3, <1>4, <1>5

\* A promotion moves a session to the front of its own region.
LEMMA PromoteScanLines ==
  ASSUME Inv, Excl, Lines, NEW t \in Regions, PromoteScan(t)
  PROVE  Lines'
<1>p. /\ pc \in [Regions -> PCs] /\ queue \in [Regions -> Seq(1..allocated)]
      /\ queue[t] \in Seq(1..allocated) /\ scan[t] \in Nat
  BY DEF Inv, TypeOK, ThreadTypes, SharedTypes
<1>s. PICK s, p : p = scan[t] /\ s = queue[t][p]
  OBVIOUS
<1>0. /\ pc[t] = "prScan" /\ UNCHANGED <<allocated, caller, nextSibling, scan, step>>
      /\ \A u \in Regions : u # t => /\ pc'[u] = pc[u] /\ queue'[u] = queue[u]
                                     /\ ready'[u] = ready[u]
      /\ pc'[t] # "prScan"
  BY <1>p DEF PromoteScan, Inv, TypeOK, ThreadTypes
<1>1. \/ UNCHANGED queue
      \/ /\ p <= Len(queue[t]) /\ ~Blocked(s) /\ queue' = [queue EXCEPT ![t] = MoveToFirst(@, s)]
         /\ pc' = [pc EXCEPT ![t] = "prDone"]
  BY <1>s DEF PromoteScan
<1>2. \A i \in 1..Len(queue[t]) : i < p => ~Singleton(queue[t][i])
  BY <1>0, <1>s DEF Lines, ScanOK
<1>3. ASSUME NEW u \in Regions, u # t PROVE LineOK(u)' /\ ScanOK(u)'
  <2>1. LineOK(u) /\ ScanOK(u)
    BY DEF Lines
  <2>2. LineOK(u)'
    BY <2>1, <1>0, <1>3, LineKept
  <2>3. ScanOK(u)'
    BY <2>1, <1>0, <1>3, ScanKept DEF Searching
  <2> QED
    BY <2>2, <2>3
<1>4. CASE UNCHANGED queue
  <2>1. LineOK(t) /\ ScanOK(t)
    BY DEF Lines
  <2>2. LineOK(t)' /\ ScanOK(t)'
    BY <2>1, <1>0, <1>4, LineKept, ScanKept
  <2> QED
    BY <2>2, <1>3 DEF Lines
<1>5. CASE /\ p <= Len(queue[t]) /\ queue' = [queue EXCEPT ![t] = MoveToFirst(@, s)]
           /\ pc' = [pc EXCEPT ![t] = "prDone"]
  <2>1. p \in 1..Len(queue[t])
    <3>1. scan[t] > 0
      BY <1>0 DEF Inv, LocalsSet
    <3> QED
      BY <3>1, <1>5, <1>p, <1>s
  <2>2. queue'[t] = MoveToFirst(queue[t], queue[t][p])
    BY <1>5, <1>p, <1>s
  <2>3. LineOK(t)'
    BY <2>1, <2>2, <1>0, <1>2, LineMoved DEF Lines
  <2>4. ScanOK(t)'
    BY <1>5, <1>p DEF ScanOK, Searching
  <2> QED
    BY <2>3, <2>4, <1>3 DEF Lines
<1> QED
  BY <1>1, <1>4, <1>5

\* A promotion moves the sessions of a ring to the front of their regions.
LEMMA PromoteMarkLines ==
  ASSUME Inv, Excl, Lines, NEW t \in Regions, PromoteMark(t)
  PROVE  Lines'
<1>p. /\ pc \in [Regions -> PCs] /\ queue \in [Regions -> Seq(1..allocated)]
      /\ queue[t] \in Seq(1..allocated) /\ scan[t] \in Nat /\ scan \in [Regions -> Nat]
      /\ step[t] \in Nat /\ locks[t] \in Nat /\ step \in [Regions -> Nat] /\ allocated \in Nat
  BY DEF Inv, TypeOK, ThreadTypes, SharedTypes, SessionTypes
<1>0. pc[t] = "prMark" /\ UNCHANGED <<allocated, caller, nextSibling, base, ready>>
  BY DEF PromoteMark
<1>1. \A u \in Regions : u # t => pc'[u] = pc[u] /\ scan'[u] = scan[u] /\ step'[u] = step[u]
  BY <1>p DEF PromoteMark
<1>2. CASE ~(step[t] < locks[t] /\ ready[t])
  <2>1. UNCHANGED queue
    BY <1>2 DEF PromoteMark
  <2>2. \A r \in Regions : LineOK(r)'
    BY <2>1, <1>0, LineKept DEF Lines
  <2>3. ASSUME NEW u \in Regions, u # t PROVE ScanOK(u)'
    <3>1. ScanOK(u)
      BY DEF Lines
    <3> QED
      BY <3>1, <2>1, <2>3, <1>0, <1>1, ScanKept DEF Searching
  <2>4. ScanOK(t)'
    <3>1. ScanOK(t)
      BY DEF Lines
    <3>2. CASE step[t] < locks[t] /\ ~ready[t]
      <4>1. UNCHANGED <<pc, scan>>
        <5>1. step[t] # locks[t]
          BY <3>2, <1>p
        <5> QED
          BY <5>1, <3>2 DEF PromoteMark
      <4> QED
        BY <4>1, <3>1, <3>2, <2>1, <1>0, ScanKept DEF Searching
    <3>3. CASE step[t] = locks[t] /\ ready[t]
      <4>1. pc'[t] = "prWake"
        <5>1. ~(step[t] < locks[t])
          BY <3>3, <1>p
        <5> QED
          BY <5>1, <3>3, <1>p DEF PromoteMark
      <4> QED
        BY <4>1 DEF ScanOK, Searching
    <3>4. CASE step[t] = locks[t] /\ ~ready[t]
      <4>1. scan'[t] = scan[t] + 1
        <5>1. ~(step[t] < locks[t])
          BY <3>4, <1>p
        <5> QED
          BY <5>1, <3>4, <1>p DEF PromoteMark
      <4>2. Searching(t)
        BY <3>4, <1>0 DEF Searching
      <4>3. scan[t] \in 1..Len(queue[t]) /\ base[t] = queue[t][scan[t]] /\ ~Singleton(base[t])
        BY <4>2, <1>0 DEF Excl, PromoterOK
      <4>4. ASSUME NEW i \in 1..Len(queue[t]), i < scan'[t] PROVE ~Singleton(queue[t][i])
        <5>1. i < scan[t] \/ i = scan[t]
          BY <4>1, <4>4, <1>p
        <5> QED
          BY <5>1, <4>2, <4>3, <3>1 DEF ScanOK
      <4> QED
        BY <4>4, <2>1, <1>0 DEF ScanOK, Singleton
    <3> QED
      BY <3>2, <3>3, <3>4, <1>2 DEF PromoteMark
  <2> QED
    BY <2>2, <2>3, <2>4 DEF Lines
<1>3. CASE step[t] < locks[t] /\ ready[t]
  <2>s. PICK s, r : s = (IF step[t] = 0 THEN base[t] ELSE nextSibling[sib[t]]) /\ r = callee[s]
    OBVIOUS
  <2>0. queue' = [queue EXCEPT ![r] = MoveToFirst(@, s)] /\ UNCHANGED <<pc, scan>>
        /\ step'[t] = step[t] + 1
    <3>1. step[t] # locks[t]
      BY <1>3, <1>p
    <3> QED
      BY <3>1, <1>3, <1>p, <2>s DEF PromoteMark
  <2>b. base[t] \in 1..allocated
    BY <1>0, Pointers DEF BasePCs
  <2>g. PICK f \in 1..allocated, l \in 1..allocated : RingAt(f, l) /\ base[t] \in f..l
    BY <2>b, RingOf
  <2>1. s \in f..l /\ Distance(base[t], s, l - f + 1) = step[t] /\ regionLock[r] = t
    BY <1>0, <1>3, <2>g, <2>s, MarkedSession
  <2>2. s \in 1..allocated /\ r \in Regions
    <3>1. s \in 1..allocated
      BY <2>1, <2>g, <1>p DEF RingAt
    <3> QED
      BY <3>1, <2>s, Pointers
  <2>3. ~isRunning[s]
    <3>1. ~(Distance(base[t], s, l - f + 1) < step[t])
      BY <2>1, <1>p
    <3> QED
      BY <3>1, <2>1, <2>g, <1>0, <1>3 DEF Excl, PromoterOK
  <2>4. PICK p \in 1..Len(queue[r]) : queue[r][p] = s
    <3>1. pc[t] \in {"prSibling", "prMark"}
      BY <1>0
    <3> QED
      BY <3>1, <2>1, <2>3, <2>g, <2>s, RingIsThere
  <2>5. ~Singleton(s)
    <3>1. ~Singleton(base[t])
      BY <1>0 DEF Excl, PromoterOK
    <3>2. Singleton(s) => f = l
      BY <2>1, <2>g, <1>p, NextIs DEF Singleton
    <3> QED
      BY <3>1, <3>2, <2>1, <2>g
  <2>6. /\ queue'[r] = MoveToFirst(queue[r], queue[r][p])
        /\ \A u \in Regions : u # r => queue'[u] = queue[u]
    BY <2>0, <2>2, <2>4, <1>p
  <2>7. LineOK(r)'
    BY <2>2, <2>4, <2>5, <2>6, <1>0, LineMoved DEF Lines
  <2>8. ScanOK(t)'
    <3>1. step'[t] # 0
      BY <2>0, <1>p
    <3> QED
      BY <3>1, <2>0, <1>0, <1>3 DEF ScanOK, Searching
  <2>9. ASSUME NEW u \in Regions PROVE LineOK(u)' /\ ScanOK(u)'
    <3>1. LineOK(u) /\ ScanOK(u)
      BY DEF Lines
    <3>2. u # r => LineOK(u)'
      BY <3>1, <2>6, <1>0, LineKept
    <3>3. u # t => ((pc'[u] = "prScan" \/ Searching(u)') <=> (pc[u] = "prScan" \/ Searching(u)))
      BY <1>0, <1>1 DEF Searching
    <3>4. u # t /\ (pc[u] = "prScan" \/ Searching(u)) => u # r
      <4>1. pc[u] = "prScan" \/ Searching(u) => regionLock[u] = u
        BY ScanLocked
      <4> QED
        BY <4>1, <2>1
    <3>5. CASE u # t /\ (pc[u] = "prScan" \/ Searching(u))
      BY <3>1, <3>2, <3>3, <3>4, <3>5, <2>6, <1>0, <1>1, ScanKept
    <3>6. CASE u # t /\ ~(pc[u] = "prScan" \/ Searching(u))
      <4>1. ScanOK(u)'
        BY <3>3, <3>6 DEF ScanOK
      <4> QED
        BY <4>1, <3>2, <2>7
    <3>7. CASE u = t
      BY <3>2, <3>7, <2>7, <2>8
    <3> QED
      BY <3>5, <3>6, <3>7
  <2> QED
    BY <2>9 DEF Lines
<1> QED
  BY <1>2, <1>3

\* The queues are empty at first.
LEMMA InitLines == Init => Lines
<1> SUFFICES ASSUME Init, NEW r \in Regions PROVE LineOK(r) /\ ScanOK(r)
  BY DEF Lines
<1>1. queue[r] = << >> /\ pc[r] \in {"body", "iterate"}
  BY DEF Init
<1>2. Len(queue[r]) = 0
  BY <1>1
<1> QED
  BY <1>1, <1>2 DEF LineOK, ScanOK, Searching

\* Every step keeps it.
LEMMA NextLines == Inv /\ Excl /\ Naps /\ Ledger /\ Lines /\ [Next]_vars => Lines'
<1> SUFFICES ASSUME Inv, Excl, Naps, Ledger, Lines, [Next]_vars PROVE Lines'
  OBVIOUS
<1>q. ASSUME UNCHANGED <<sessionVars, queue, pc, localVars>> PROVE Lines'
  BY <1>q, QuietLines DEF LineQuiet, Searching, sessionVars, localVars
<1>1. CASE UNCHANGED vars
  BY <1>1, <1>q DEF vars
<1>2. CASE Terminated
  BY <1>2, <1>q DEF Terminated, vars
<1>3. ASSUME NEW t \in Regions, Client(t) PROVE Lines'
  BY <1>3, OpenBlockLines, AddCallLines, AppendSessionLines, AppendSiblingLines, PlainLines,
     WakeLines
  DEF Client
<1>4. ASSUME NEW t \in Regions, Server(t) PROVE Lines'
  BY <1>4, PlainLines, RemoveSessionLines, WakeLines DEF Server
<1>5. ASSUME NEW t \in Regions, PromoteFault(t) PROVE Lines'
  BY <1>5, <1>q DEF PromoteFault
<1>6. ASSUME NEW t \in Regions, Promote(t) PROVE Lines'
  BY <1>5, <1>6, PlainLines, PromoteLines, PromoteScanLines, PromoteMarkLines, WakeLines
  DEF Promote
<1> QED
  BY <1>1, <1>2, <1>3, <1>4, <1>6 DEF Next, Thread

-----------------------------------------------------------------------------
(* The order itself. *)

\* An earlier singleton of the same client that is not in the queue any more has
\* executed all its calls.
LEMMA EarlierIsDone ==
  ASSUME Inv, Excl, Ledger, Lines, NEW s \in 1..allocated, NEW x \in 1..allocated, NEW r \in Regions,
         s < x, caller[s] = caller[x], callee[s] = r, Singleton(s), Singleton(x),
         queue[r] # << >>, queue[r][1] = x
  PROVE  applied[s] = logged[s]
<1>p. /\ allocated \in Nat /\ s \in Sessions /\ calls[s] \in Seq({"async", "sync"})
      /\ logged[s] \in Nat /\ applied[s] \in Nat
  <2>1. s \in Sessions /\ allocated \in Nat
    BY CallTypes
  <2> QED
    BY <2>1, CallTypes
<1>c. CallsOK(s) /\ LedgerOK(s) /\ ~isOpen[s]
  BY <1>p DEF Ledger, ClosedOK
<1>q. queue[r] \in Seq(1..allocated)
  BY Pointers
<1>1. CASE isSubmitted[s] /\ s \notin freed
  <2>1. PICK i \in 1..Len(queue[r]) : queue[r][i] = s
    BY <1>1 DEF Excl, SessionOK
  <2>2. 1 \in 1..Len(queue[r])
    BY <1>q, SeqTail
  <2>3. i < 1
    BY <2>1, <2>2 DEF Lines, LineOK
  <2> QED
    BY <2>1, <2>3, <1>q
<1>2. CASE isSubmitted[s] /\ s \in freed
  <2>1. Len(calls[s]) = 0
    BY <1>2, <1>c DEF LedgerOK
  <2> QED
    BY <2>1, <1>c, <1>p DEF CallsOK
<1>3. CASE ~isSubmitted[s]
  <2>1. ~(logged[s] > 0)
    <3> SUFFICES ASSUME logged[s] > 0 PROVE FALSE
      OBVIOUS
    <3>1. PICK u \in Regions : pc[u] \in {"increment", "append"} /\ base[u] = s
      BY <1>3, <1>c DEF LedgerOK
    <3>2. pc[u] \in {"increment", "append", "mLock", "mRegion", "mAppend", "mWake"}
      BY <3>1
    <3>3. isOpen[s]
      BY <3>1, <3>2, OwnRing
    <3> QED
      BY <3>3, <1>c
  <2>2. Len(calls[s]) \in Nat
    BY <1>p
  <2> QED
    BY <2>1, <2>2, <1>c, <1>p DEF CallsOK
<1> QED
  BY <1>1, <1>2, <1>3

\* Steps that log and take no call, and open nothing.
LEMMA QuietOrder ==
  ASSUME SingletonsInOrder,
         UNCHANGED <<allocated, caller, callee, nextSibling, applied, logged>>
  PROVE  SingletonsInOrder'
BY DEF SingletonsInOrder, InOrder, Singleton

\* A call is logged in a session: no later one has been executed.
LEMMA AddCallOrder ==
  ASSUME Inv, Excl, Ledger, SingletonsInOrder, NEW t \in Regions, AddCall(t)
  PROVE  SingletonsInOrder'
<1>p. logged \in [Sessions -> Nat] /\ 1..allocated \subseteq Sessions
  BY CallTypes
<1>1. PICK i \in 1..Len(block[t]), k \in CallKinds : AddCallTo(t, block[t][i], k)
  BY DEF AddCall
<1>s. PICK c : c = block[t][i]
  OBVIOUS
<1>2. c \in 1..allocated /\ isOpen[c]
  BY <1>1, <1>s, BlockCaller
<1>3. /\ \A x \in Sessions : x # c => logged'[x] = logged[x]
      /\ UNCHANGED <<allocated, caller, callee, nextSibling, applied>>
  BY <1>1, <1>2, <1>p, <1>s DEF AddCallTo
<1> SUFFICES ASSUME NEW s \in 1..allocated, NEW x \in 1..allocated, Singleton(s), Singleton(x),
                    s < x, caller[s] = caller[x], callee[s] = callee[x], applied[x] > 0
             PROVE  applied[s] = logged'[s]
  BY <1>3 DEF SingletonsInOrder, InOrder, Singleton
<1>4. s # c
  BY <1>2 DEF Ledger, ClosedOK
<1> QED
  BY <1>3, <1>4, <1>p DEF SingletonsInOrder, InOrder

\* A call is executed: the earlier sessions are done.
LEMMA NextCallOrder ==
  ASSUME Inv, Excl, Ledger, Lines, SingletonsInOrder, NEW t \in Regions, NextCall(t)
  PROVE  SingletonsInOrder'
<1>p. /\ calls \in [Sessions -> Seq({"async", "sync"})]
      /\ logged \in [Sessions -> Nat] /\ applied \in [Sessions -> Nat]
      /\ 1..allocated \subseteq Sessions
  BY CallTypes
<1>c. PICK c : c = cur[t]
  OBVIOUS
<1>1. cur[t] # None
  BY DEF NextCall, Inv, LocalsSet
<1>2. /\ c \in 1..allocated /\ queue[t] # << >> /\ c = queue[t][1] /\ callee[c] = t
  <2>1. queue[t] \in Seq(1..allocated) /\ queue[t] # << >> /\ c = queue[t][1] /\ QueueOK(t)
    BY <1>1, <1>c, Pointers DEF Inv, LocalsSet, Excl, QueueOK
  <2>2. 1 \in 1..Len(queue[t])
    BY <2>1, SeqTail
  <2> QED
    BY <2>1, <2>2, SeqElements DEF QueueOK
<1>3. /\ calls[c] # << >>
      /\ \A x \in Sessions : x # c => applied'[x] = applied[x]
      /\ UNCHANGED <<allocated, caller, callee, nextSibling, logged>>
  BY <1>2, <1>c, <1>p DEF NextCall
<1> SUFFICES ASSUME NEW s \in 1..allocated, NEW x \in 1..allocated, Singleton(s), Singleton(x),
                    s < x, caller[s] = caller[x], callee[s] = callee[x], applied'[x] > 0
             PROVE  applied'[s] = logged[s]
  BY <1>3 DEF SingletonsInOrder, InOrder, Singleton
<1>4. CASE x = c
  <2>1. applied[s] = logged[s]
    BY <1>2, <1>4, EarlierIsDone
  <2>2. s # c
    BY <1>4, CallTypes
  <2> QED
    BY <2>1, <2>2, <1>3, <1>p
<1>5. CASE x # c
  <2>1. applied[s] = logged[s]
    BY <1>3, <1>5, <1>p DEF SingletonsInOrder, InOrder
  <2>2. s # c
    <3> SUFFICES ASSUME s = c PROVE FALSE
      OBVIOUS
    <3>1. CallsOK(c)
      BY <1>2, <1>p DEF Ledger
    <3>2. applied[c] \in Nat /\ Len(calls[c]) \in Nat /\ Len(calls[c]) # 0
      BY <1>2, <1>3, <1>p
    <3> QED
      BY <3>1, <3>2, <2>1 DEF CallsOK
  <2> QED
    BY <2>1, <2>2, <1>3, <1>p
<1> QED
  BY <1>4, <1>5

\* A feature opens sessions: none of their calls was executed.
LEMMA OpenBlockOrder ==
  ASSUME Inv, Excl, Ledger, SingletonsInOrder, NEW t \in Regions, OpenBlock(t)
  PROVE  SingletonsInOrder'
<1>1. PICK a \in Nat, n \in Nat :
           /\ a = allocated /\ allocated' = a + n /\ a + n <= MaxSessions
           /\ \A s \in 1..a : caller'[s] = caller[s] /\ nextSibling'[s] = nextSibling[s]
           /\ UNCHANGED <<logged, applied>>
  BY Opened
<1>s. Sessions = 1..MaxSessions /\ MaxSessions \in Nat
  BY BoundsAssumption DEF Sessions
<1>2. \A s \in 1..a : callee'[s] = callee[s]
  <2>1. PICK b : OpenSessions(t, b)
    BY DEF OpenBlock
  <2>2. PICK m : m = Len(b)
    OBVIOUS
  <2>3. \A s \in 1..a : s \in Sessions /\ s \notin (a + 1)..(a + m)
    BY <1>1, <1>s
  <2> QED
    BY <2>1, <2>2, <2>3, <1>1 DEF OpenSessions
<1>3. ASSUME NEW x \in 1..(a + n), x \notin 1..a PROVE ~(applied[x] > 0)
  <2>1. x \in Sessions /\ x > a
    BY <1>1, <1>3, <1>s
  <2>2. CallsOK(x) /\ applied[x] \in Nat /\ Len(calls[x]) \in Nat
    BY <2>1, CallTypes DEF Ledger
  <2> QED
    BY <2>1, <2>2, <1>1 DEF CallsOK
<1> SUFFICES ASSUME NEW s \in 1..(a + n), NEW x \in 1..(a + n), Singleton(s)', Singleton(x)',
                    s < x, caller'[s] = caller'[x], callee'[s] = callee'[x], applied[x] > 0
             PROVE  applied[s] = logged[s]
  BY <1>1 DEF SingletonsInOrder, InOrder
<1>4. x \in 1..a /\ s \in 1..a
  BY <1>3
<1> QED
  BY <1>1, <1>2, <1>4 DEF SingletonsInOrder, InOrder, Singleton

\* Features with one separate argument are served in the order of their calls: the
\* calls of a later feature start when all those of an earlier one, of the same client
\* and on the same region, have started.
THEOREM SpecSingletonsInOrder == Spec => []SingletonsInOrder
<1> DEFINE I == Inv /\ Excl /\ Naps /\ Ledger /\ Lines /\ SingletonsInOrder
<1>1. Init => I
  <2>1. Init => SingletonsInOrder
    BY DEF Init, SingletonsInOrder, InOrder
  <2> QED
    BY <2>1, InitInv, InitExcl, InitNaps, InitLedger, InitLines
<1>2. I /\ [Next]_vars => I'
  <2> SUFFICES ASSUME I, [Next]_vars PROVE SingletonsInOrder'
    BY NextInv, NextExcl, NextNaps, NextLedger, NextLines
  <2>q. ASSUME UNCHANGED <<allocated, caller, callee, nextSibling, applied, logged>>
        PROVE  SingletonsInOrder'
    BY <2>q, QuietOrder
  <2>1. CASE UNCHANGED vars
    BY <2>1, <2>q DEF vars, sessionVars
  <2>2. CASE Terminated
    BY <2>2, <2>q DEF Terminated, vars, sessionVars
  <2>3. ASSUME NEW t \in Regions, Client(t) PROVE SingletonsInOrder'
    <3>1. \/ OpenBlock(t) \/ AddCall(t)
          \/ UNCHANGED <<allocated, caller, callee, nextSibling, applied, logged>>
      BY <2>3 DEF Client, CountSession, AppendSession, LockMultisessions, LockCallee,
         AppendSibling, WakeCallee, SyncReturn, CloseSession, sessionVars
    <3> QED
      BY <3>1, <2>q, OpenBlockOrder, AddCallOrder
  <2>4. ASSUME NEW t \in Regions, Server(t) PROVE SingletonsInOrder'
    <3>1. \/ NextCall(t)
          \/ UNCHANGED <<allocated, caller, callee, nextSibling, applied, logged>>
      BY <2>4 DEF Server, Iterate, Recheck, Idle, Sleep, Timeout, EndSession, EndBody,
         RemoveSession, DecrementCount, WakeMain, sessionVars
    <3> QED
      BY <3>1, <2>q, NextCallOrder
  <2>5. ASSUME NEW t \in Regions, Promote(t) PROVE SingletonsInOrder'
    <3>1. UNCHANGED <<allocated, caller, callee, nextSibling, applied, logged>>
      BY <2>5 DEF Promote, PromoteLock, PromoteRegion, PromoteScan, PromoteSibling,
         PromoteMark, PromoteWake, PromoteFault, PromoteDone, sessionVars
    <3> QED
      BY <3>1, <2>q
  <2> QED
    BY <2>1, <2>2, <2>3, <2>4, <2>5 DEF Next, Thread
<1>3. I => SingletonsInOrder
  OBVIOUS
<1> QED
  BY <1>1, <1>2, <1>3, PTL DEF Spec
=============================================================================
