------------------------ MODULE SessionList_proofs ------------------------
(***************************************************************************)
(* The linked list of a region represents its queue, whatever the number   *)
(* of sessions.  Checked with TLAPS.                                       *)
(***************************************************************************)
EXTENDS SessionList, TLAPS

-----------------------------------------------------------------------------
(***************************************************************************)
(* Session queues.                                                         *)
(***************************************************************************)

\* No session occurs twice in q.
Distinct(q) == \A i, j \in 1..Len(q) : q[i] = q[j] => i = j

\* The position of a session in a queue without duplicates.
LEMMA PositionIs ==
  ASSUME NEW S, NEW q \in Seq(S), Distinct(q), NEW p \in 1..Len(q)
  PROVE  Position(q, q[p]) = p
BY DEF Position, Distinct

\* What MoveToFirst does: the session comes first, the ones that were before it
\* move up by one, the others keep their places.
LEMMA MoveToFirstIs ==
  ASSUME NEW S, NEW q \in Seq(S), Distinct(q), NEW p \in 1..Len(q)
  PROVE  LET m == MoveToFirst(q, q[p])
         IN  /\ m \in Seq(S)
             /\ Len(m) = Len(q)
             /\ m[1] = q[p]
             /\ \A i \in 2..p : m[i] = q[i-1]
             /\ \A i \in (p+1)..Len(q) : m[i] = q[i]
             /\ Distinct(m)
<1> DEFINE m == MoveToFirst(q, q[p])
<1>1. m = [i \in 1..Len(q) |->
             IF i = 1 THEN q[p] ELSE IF i <= p THEN q[i-1] ELSE q[i]]
  BY PositionIs DEF MoveToFirst
<1>2. m \in Seq(S) /\ Len(m) = Len(q)
  BY <1>1
<1>3. /\ m[1] = q[p]
      /\ \A i \in 2..p : m[i] = q[i-1]
      /\ \A i \in (p+1)..Len(q) : m[i] = q[i]
  BY <1>1
<1>4. Distinct(m)
  BY <1>1, <1>2 DEF Distinct
<1> QED
  BY <1>2, <1>3, <1>4

\* Removing the first session leaves the rest in place.
LEMMA WithoutFirstIs ==
  ASSUME NEW S, NEW q \in Seq(S), Distinct(q), q # << >>
  PROVE  LET w == Without(q, q[1])
         IN  /\ w \in Seq(S)
             /\ Len(w) = Len(q) - 1
             /\ \A i \in 1..Len(w) : w[i] = q[i+1]
             /\ Distinct(w)
<1> DEFINE w == Without(q, q[1])
<1>0. 1 \in 1..Len(q)
  OBVIOUS
<1>1. w = [i \in 1..(Len(q) - 1) |-> q[i+1]]
  BY <1>0, PositionIs DEF Without
<1>2. w \in Seq(S) /\ Len(w) = Len(q) - 1 /\ \A i \in 1..Len(w) : w[i] = q[i+1]
  BY <1>0, <1>1
<1> QED
  BY <1>2 DEF Distinct

-----------------------------------------------------------------------------

\* A session that was not submitted is not in the list and has null links.
FreshSessions ==
  \A s \in fresh : /\ \A i \in 1..Len(list) : list[i] # s
                   /\ next[s] = None /\ previous[s] = None /\ ~isRunning[s]

\* The inductive invariant.
ListInv ==
  /\ TypeOK /\ ForwardLinks /\ BackwardLinks /\ KeptAlive /\ OnlyFirstRunning
  /\ FreshSessions

\* The empty list of a new region.
LEMMA InitList == Init => ListInv
<1> SUFFICES ASSUME Init PROVE ListInv
  OBVIOUS
<1>1. list = << >> /\ list \in Seq(Sessions) /\ Len(list) = 0
  BY DEF Init
<1>2. TypeOK
  BY <1>1 DEF Init, TypeOK
<1>3. ForwardLinks /\ BackwardLinks /\ OnlyFirstRunning
  BY <1>1 DEF Init, ForwardLinks, BackwardLinks, OnlyFirstRunning
<1>4. KeptAlive
  BY <1>1 DEF Init, KeptAlive
<1>5. FreshSessions
  BY <1>1 DEF Init, FreshSessions
<1> QED
  BY <1>2, <1>3, <1>4, <1>5 DEF ListInv

\* GE_unprotected_add_scoop_session appends to the queue.
LEMMA AddList ==
  ASSUME ListInv, NEW s \in Sessions, AddSession(s)
  PROVE  ListInv'
<1> USE NoneAssumption
<1>0. /\ list' \in Seq(Sessions) /\ Len(list') = Len(list) + 1
      /\ list'[Len(list')] = s
      /\ \A i \in 1..Len(list) : list'[i] = list[i]
      /\ list' # << >>
  BY DEF ListInv, TypeOK, AddSession, AddLast
<1>1. TypeOK'
  BY <1>0 DEF ListInv, TypeOK, FreshSessions, AddSession, AddLast
<1>2. ForwardLinks'
  BY <1>0 DEF ListInv, TypeOK, ForwardLinks, FreshSessions, AddSession, AddLast
<1>3. BackwardLinks'
  BY <1>0 DEF ListInv, TypeOK, ForwardLinks, BackwardLinks, FreshSessions, AddSession, AddLast
<1>4. KeptAlive'
  BY <1>0 DEF KeptAlive, AddSession, AddLast
<1>5. OnlyFirstRunning' /\ FreshSessions'
  BY <1>0 DEF ListInv, TypeOK, ForwardLinks, OnlyFirstRunning, FreshSessions, AddSession, AddLast
<1> QED
  BY <1>1, <1>2, <1>3, <1>4, <1>5 DEF ListInv

\* GE_promote_scoop_session makes the session the first one.
LEMMA PromoteList ==
  ASSUME ListInv, NEW s \in Sessions, PromoteSession(s)
  PROVE  ListInv'
<1> USE NoneAssumption
<1>1. PICK p \in 1..Len(list) : list[p] = s
  BY DEF PromoteSession
<1>2. list \in Seq(Sessions) /\ Distinct(list)
  BY DEF ListInv, TypeOK, Distinct
<1>3. /\ list' \in Seq(Sessions)
      /\ Len(list') = Len(list)
      /\ list'[1] = s
      /\ \A i \in 2..p : list'[i] = list[i-1]
      /\ \A i \in (p+1)..Len(list) : list'[i] = list[i]
      /\ Distinct(list')
  <2>1. list' = MoveToFirst(list, list[p])
    BY <1>1 DEF PromoteSession
  <2> QED
    BY <2>1, <1>1, <1>2, MoveToFirstIs
<1>4. list # << >> /\ list' # << >>
  BY <1>1, <1>2, <1>3
<1>5. first = list[1] /\ last = list[Len(list)]
  BY <1>4 DEF ListInv, ForwardLinks
<1>6. CASE p = 1
  <2>1. /\ first' = first /\ last' = last /\ next' = next /\ previous' = previous
        /\ isRunning' = [isRunning EXCEPT ![s] = TRUE]
        /\ keepAlive' = keepAlive /\ fresh' = fresh
    BY <1>1, <1>5, <1>6 DEF PromoteSession, MoveSessionToFirst
  <2>2. \A i \in 1..Len(list) : list'[i] = list[i]
    BY <1>1, <1>3, <1>6
  <2>3. TypeOK'
    BY <1>3, <2>1 DEF ListInv, TypeOK, Distinct
  <2>4. ForwardLinks'
    <3>1. first' = list'[1] /\ last' = list'[Len(list')]
      BY <1>1, <1>3, <1>5, <1>6, <2>1, <2>2
    <3>2. ASSUME NEW i \in 1..Len(list)
          PROVE  next'[list'[i]] = IF i = Len(list) THEN None ELSE list'[i+1]
      <4>1. next[list[i]] = IF i = Len(list) THEN None ELSE list[i+1]
        BY DEF ListInv, ForwardLinks
      <4>2. i # Len(list) => list'[i+1] = list[i+1]
        BY <1>2, <2>2
      <4> QED
        BY <4>1, <4>2, <2>1, <2>2
    <3> QED
      BY <3>1, <3>2, <1>3, <1>4 DEF ForwardLinks
  <2>5. BackwardLinks'
    BY <1>1, <1>2, <1>3, <1>6, <2>1, <2>2 DEF ListInv, TypeOK, BackwardLinks
  <2>6. KeptAlive'
    BY <1>4, <2>1 DEF ListInv, KeptAlive
  <2>7. OnlyFirstRunning'
    BY <1>1, <1>2, <1>3, <1>6, <2>1, <2>2
    DEF ListInv, TypeOK, OnlyFirstRunning, Distinct
  <2>8. FreshSessions'
    BY <1>1, <1>3, <2>1, <2>2 DEF ListInv, TypeOK, FreshSessions
  <2> QED
    BY <2>3, <2>4, <2>5, <2>6, <2>7, <2>8 DEF ListInv
<1>7. CASE p # 1
  <2> DEFINE n == Len(list)
             r == list[p-1]
  <2>1. p \in 2..n /\ n \in Nat
    BY <1>1, <1>2, <1>7
  <2>2. s # first /\ ~isRunning[first]
    BY <2>1, <1>1, <1>2, <1>5 DEF Distinct, PromoteSession, MayPass
  <2>3. previous[s] = r /\ r \in Sessions /\ r # s
    BY <2>1, <2>2, <1>1, <1>2, <1>5 DEF ListInv, BackwardLinks, Distinct
  <2>4. \A i \in 2..n : previous[list[i]] = list[i-1]
    BY <2>1, <2>2, <1>5, <1>2 DEF ListInv, BackwardLinks
  <2>5. /\ first' = s
        /\ previous' = IF p = n THEN [previous EXCEPT ![s] = None]
                       ELSE [previous EXCEPT ![list[p+1]] = r, ![s] = None]
        /\ next' = [next EXCEPT ![r] = next[s], ![s] = first]
        /\ last' = IF p = n THEN r ELSE last
        /\ isRunning' = [isRunning EXCEPT ![s] = TRUE]
        /\ keepAlive' = keepAlive /\ fresh' = fresh
    <3>1. p = n <=> s = last
      BY <2>1, <1>1, <1>2, <1>5 DEF Distinct
    <3>2. next[s] = IF p = n THEN None ELSE list[p+1]
      BY <2>1, <1>1 DEF ListInv, ForwardLinks
    <3> QED
      BY <3>1, <3>2, <2>2, <2>3 DEF PromoteSession, MoveSessionToFirst
  <2>6. next[s] = IF p = n THEN None ELSE list[p+1]
    BY <2>1, <1>1 DEF ListInv, ForwardLinks
  <2>7. TypeOK'
    <3>1. next' \in [Sessions -> Sessions \union {None}]
      BY <2>3, <2>5, <1>5, <1>2, <1>4 DEF ListInv, TypeOK
    <3>2. previous' \in [Sessions -> Sessions \union {None}]
      BY <2>3, <2>5 DEF ListInv, TypeOK
    <3> QED
      BY <3>1, <3>2, <2>3, <2>5, <1>3 DEF ListInv, TypeOK, Distinct
  <2>8. ForwardLinks'
    <3>1. \A i \in 1..n : list'[i] = IF i = 1 THEN s ELSE IF i <= p THEN list[i-1] ELSE list[i]
      BY <2>1, <1>3
    <3>2. \A x \in Sessions : next'[x] = IF x = s THEN first ELSE IF x = r THEN next[s] ELSE next[x]
      BY <2>3, <2>5 DEF ListInv, TypeOK
    <3>3. \A i \in 1..n : next[list[i]] = IF i = n THEN None ELSE list[i+1]
      BY DEF ListInv, ForwardLinks
    <3>4. ASSUME NEW i \in 1..n
          PROVE  next'[list'[i]] = IF i = n THEN None ELSE list'[i+1]
      <4>1. CASE i = 1
        BY <4>1, <3>1, <3>2, <2>1, <1>5
      <4>2. CASE i # 1 /\ i < p
        BY <4>2, <3>1, <3>2, <3>3, <2>1, <1>1, <1>2 DEF Distinct
      <4>3. CASE i # 1 /\ i = p
        BY <4>3, <3>1, <3>2, <2>1, <2>3, <2>6
      <4>4. CASE i > p
        <5>1. list[i] # s /\ list[i] # r /\ list[i] \in Sessions
          BY <4>4, <2>1, <1>1, <1>2 DEF Distinct
        <5>2. list'[i] = list[i] /\ (i # n => list'[i+1] = list[i+1])
          BY <4>4, <3>1, <2>1
        <5> QED
          BY <5>1, <5>2, <3>2, <3>3
      <4> QED
        BY <4>1, <4>2, <4>3, <4>4, <2>1
    <3>5. last' = list'[n]
      BY <3>1, <2>1, <2>5, <1>5
    <3> QED
      BY <3>4, <3>5, <2>5, <1>3, <1>4 DEF ForwardLinks
  <2>9. BackwardLinks'
    <3>1. ASSUME NEW i \in 1..n
          PROVE  \/ previous'[list'[i]] = IF i = 1 THEN None ELSE list'[i-1]
                 \/ i = 2 /\ previous'[list'[i]] = None /\ isRunning'[s]
      <4>1. list'[i] = IF i = 1 THEN s ELSE IF i <= p THEN list[i-1] ELSE list[i]
        BY <2>1, <1>3
      <4>2. i # 1 => list'[i-1] = IF i = 2 THEN s ELSE IF i-1 <= p THEN list[i-2] ELSE list[i-1]
        BY <2>1, <1>3
      <4>3. CASE i = 1
        BY <4>1, <4>3, <2>5, <2>3 DEF ListInv, TypeOK
      <4>4. CASE i = 2
        <5>1. list'[2] = list[1] /\ previous[list[1]] = None
          BY <4>1, <4>4, <2>1 DEF ListInv, BackwardLinks
        <5>2. list[1] # s /\ (p # n => list[1] # list[p+1])
          BY <2>1, <1>1, <1>2 DEF Distinct
        <5> QED
          BY <5>1, <5>2, <4>4, <2>5, <2>1, <1>2 DEF ListInv, TypeOK
      <4>5. CASE i > 2 /\ i <= p
        <5>1. list[i-1] # s /\ (p # n => list[i-1] # list[p+1])
          BY <4>5, <2>1, <1>1, <1>2 DEF Distinct
        <5>2. previous[list[i-1]] = list[i-2] /\ list[i-1] \in Sessions
          BY <4>5, <2>1, <2>4, <1>2
        <5> QED
          BY <5>1, <5>2, <4>1, <4>2, <4>5, <2>5 DEF ListInv, TypeOK
      <4>6. CASE i = p + 1 /\ i # 2
        <5>1. list[i] # s /\ list[i] \in Sessions
          BY <4>6, <2>1, <1>1, <1>2 DEF Distinct
        <5> QED
          BY <5>1, <4>1, <4>2, <4>6, <2>1, <2>5 DEF ListInv, TypeOK
      <4>7. CASE i > p + 1
        <5>1. list[i] # s /\ list[i] # list[p+1] /\ list[i] \in Sessions
          BY <4>7, <2>1, <1>1, <1>2 DEF Distinct
        <5>2. previous[list[i]] = list[i-1]
          BY <4>7, <2>1, <2>4
        <5> QED
          BY <5>1, <5>2, <4>1, <4>2, <4>7, <2>1, <2>5 DEF ListInv, TypeOK
      <4> QED
        BY <4>3, <4>4, <4>5, <4>6, <4>7, <2>1
    <3> QED
      BY <3>1, <1>3 DEF BackwardLinks
  <2>10. KeptAlive'
    BY <1>4, <2>5 DEF ListInv, KeptAlive
  <2>11. OnlyFirstRunning'
    <3>1. ASSUME NEW i \in 2..n PROVE ~isRunning'[list'[i]]
      <4>1. PICK j \in 1..n : list'[i] = list[j] /\ j # p
        <5>1. CASE i <= p
          BY <5>1, <1>3, <2>1
        <5>2. CASE i > p
          BY <5>2, <1>3, <2>1
        <5> QED
          BY <5>1, <5>2, <2>1
      <4>2. ~isRunning[list[j]]
        BY <2>2, <1>5, <4>1 DEF ListInv, OnlyFirstRunning
      <4>3. list[j] # s /\ list[j] \in Sessions
        BY <4>1, <1>1, <1>2 DEF Distinct
      <4> QED
        BY <4>1, <4>2, <4>3, <2>5 DEF ListInv, TypeOK
    <3> QED
      BY <3>1, <1>3 DEF OnlyFirstRunning
  <2>12. FreshSessions'
    <3>1. ASSUME NEW x \in fresh
          PROVE  /\ \A i \in 1..n : list'[i] # x
                 /\ next'[x] = None /\ previous'[x] = None /\ ~isRunning'[x]
      <4>1. x \in Sessions /\ \A i \in 1..n : list[i] # x
        BY DEF ListInv, TypeOK, FreshSessions
      <4>2. x # s /\ x # r /\ (p # n => x # list[p+1])
        BY <4>1, <2>1, <1>1
      <4>3. \A i \in 1..n : list'[i] # x
        BY <4>1, <4>2, <2>1, <1>3
      <4>4. next'[x] = next[x] /\ previous'[x] = previous[x] /\ isRunning'[x] = isRunning[x]
        BY <4>1, <4>2, <2>5 DEF ListInv, TypeOK
      <4> QED
        BY <4>3, <4>4 DEF ListInv, FreshSessions
    <3> QED
      BY <3>1, <2>5, <1>3 DEF FreshSessions
  <2> QED
    BY <2>7, <2>8, <2>9, <2>10, <2>11, <2>12 DEF ListInv
<1> QED
  BY <1>6, <1>7

\* GE_remove_scoop_session removes the first session.
LEMMA RemoveList ==
  ASSUME ListInv, NEW s \in Sessions, RemoveSession(s)
  PROVE  ListInv'
<1> USE NoneAssumption
<1>1. list # << >> /\ list \in Seq(Sessions) /\ Distinct(list) /\ s = list[1]
  BY DEF ListInv, TypeOK, ForwardLinks, RemoveSession, Distinct
<1>2. /\ list' \in Seq(Sessions)
      /\ Len(list') = Len(list) - 1
      /\ \A i \in 1..Len(list') : list'[i] = list[i+1]
      /\ Distinct(list')
  BY <1>1, WithoutFirstIs DEF RemoveSession, KeepAliveAfter
<1>3. Len(list) \in Nat \ {0} /\ 1 \in 1..Len(list)
  BY <1>1
<1>4. previous[s] = None
  BY <1>1, <1>3 DEF ListInv, BackwardLinks
<1>5. next[s] = IF Len(list) = 1 THEN None ELSE list[2]
  <2>1. next[list[1]] = IF 1 = Len(list) THEN None ELSE list[1+1]
    BY <1>3 DEF ListInv, ForwardLinks
  <2> QED
    BY <2>1, <1>1
<1>6. /\ first' = next[s] /\ next' = next
      /\ isRunning' = isRunning /\ fresh' = fresh
      /\ Len(list) # 1 => /\ previous' = [previous EXCEPT ![list[2]] = None]
                          /\ last' = last
      /\ Len(list) = 1 => previous' = previous /\ last' = None
  <2>1. Len(list) # 1 => list[2] \in Sessions
    BY <1>1, <1>3
  <2>2. Len(list) # 1 => next[s] # None /\ next[s] = list[2]
    BY <2>1, <1>5
  <2> QED
    BY <2>2, <1>4, <1>5 DEF RemoveSession, KeepAliveAfter
<1>7. list' = << >> <=> Len(list) = 1
  BY <1>1, <1>2, <1>3
<1>8. TypeOK'
  <2>1. first' \in Sessions \union {None} /\ last' \in Sessions \union {None}
    BY <1>1, <1>3, <1>5, <1>6 DEF ListInv, TypeOK
  <2>2. previous' \in [Sessions -> Sessions \union {None}]
    BY <1>3, <1>6 DEF ListInv, TypeOK
  <2>3. keepAlive' \in {"region", "null"}
    BY DEF ListInv, TypeOK, RemoveSession, KeepAliveAfter
  <2> QED
    BY <2>1, <2>2, <2>3, <1>2, <1>6 DEF ListInv, TypeOK, Distinct
<1>9. ForwardLinks'
  <2>1. CASE Len(list) = 1
    BY <2>1, <1>2, <1>5, <1>6, <1>7 DEF ForwardLinks
  <2>2. CASE Len(list) # 1
    <3>1. first' = list'[1] /\ last' = list'[Len(list')]
      <4>1. last = list[Len(list)]
        BY <1>1 DEF ListInv, ForwardLinks
      <4> QED
        BY <4>1, <2>2, <1>2, <1>3, <1>5, <1>6
    <3>2. ASSUME NEW i \in 1..Len(list')
          PROVE  next'[list'[i]] = IF i = Len(list') THEN None ELSE list'[i+1]
      <4>1. i+1 \in 1..Len(list) /\ list'[i] = list[i+1]
        BY <1>2, <1>3
      <4>2. next[list[i+1]] = IF i+1 = Len(list) THEN None ELSE list[i+1+1]
        BY <4>1 DEF ListInv, ForwardLinks
      <4>3. i # Len(list') => list'[i+1] = list[i+1+1]
        BY <4>1, <1>2, <1>3
      <4> QED
        BY <4>1, <4>2, <4>3, <1>2, <1>3, <1>6
    <3> QED
      BY <3>1, <3>2, <2>2, <1>7 DEF ForwardLinks
  <2> QED
    BY <2>1, <2>2
<1>10. BackwardLinks'
  <2> SUFFICES ASSUME NEW i \in 1..Len(list')
               PROVE  previous'[list'[i]] = IF i = 1 THEN None ELSE list'[i-1]
    BY DEF BackwardLinks
  <2>1. i + 1 \in 1..Len(list) /\ list'[i] = list[i+1] /\ Len(list) # 1
    BY <1>2, <1>3
  <2>2. CASE i = 1
    BY <2>1, <2>2, <1>1, <1>6 DEF ListInv, TypeOK
  <2>3. CASE i # 1
    <3>1. list[i+1] # list[2] /\ list'[i-1] = list[i]
      BY <2>1, <2>3, <1>1, <1>2 DEF Distinct
    <3>2. previous[list[i+1]] = list[i]
      BY <2>1, <2>3, <1>1 DEF ListInv, BackwardLinks
    <3> QED
      BY <3>1, <3>2, <2>1, <2>3, <1>1, <1>6 DEF ListInv, TypeOK
  <2> QED
    BY <2>2, <2>3
<1>11. KeptAlive'
  <2>1. list' = << >> <=> first' = None
    <3>1. Len(list) # 1 => list[2] \in Sessions
      BY <1>1, <1>3
    <3> QED
      BY <3>1, <1>5, <1>6, <1>7
  <2>2. keepAlive = "region"
    BY <1>1 DEF ListInv, KeptAlive
  <2> QED
    BY <2>1, <2>2 DEF KeptAlive, RemoveSession, KeepAliveAfter
<1>12. OnlyFirstRunning'
  BY <1>1, <1>2, <1>3, <1>6 DEF ListInv, OnlyFirstRunning
<1>13. FreshSessions'
  <2>1. \A x \in fresh : x # list[1] /\ \A i \in 1..Len(list') : list'[i] # x
    BY <1>1, <1>2, <1>3 DEF ListInv, FreshSessions
  <2>2. \A x \in fresh : previous'[x] = None
    BY <1>1, <1>3, <1>6 DEF ListInv, TypeOK, FreshSessions
  <2> QED
    BY <2>1, <2>2, <1>6 DEF ListInv, TypeOK, FreshSessions
<1> QED
  BY <1>8, <1>9, <1>10, <1>11, <1>12, <1>13 DEF ListInv

\* A step that changes nothing.
LEMMA StutterList == ListInv /\ UNCHANGED vars => ListInv'
BY DEF ListInv, vars, TypeOK, ForwardLinks, BackwardLinks, KeptAlive,
       OnlyFirstRunning, FreshSessions

\* The list of a region is well-formed in every reachable state.
LEMMA SpecListInv == Spec => []ListInv
<1>1. ListInv /\ [Next]_vars => ListInv'
  BY AddList, PromoteList, RemoveList, StutterList DEF Next
<1> QED
  BY <1>1, InitList, PTL DEF Spec

\* GE_unprotected_add_scoop_session, GE_unprotected_move_scoop_session_to_first
\* and GE_remove_scoop_session keep the types of the fields, and no session is
\* in the list of a region twice.
THEOREM ListTypeOK == Spec => []TypeOK
<1>1. ListInv => TypeOK
  BY DEF ListInv
<1> QED
  BY <1>1, SpecListInv, PTL

\* However sessions are added, promoted and removed, following `next' from
\* first_session to last_session visits the sessions of the queue in order.
THEOREM ListForwardLinks == Spec => []ForwardLinks
<1>1. ListInv => ForwardLinks
  BY DEF ListInv
<1> QED
  BY <1>1, SpecListInv, PTL

\* The `previous' that GE_unprotected_move_scoop_session_to_first leaves stale
\* is repaired before anybody reads it.
THEOREM ListBackwardLinks == Spec => []BackwardLinks
<1>1. ListInv => BackwardLinks
  BY DEF ListInv
<1> QED
  BY <1>1, SpecListInv, PTL

\* The keep_alive cell of a region is set exactly while it has sessions.
THEOREM ListKeptAlive == Spec => []KeptAlive
<1>1. ListInv => KeptAlive
  BY DEF ListInv
<1> QED
  BY <1>1, SpecListInv, PTL
=============================================================================
