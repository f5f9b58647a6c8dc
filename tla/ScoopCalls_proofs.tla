------------------------- MODULE ScoopCalls_proofs -------------------------
(***************************************************************************)
(* The calls of a session, their order, the waits and the exceptions, for  *)
(* every number of clients, sessions and calls.  Checked with TLAPS.       *)
(***************************************************************************)
EXTENDS ScoopCalls, TLAPS

\* The session s is the one of a client at one of the places pcs.
HeldAt(s, pcs) == \E c \in Clients : ses[c] = s /\ cpc[c] \in pcs

\* A client that is in its feature has a session of its own.
SesOK(c) ==
  /\ ses[c] = None <=> cpc[c] \in {"out", "done"}
  /\ ses[c] # None => /\ ses[c] \in 1..opened /\ opener[ses[c]] = c
                      /\ ses[c] \notin freed

\* The queue holds each submitted session at most once, and no freed one; the
\* processor executes the first.
QueueOK ==
  /\ \A i, j \in 1..Len(queue) : queue[i] = queue[j] => i = j
  /\ \A i \in 1..Len(queue) :
       queue[i] \in 1..opened /\ isSubmitted[queue[i]] /\ queue[i] \notin freed
  /\ cur = None <=> ppc = "idle"
  /\ cur # None => queue # << >> /\ cur = queue[1]

\* Sessions to come, sessions of the past and sessions not submitted yet.
SessionsOK ==
  /\ \A s \in Sessions : s > opened => calls[s] = << >> /\ ~isSubmitted[s]
  /\ freed \subseteq 1..opened
  /\ \A s \in freed : calls[s] = << >>
  /\ \A c \in Clients : cpc[c] = "in" /\ ~isSubmitted[ses[c]] => calls[ses[c]] = << >>
  /\ \A c \in Clients : cpc[c] = "submit" => ~isSubmitted[ses[c]]
  /\ \A s \in 1..opened : opener[s] \in Clients

\* is_open: once for the client, and once more while the locks of a synchronous
\* call, or of an impersonation, are passed.
OpensBy(b) == IF b THEN 1 ELSE 0
OpensOK ==
  \A s \in Sessions :
     isOpen[s] = OpensBy(HeldAt(s, ClientPCs)) + OpensBy(HeldAt(s, {"impersonating"}))
                 + OpensBy(cur = s /\ ppc = "run" /\ pcall = "sync")

\* A client waits for s, through a synchronization that is still there.
Awaited(s, pcs) ==
  \E c \in Clients : ses[c] = s /\ cpc[c] \in pcs /\ wait[c] /\ live[c]

\* A synchronous call is the last one of its session and its client waits; or
\* the client went on too early.
CallsOK(s) ==
  s \notin early =>
    \A i \in 1..Len(calls[s]) : Synchronous(calls[s][i]) =>
       i = Len(calls[s]) /\ Awaited(s, {"submit", "wait", "parked", "woken"})

\* So it is when the processor has taken it.
TakenOK ==
  ppc \in {"execute", "run", "signal"} /\ Synchronous(pcall) /\ cur \notin early =>
     calls[cur] = << >> /\ Awaited(cur, {"wait", "parked", "woken"})

\* Where a client is, its session was submitted, its synchronization is there or
\* not, and its flag is set or not.
WaitOK(c) ==
  /\ ses[c] \notin early =>
       /\ cpc[c] \in AfterCall => Quiet(c)
       /\ cpc[c] \in {"wait", "woken"} /\ ~wait[c] => Quiet(c)
  /\ cpc[c] = "submit" => /\ wait[c] = Synchronous(sent[c])
                          /\ live[c] = Synchronous(sent[c])
  /\ cpc[c] \in {"wait", "parked", "woken"} \union AfterCall => isSubmitted[ses[c]]
  /\ cpc[c] = "parked" => wait[c]
  /\ live[c] => cpc[c] \in {"submit", "wait", "parked", "woken"}

\* The flags of the region tell about the session the processor executes.
DirtyOK ==
  /\ isDirty => cur # None
  /\ early = {} => \A s \in Sessions : failed[s] <=> isDirty /\ s = cur
  /\ ppc \in {"run", "remove"} => ~isDirty
  /\ ppc = "remove" => calls[cur] = << >> /\ isOpen[cur] = 0

PropagateOK ==
  /\ propagate => /\ cur # None /\ HeldAt(cur, {"wait", "parked", "woken", "check"})
                  /\ \/ ppc = "signal" /\ Synchronous(pcall)
                     \/ ppc \in {"session", "parked"} /\ calls[cur] = << >>
  /\ early = {} => \A c \in Clients : raised[c] <=> propagate /\ ses[c] = cur

\* Nothing else leads to undefined behaviour.
EarlyOK == undefined => early # {}

\* The inductive invariant.
Inv == /\ TypeOK /\ QueueOK /\ SessionsOK /\ OpensOK /\ TakenOK /\ DirtyOK
       /\ PropagateOK /\ EarlyOK
       /\ \A c \in Clients : SesOK(c) /\ WaitOK(c)
       /\ \A s \in Sessions : CallsOK(s)

\* No session is the one of two clients.
LEMMA OneHolder ==
  ASSUME Inv, NEW c \in Clients, NEW u \in Clients, ses[c] = ses[u], ses[c] # None
  PROVE  c = u
BY DEF Inv, SesOK

\* Where the client of a session is.
LEMMA HeldIs ==
  ASSUME Inv, NEW c \in Clients, NEW s, ses[c] = s, s # None, NEW P
  PROVE  /\ HeldAt(s, P) <=> cpc[c] \in P
         /\ Awaited(s, P) <=> cpc[c] \in P /\ wait[c] /\ live[c]
BY OneHolder DEF HeldAt, Awaited

\* The same after a step that keeps the sessions of the clients.
LEMMA HeldNext ==
  ASSUME Inv, ses' = ses, NEW c \in Clients, NEW s, ses[c] = s, s # None, NEW P
  PROVE  /\ HeldAt(s, P)' <=> cpc'[c] \in P
         /\ Awaited(s, P)' <=> cpc'[c] \in P /\ wait'[c] /\ live'[c]
BY OneHolder DEF HeldAt, Awaited

\* A step of one client leaves the sessions of the others alone.
LEMMA HeldKept ==
  ASSUME NEW c \in Clients, NEW s, s # ses[c], s # ses'[c],
         \A u \in Clients \ {c} : ses'[u] = ses[u] /\ cpc'[u] = cpc[u]
                                  /\ wait'[u] = wait[u] /\ live'[u] = live[u],
         NEW P
  PROVE  /\ HeldAt(s, P)' <=> HeldAt(s, P)
         /\ Awaited(s, P)' <=> Awaited(s, P)
BY DEF HeldAt, Awaited

\* What the invariant says of pointers.
LEMMA Pointers ==
  ASSUME Inv
  PROVE  /\ 1..opened \subseteq Sessions /\ opened \in Nat
         /\ \A c \in Clients : cpc[c] \notin {"out", "done"} =>
              /\ ses[c] # None /\ ses[c] \in 1..opened /\ ses[c] \in Sessions
              /\ opener[ses[c]] = c /\ ses[c] \notin freed
         /\ cur # None => /\ cur \in 1..opened /\ cur \in Sessions /\ isSubmitted[cur]
                          /\ cur \notin freed /\ queue # << >> /\ cur = queue[1]
         /\ queue \in Seq(Sessions)
         /\ \A u \in Clients : ses[u] # None => ses[u] \in 1..opened /\ ses[u] \notin freed
<1> USE NoneAssumption, BoundsAssumption
<1>1. 1..opened \subseteq Sessions /\ opened \in Nat
  BY DEF Inv, TypeOK, Sessions
<1>2. \A c \in Clients : cpc[c] \notin {"out", "done"} =>
         /\ ses[c] # None /\ ses[c] \in 1..opened /\ ses[c] \in Sessions
         /\ opener[ses[c]] = c /\ ses[c] \notin freed
  BY <1>1 DEF Inv, SesOK
<1>3. cur # None => /\ cur \in 1..opened /\ cur \in Sessions /\ isSubmitted[cur]
                    /\ cur \notin freed /\ queue # << >> /\ cur = queue[1]
  <2> SUFFICES ASSUME cur # None
               PROVE  /\ cur \in 1..opened /\ cur \in Sessions /\ isSubmitted[cur]
                      /\ cur \notin freed /\ queue # << >> /\ cur = queue[1]
    OBVIOUS
  <2>1. queue # << >> /\ cur = queue[1] /\ queue \in Seq(Sessions)
    BY DEF Inv, QueueOK, TypeOK
  <2>2. 1 \in 1..Len(queue)
    BY <2>1
  <2> QED
    BY <2>1, <2>2, <1>1 DEF Inv, QueueOK
<1> QED
  BY <1>1, <1>2, <1>3 DEF Inv, TypeOK, SesOK

\* The client that waits for the synchronous call the processor executes.
LEMMA CallerIs ==
  ASSUME Inv, cur # None, CallerWaits
  PROVE  \E c \in Clients : /\ c = opener[cur] /\ ses[c] = cur /\ calls[cur] = << >>
                            /\ cpc[c] \in {"wait", "parked", "woken"}
<1>1. opener[cur] \in Clients /\ isSubmitted[cur]
  BY Pointers DEF Inv, SessionsOK
<1>2. ses[opener[cur]] = cur /\ calls[cur] = << >> /\ live[opener[cur]]
  BY DEF CallerWaits
<1>3. cpc[opener[cur]] \in {"submit", "wait", "parked", "woken"}
  BY <1>1, <1>2 DEF Inv, WaitOK
<1>4. cpc[opener[cur]] # "submit"
  BY <1>1, <1>2 DEF Inv, SessionsOK
<1> QED
  BY <1>1, <1>2, <1>3, <1>4

\* There is one unless the client went on too early.
LEMMA CallerThere ==
  ASSUME Inv, ppc \in {"execute", "run", "signal"}, Synchronous(pcall), cur \notin early
  PROVE  CallerWaits /\ wait[opener[cur]]
<1>1. PICK c \in Clients : ses[c] = cur /\ wait[c] /\ live[c]
  BY DEF Inv, TakenOK, Awaited
<1>2. cur # None
  BY DEF Inv, QueueOK
<1>3. opener[cur] = c
  BY <1>1, <1>2 DEF Inv, SesOK
<1> QED
  BY <1>1, <1>3 DEF Inv, TakenOK, CallerWaits

\* A step of the client c that only moves it on, between places where its
\* session is not impersonated.
LEMMA ClientMoves ==
  ASSUME Inv, NEW c \in Clients,
         UNCHANGED <<sessionVars, processorVars, isImpersonationAllowed, ses, sent, wait,
                     failed, raised, undefined>>,
         cpc' \in [Clients -> ClientPCs], live' \in [Clients -> BOOLEAN],
         \A u \in Clients \ {c} : cpc'[u] = cpc[u] /\ live'[u] = live[u],
         \/ /\ cpc[c] = "out" /\ cpc'[c] = "done" /\ live'[c] = live[c]
         \/ /\ cpc[c] = "wait" /\ cpc'[c] = "parked" /\ live'[c] = live[c]
         \/ /\ cpc[c] = "parked" /\ cpc'[c] = "woken" /\ live'[c] = live[c]
         \/ /\ cpc[c] = "wait" /\ ~wait[c] /\ cpc'[c] = "check" /\ ~live'[c]
         \/ /\ cpc[c] = "woken" /\ cpc'[c] = "check" /\ ~live'[c],
         cpc[c] = "wait" /\ cpc'[c] = "parked" => wait[c],
         early' = IF cpc[c] = "woken" /\ wait[c] THEN early \union {ses[c]} ELSE early
  PROVE  Inv'
<1> USE NoneAssumption, BoundsAssumption DEF sessionVars, processorVars
<1>1. TypeOK'
  <2>1. early' \subseteq Sessions
    <3>1. cpc[c] = "woken" => ses[c] \in Sessions
      BY Pointers
    <3> QED
      BY <3>1 DEF Inv, TypeOK
  <2> QED
    BY <2>1 DEF Inv, TypeOK
<1>2. \A u \in Clients : SesOK(u)'
  BY DEF Inv, SesOK
<1>3. QueueOK' /\ SessionsOK'
  <2>1. QueueOK'
    BY DEF Inv, QueueOK
  <2>2. SessionsOK'
    BY DEF Inv, SessionsOK
  <2> QED
    BY <2>1, <2>2
<1>h. ASSUME NEW s \in Sessions
      PROVE  /\ HeldAt(s, ClientPCs)' <=> HeldAt(s, ClientPCs)
             /\ HeldAt(s, {"impersonating"})' <=> HeldAt(s, {"impersonating"})
             /\ Awaited(s, {"submit", "wait", "parked", "woken"})
                  => Awaited(s, {"submit", "wait", "parked", "woken"})' \/ s \in early'
             /\ Awaited(s, {"wait", "parked", "woken"}) =>
                  Awaited(s, {"wait", "parked", "woken"})' \/ s \in early'
             /\ HeldAt(s, {"wait", "parked", "woken", "check"}) =>
                  HeldAt(s, {"wait", "parked", "woken", "check"})'
  <2>1. CASE s = ses[c]
    <3>1. s # None /\ ses[c] = s
      BY <2>1 DEF Sessions
    <3>2. cpc[c] # "out"
      BY <3>1 DEF Inv, SesOK
    <3>3. /\ HeldAt(s, ClientPCs) /\ HeldAt(s, ClientPCs)'
          /\ ~HeldAt(s, {"impersonating"}) /\ ~HeldAt(s, {"impersonating"})'
          /\ HeldAt(s, {"wait", "parked", "woken", "check"})'
      <4>1. cpc[c] \in ClientPCs /\ cpc'[c] \in ClientPCs
        BY DEF Inv, TypeOK
      <4> QED
        BY <4>1, <3>1, <3>2, HeldIs, HeldNext
    <3>4. Awaited(s, {"submit", "wait", "parked", "woken"}) =>
            Awaited(s, {"submit", "wait", "parked", "woken"})' \/ s \in early'
      <4>1. Awaited(s, {"submit", "wait", "parked", "woken"}) =>
              wait[c] /\ live[c] /\ cpc[c] \in {"wait", "parked", "woken"}
        BY <3>1, <3>2, HeldIs
      <4>2. cpc'[c] \in {"parked", "woken"} /\ wait[c] /\ live'[c] =>
              Awaited(s, {"submit", "wait", "parked", "woken"})'
        BY <3>1, HeldNext
      <4> QED
        BY <4>1, <4>2, <3>1
    <3>5. Awaited(s, {"wait", "parked", "woken"}) =>
            Awaited(s, {"wait", "parked", "woken"})' \/ s \in early'
      <4>1. Awaited(s, {"wait", "parked", "woken"}) =>
              wait[c] /\ live[c] /\ cpc[c] \in {"wait", "parked", "woken"}
        BY <3>1, <3>2, HeldIs
      <4>2. cpc'[c] \in {"parked", "woken"} /\ wait[c] /\ live'[c] =>
              Awaited(s, {"wait", "parked", "woken"})'
        BY <3>1, HeldNext
      <4> QED
        BY <4>1, <4>2, <3>1
    <3> QED
      BY <3>3, <3>4, <3>5
  <2>2. CASE s # ses[c]
    BY <2>2, HeldKept
  <2> QED
    BY <2>1, <2>2
<1>g. early \subseteq early'
  OBVIOUS
<1>4. OpensOK'
  BY <1>h DEF Inv, OpensOK, OpensBy
<1>5. TakenOK'
  BY <1>h, <1>g, Pointers DEF Inv, TakenOK, QueueOK
<1>6. DirtyOK'
  BY <1>g DEF Inv, DirtyOK
<1>7. PropagateOK'
  BY <1>h, <1>g, Pointers DEF Inv, PropagateOK
<1>8. ASSUME NEW u \in Clients PROVE WaitOK(u)'
  <2>1. CASE u = c
    BY <2>1, Pointers DEF Inv, WaitOK, Quiet, AfterCall
  <2>2. CASE u # c
    BY <2>2, <1>g DEF Inv, WaitOK, Quiet, AfterCall
  <2> QED
    BY <2>1, <2>2
<1>9. ASSUME NEW s \in Sessions PROVE CallsOK(s)'
  BY <1>h, <1>g DEF Inv, CallsOK
<1> QED
  BY <1>1, <1>2, <1>3, <1>4, <1>5, <1>6, <1>7, <1>8, <1>9, <1>g DEF Inv, EarlyOK

\* The client c opens a session.
LEMMA OpenSessionInv ==
  ASSUME Inv, NEW c \in Clients, OpenSession(c), UNCHANGED <<isImpersonationAllowed, early, undefined>>
  PROVE  Inv'
<1> USE NoneAssumption, BoundsAssumption DEF processorVars
<1>p. PICK n : n = opened + 1
  OBVIOUS
<1>0. UNCHANGED <<freed, isSubmitted, calls, logged, processorVars, sent, wait,
                  live, failed, raised, isImpersonationAllowed, early, undefined>>
  BY DEF OpenSession
<1>n. /\ n \in Sessions /\ opened' = n /\ n # None /\ n \notin 1..opened
      /\ 1..opened \subseteq 1..n /\ n \in 1..n /\ cpc[c] = "out" /\ opened \in Nat
      /\ \A s \in Sessions : s > n => s > opened
  BY <1>p DEF OpenSession, Inv, TypeOK, Sessions
<1>u. /\ opener' \in [Sessions -> Clients \union {None}] /\ opener'[n] = c
      /\ \A s \in Sessions \ {n} : opener'[s] = opener[s] /\ isOpen'[s] = isOpen[s]
      /\ isOpen' \in [Sessions -> 0..3] /\ isOpen'[n] = 1
      /\ ses' \in [Clients -> Sessions \union {None}] /\ ses'[c] = n
      /\ cpc' \in [Clients -> ClientPCs] /\ cpc'[c] = "in"
      /\ \A u \in Clients \ {c} : ses'[u] = ses[u] /\ cpc'[u] = cpc[u]
  BY <1>p, <1>n DEF OpenSession, Inv, TypeOK, ClientPCs
<1>o. /\ \A u \in Clients : ses[u] # n /\ ses[c] = None
      /\ cur # n /\ n \notin freed /\ calls[n] = << >> /\ ~isSubmitted[n]
      /\ n > opened
  <2>1. \A u \in Clients : ses[u] # n /\ ses[c] = None
    BY <1>n DEF Inv, SesOK
  <2>2. cur # n
    BY <1>n, Pointers
  <2> QED
    BY <2>1, <2>2, <1>p, <1>n DEF Inv, SessionsOK
<1>1. TypeOK'
  <2>1. opened' \in 0..MaxSessions
    BY <1>n DEF Sessions
  <2> QED
    BY <2>1, <1>0, <1>u DEF Inv, TypeOK
<1>2. ASSUME NEW u \in Clients PROVE SesOK(u)'
  <2>1. CASE u = c
    BY <2>1, <1>0, <1>n, <1>u, <1>o DEF SesOK
  <2>2. CASE u # c
    <3>1. ses[u] # None => ses[u] \in Sessions \ {n}
      BY <1>o, Pointers
    <3> QED
      BY <2>2, <3>1, <1>0, <1>n, <1>u DEF Inv, SesOK
  <2> QED
    BY <2>1, <2>2
<1>3. QueueOK'
  BY <1>0, <1>n DEF Inv, QueueOK
<1>4. SessionsOK'
  <2>1. \A u \in Clients \ {c} : ses'[u] = ses[u] /\ cpc'[u] = cpc[u]
    BY <1>u
  <2>2. \A s \in 1..opened' : opener'[s] \in Clients
    <3> SUFFICES ASSUME NEW s \in 1..n PROVE opener'[s] \in Clients
      BY <1>n
    <3>1. CASE s = n
      BY <3>1, <1>u
    <3>2. CASE s # n
      <4>1. s \in 1..opened /\ s \in Sessions \ {n}
        BY <3>2, <1>p, <1>n DEF Sessions
      <4> QED
        BY <4>1, <1>u DEF Inv, SessionsOK
    <3> QED
      BY <3>1, <3>2
  <2>3. /\ \A s \in Sessions : s > opened' => calls'[s] = << >> /\ ~isSubmitted'[s]
        /\ freed' \subseteq 1..opened' /\ \A s \in freed' : calls'[s] = << >>
    BY <1>0, <1>n DEF Inv, SessionsOK
  <2> QED
    BY <2>1, <2>2, <2>3, <1>0, <1>n, <1>u, <1>o DEF Inv, SessionsOK
<1>h. /\ \A s, P : s # n /\ s # None => (HeldAt(s, P)' <=> HeldAt(s, P))
      /\ \A s, P : s # n /\ s # None => (Awaited(s, P)' <=> Awaited(s, P))
      /\ \A P : ~HeldAt(n, P)
      /\ \A P : HeldAt(n, P)' <=> "in" \in P
  <2>1. \A u \in Clients : ses'[u] = n => u = c
    BY <1>u, <1>o
  <2>2. ASSUME NEW s, s # n, s # None, NEW P
        PROVE  (HeldAt(s, P)' <=> HeldAt(s, P)) /\ (Awaited(s, P)' <=> Awaited(s, P))
    BY <2>2, <1>0, <1>u, <1>o DEF HeldAt, Awaited
  <2>3. \A P : ~HeldAt(n, P)
    BY <1>o DEF HeldAt
  <2>4. ASSUME NEW P PROVE HeldAt(n, P)' <=> "in" \in P
    BY <2>1, <1>u DEF HeldAt
  <2> QED
    BY <2>2, <2>3, <2>4
<1>5. OpensOK'
  <2> SUFFICES ASSUME NEW s \in Sessions
               PROVE  isOpen'[s] = OpensBy(HeldAt(s, ClientPCs)')
                                   + OpensBy(HeldAt(s, {"impersonating"})')
                                   + OpensBy(cur' = s /\ ppc' = "run" /\ pcall' = "sync")
    BY DEF OpensOK, OpensBy
  <2>1. CASE s = n
    <3>1. "in" \in ClientPCs
      BY DEF ClientPCs
    <3> QED
      BY <2>1, <3>1, <1>h, <1>u, <1>0, <1>o DEF OpensBy
  <2>2. CASE s # n
    <3>1. s # None
      BY DEF Sessions
    <3>2. /\ HeldAt(s, ClientPCs)' <=> HeldAt(s, ClientPCs)
          /\ HeldAt(s, {"impersonating"})' <=> HeldAt(s, {"impersonating"})
      BY <2>2, <3>1, <1>h
    <3> QED
      BY <2>2, <3>2, <1>u, <1>0 DEF Inv, OpensOK, OpensBy
  <2> QED
    BY <2>1, <2>2
<1>6. TakenOK'
  <2>1. ppc \in {"execute", "run", "signal"} => cur # None
    BY DEF Inv, QueueOK
  <2>2. cur # None => (Awaited(cur, {"wait", "parked", "woken"})' <=> Awaited(cur, {"wait", "parked", "woken"}))
    <3>1. ASSUME cur # None PROVE Awaited(cur, {"wait", "parked", "woken"})' <=> Awaited(cur, {"wait", "parked", "woken"})
      BY <3>1, <1>0, <1>u, <1>o DEF Awaited
    <3> QED
      BY <3>1
  <2> QED
    BY <2>1, <2>2, <1>0 DEF Inv, TakenOK
<1>7. DirtyOK'
  <2>1. cur # None => isOpen'[cur] = isOpen[cur]
    BY <1>u, <1>o, Pointers
  <2>2. ppc = "remove" => cur # None
    BY DEF Inv, QueueOK
  <2> QED
    BY <2>1, <2>2, <1>0 DEF Inv, DirtyOK
<1>8. PropagateOK'
  <2>1. ASSUME cur # None
        PROVE  HeldAt(cur, {"wait", "parked", "woken", "check"})' <=>
               HeldAt(cur, {"wait", "parked", "woken", "check"})
    BY <2>1, <1>0, <1>u, <1>o DEF HeldAt
  <2>2. \A u \in Clients : cur # None => (ses'[u] = cur <=> ses[u] = cur)
    BY <1>u, <1>o
  <2>3. propagate => cur # None
    BY DEF Inv, PropagateOK
  <2>4. propagate' <=> propagate
    BY <1>0
  <2>5. /\ propagate' => /\ cur' # None /\ HeldAt(cur, {"wait", "parked", "woken", "check"})'
                         /\ \/ ppc' = "signal" /\ Synchronous(pcall')
                            \/ ppc' \in {"session", "parked"} /\ calls'[cur'] = << >>
    BY <2>1, <2>3, <1>0 DEF Inv, PropagateOK, Synchronous
  <2>6. early' = {} => \A u \in Clients : raised'[u] <=> propagate' /\ ses'[u] = cur'
    BY <2>2, <2>3, <1>0 DEF Inv, PropagateOK
  <2> QED
    BY <2>5, <2>6, <1>0 DEF PropagateOK, Synchronous
<1>9. ASSUME NEW u \in Clients PROVE WaitOK(u)'
  <2>1. CASE u = c
    <3>1. ~live[c]
      BY <1>n DEF Inv, WaitOK
    <3> QED
      BY <2>1, <3>1, <1>0, <1>u DEF WaitOK, AfterCall
  <2>2. CASE u # c
    BY <2>2, <1>0, <1>u DEF Inv, WaitOK, Quiet
  <2> QED
    BY <2>1, <2>2
<1>10. ASSUME NEW s \in Sessions PROVE CallsOK(s)'
  <2>1. CASE s = n
    <3>1. calls'[s] = << >> /\ Len(<< >>) = 0
      BY <2>1, <1>0, <1>o
    <3> QED
      BY <3>1 DEF CallsOK
  <2>2. CASE s # n
    <3>1. s # None
      BY DEF Sessions
    <3> QED
      BY <2>2, <3>1, <1>0, <1>h DEF Inv, CallsOK
  <2> QED
    BY <2>1, <2>2
<1> QED
  BY <1>1, <1>2, <1>3, <1>4, <1>5, <1>6, <1>7, <1>8, <1>9, <1>10 DEF Inv, EarlyOK

\* The client c logs a call of the kind k: it is the last one, and the only
\* synchronous one.
LEMMA AddCallInv ==
  ASSUME Inv, NEW c \in Clients, cpc[c] \in {"in", "body"}, NEW k \in Kinds,
         AddCall(c, k), UNCHANGED <<isImpersonationAllowed, early, undefined>>
  PROVE  Inv'
<1> USE NoneAssumption, BoundsAssumption
<1>e. PICK s : s = ses[c]
  OBVIOUS
<1>0. UNCHANGED <<opened, freed, opener, isOpen, isSubmitted, queue, isDirty,
                  propagate, cur, pcall, ses, failed, raised, isImpersonationAllowed,
                  early, undefined>>
  BY DEF AddCall
<1>s. s \in Sessions /\ s # None /\ s \in 1..opened /\ s \notin freed /\ ses[c] = s
  BY <1>e, Pointers
<1>u. /\ cpc' \in [Clients -> ClientPCs] /\ sent' \in [Clients -> Kinds \union {None}]
      /\ cpc'[c] = IF ~isSubmitted[s] THEN "submit"
                   ELSE IF Synchronous(k) THEN "wait" ELSE "in"
      /\ sent'[c] = k /\ wait'[c] = Synchronous(k) /\ live'[c] = Synchronous(k)
      /\ \A u \in Clients \ {c} : /\ cpc'[u] = cpc[u] /\ sent'[u] = sent[u]
                                  /\ wait'[u] = wait[u] /\ live'[u] = live[u]
      /\ logged' \in [Sessions -> Nat]
  BY <1>s DEF AddCall, Inv, TypeOK, ClientPCs
<1>b. wait' \in [Clients -> BOOLEAN] /\ live' \in [Clients -> BOOLEAN]
  BY DEF AddCall, Inv, TypeOK, Synchronous
<1>c. /\ calls' \in [Sessions -> Seq(Kinds)] /\ calls'[s] = Append(calls[s], k)
      /\ \A x \in Sessions \ {s} : calls'[x] = calls[x]
      /\ calls[s] \in Seq(Kinds)
  BY <1>s DEF AddCall, Inv, TypeOK
<1>l. /\ Len(calls'[s]) = Len(calls[s]) + 1 /\ calls'[s][Len(calls'[s])] = k
      /\ \A i \in 1..Len(calls[s]) : calls'[s][i] = calls[s][i]
      /\ Len(calls[s]) \in Nat
  BY <1>c
<1>p. /\ ppc' = ppc \/ (ppc = "parked" /\ ppc' = "session" /\ cur = s)
      /\ ppc' \in ProcessorPCs
  BY <1>s DEF AddCall, WakeProcessor, Inv, TypeOK, ProcessorPCs
<1>a. s \notin early => \A i \in 1..Len(calls[s]) : ~Synchronous(calls[s][i])
  <2>1. ~Awaited(s, {"submit", "wait", "parked", "woken"})
    BY <1>s, HeldIs
  <2> QED
    BY <2>1, <1>s DEF Inv, CallsOK
<1>q. /\ cur = s /\ s \notin early =>
           ~(ppc \in {"execute", "run", "signal"} /\ Synchronous(pcall))
      /\ cur = s => ~propagate
      /\ cpc[c] = "body" => isSubmitted[s]
      /\ cur = s => ppc # "remove"
  <2>1. ~Awaited(s, {"wait", "parked", "woken"}) /\ ~HeldAt(s, {"wait", "parked", "woken", "check"})
    BY <1>s, HeldIs
  <2>2. cpc[c] = "body" => isSubmitted[s]
    BY <1>s DEF Inv, WaitOK, AfterCall
  <2>3. cur = s => ppc # "remove"
    <3>1. HeldAt(s, ClientPCs)
      BY <1>s, HeldIs DEF Inv, TypeOK
    <3>2. isOpen[s] # 0
      BY <1>s, <3>1 DEF Inv, OpensOK, OpensBy
    <3> QED
      BY <3>2 DEF Inv, DirtyOK
  <2> QED
    BY <2>1, <2>2, <2>3 DEF Inv, TakenOK, PropagateOK
<1>1. TypeOK'
  BY <1>0, <1>u, <1>b, <1>c, <1>p DEF Inv, TypeOK
<1>2. ASSUME NEW u \in Clients PROVE SesOK(u)'
  BY <1>0, <1>u DEF Inv, SesOK
<1>3. QueueOK'
  BY <1>0, <1>p DEF Inv, QueueOK
<1>4. SessionsOK'
  <2>1. \A x \in Sessions : x > opened => x # s
    BY <1>s, Pointers DEF Sessions
  <2>2. \A x \in freed : x # s /\ x \in Sessions
    BY <1>s DEF Inv, TypeOK
  <2>3. ASSUME NEW u \in Clients, cpc'[u] = "in", ~isSubmitted[ses[u]] PROVE calls'[ses[u]] = << >>
    <3>1. u # c /\ cpc[u] = "in"
      BY <2>3, <1>u, <1>s
    <3>2. ses[u] # s /\ ses[u] \in Sessions
      BY <3>1, <1>s, OneHolder, Pointers
    <3> QED
      BY <2>3, <3>1, <3>2, <1>c DEF Inv, SessionsOK
  <2>4. ASSUME NEW u \in Clients, cpc'[u] = "submit" PROVE ~isSubmitted[ses[u]]
    BY <2>4, <1>u, <1>s DEF Inv, SessionsOK
  <2> QED
    BY <2>1, <2>2, <2>3, <2>4, <1>0, <1>c DEF Inv, SessionsOK
<1>h. ASSUME NEW x \in Sessions
      PROVE  /\ HeldAt(x, ClientPCs)' <=> HeldAt(x, ClientPCs)
             /\ HeldAt(x, {"impersonating"})' <=> HeldAt(x, {"impersonating"})
             /\ x # s => /\ Awaited(x, {"submit", "wait", "parked", "woken"})' <=> Awaited(x, {"submit", "wait", "parked", "woken"})
                         /\ Awaited(x, {"wait", "parked", "woken"})' <=> Awaited(x, {"wait", "parked", "woken"})
                         /\ HeldAt(x, {"wait", "parked", "woken", "check"})' <=>
                            HeldAt(x, {"wait", "parked", "woken", "check"})
  <2>1. CASE x = s
    <3>1. cpc[c] \in ClientPCs /\ cpc'[c] \in ClientPCs
      BY <1>u DEF Inv, TypeOK
    <3>2. cpc'[c] # "impersonating"
      BY <1>u
    <3> QED
      BY <2>1, <3>1, <3>2, <1>s, <1>0, HeldIs, HeldNext
  <2>2. CASE x # s
    BY <2>2, <1>s, <1>u, <1>0, HeldKept
  <2> QED
    BY <2>1, <2>2
<1>5. OpensOK'
  <2>1. ppc = "run" <=> ppc' = "run"
    BY <1>p
  <2> QED
    BY <2>1, <1>h, <1>0 DEF Inv, OpensOK, OpensBy
<1>6. TakenOK'
  <2> SUFFICES ASSUME ppc' \in {"execute", "run", "signal"}, Synchronous(pcall'),
                      cur \notin early
               PROVE  calls'[cur'] = << >> /\ Awaited(cur, {"wait", "parked", "woken"})'
    BY <1>0 DEF TakenOK
  <2>1. ppc \in {"execute", "run", "signal"} /\ Synchronous(pcall) /\ cur # s /\ cur \in Sessions
    BY <1>p, <1>q, <1>0, Pointers DEF Inv, QueueOK, Synchronous
  <2>2. calls[cur] = << >> /\ Awaited(cur, {"wait", "parked", "woken"})
    BY <2>1 DEF Inv, TakenOK
  <2>3. Awaited(cur, {"wait", "parked", "woken"})'
    BY <2>1, <2>2, <1>0, <1>h DEF Awaited
  <2> QED
    BY <2>1, <2>2, <2>3, <1>0, <1>c
<1>7. DirtyOK'
  <2>1. ppc' = "remove" => calls'[cur] = calls[cur]
    BY <1>p, <1>q, <1>c, Pointers DEF Inv, QueueOK
  <2> QED
    BY <2>1, <1>0, <1>p DEF Inv, DirtyOK
<1>8. PropagateOK'
  <2> SUFFICES ASSUME propagate
               PROVE  /\ HeldAt(cur, {"wait", "parked", "woken", "check"})'
                      /\ \/ ppc' = "signal" /\ Synchronous(pcall)
                         \/ ppc' \in {"session", "parked"} /\ calls'[cur] = << >>
    BY <1>0 DEF Inv, PropagateOK, Synchronous
  <2>1. cur # s /\ cur \in Sessions
    BY <1>q, Pointers DEF Inv, PropagateOK
  <2>2. HeldAt(cur, {"wait", "parked", "woken", "check"})'
    BY <2>1, <1>0, <1>h DEF Inv, PropagateOK, HeldAt
  <2> QED
    BY <2>1, <2>2, <1>c, <1>p DEF Inv, PropagateOK
<1>9. ASSUME NEW u \in Clients PROVE WaitOK(u)'
  <2>1. CASE u = c
    BY <2>1, <1>u, <1>s, <1>0 DEF WaitOK, AfterCall, Synchronous
  <2>2. CASE u # c
    <3>1. ses[u] # None => ses[u] # s /\ ses[u] \in Sessions
      BY <2>2, <1>s, OneHolder, Pointers
    <3>2. cpc[u] \notin {"out", "done"} => calls'[ses[u]] = calls[ses[u]]
      BY <3>1, <1>c, Pointers
    <3>3. ppc \in {"session", "parked"} => ppc' \in {"session", "parked"}
      BY <1>p
    <3>4. cpc[u] \notin {"out", "done"} /\ Quiet(u) => Quiet(u)'
      BY <3>2, <3>3, <1>0 DEF Quiet
    <3> QED
      BY <2>2, <3>4, <1>0, <1>u DEF Inv, WaitOK, AfterCall, Synchronous
  <2> QED
    BY <2>1, <2>2
<1>10. ASSUME NEW x \in Sessions PROVE CallsOK(x)'
  <2>1. CASE x = s
    <3> SUFFICES ASSUME NEW i \in 1..Len(calls'[s]), Synchronous(calls'[s][i]),
                        s \notin early
                 PROVE  i = Len(calls'[s]) /\ Awaited(s, {"submit", "wait", "parked", "woken"})'
      BY <2>1, <1>0 DEF CallsOK, Synchronous
    <3>1. i = Len(calls'[s])
      BY <1>l, <1>a DEF Synchronous
    <3>2. Synchronous(k)
      BY <3>1, <1>l
    <3>3. cpc'[c] \in {"submit", "wait", "parked", "woken"} /\ wait'[c] /\ live'[c]
      BY <3>2, <1>u
    <3> QED
      BY <3>1, <3>3, <1>s, <1>0, HeldNext
  <2>2. CASE x # s
    BY <2>2, <1>h, <1>c, <1>0 DEF Inv, CallsOK
  <2> QED
    BY <2>1, <2>2
<1> QED
  BY <1>1, <1>2, <1>3, <1>4, <1>5, <1>6, <1>7, <1>8, <1>9, <1>10 DEF Inv, EarlyOK

\* The session of the client c is queued.
LEMMA SubmitSessionInv ==
  ASSUME Inv, NEW c \in Clients, SubmitSession(c), UNCHANGED <<isImpersonationAllowed, early, undefined>>
  PROVE  Inv'
<1> USE NoneAssumption, BoundsAssumption
<1>e. PICK s : s = ses[c]
  OBVIOUS
<1>0. UNCHANGED <<opened, freed, opener, isOpen, calls, logged, isDirty, propagate,
                  ppc, cur, pcall, ses, sent, wait, live, failed, raised,
                  isImpersonationAllowed, early, undefined>>
  BY DEF SubmitSession
<1>s. /\ s \in Sessions /\ s # None /\ s \in 1..opened /\ s \notin freed /\ ses[c] = s
      /\ cpc[c] = "submit" /\ ~isSubmitted[s] /\ cur # s
      /\ wait[c] = Synchronous(sent[c]) /\ live[c] = Synchronous(sent[c])
  <2>1. cpc[c] = "submit" /\ s \in Sessions /\ s # None /\ s \in 1..opened /\ s \notin freed
    BY <1>e, Pointers DEF SubmitSession
  <2>2. ~isSubmitted[s]
    BY <2>1, <1>e DEF Inv, SessionsOK
  <2> QED
    BY <2>1, <2>2, <1>e, Pointers DEF Inv, WaitOK
<1>u. /\ cpc' \in [Clients -> ClientPCs]
      /\ cpc'[c] = IF Synchronous(sent[c]) THEN "wait" ELSE "in"
      /\ \A u \in Clients \ {c} : cpc'[u] = cpc[u]
      /\ isSubmitted' \in [Sessions -> BOOLEAN] /\ isSubmitted'[s]
      /\ \A x \in Sessions \ {s} : isSubmitted'[x] = isSubmitted[x]
  BY <1>s DEF SubmitSession, Inv, TypeOK, ClientPCs
<1>q. /\ queue' \in Seq(Sessions) /\ Len(queue') = Len(queue) + 1 /\ queue'[Len(queue')] = s
      /\ \A i \in 1..Len(queue) : queue'[i] = queue[i]
      /\ Len(queue) \in Nat /\ queue' # << >>
      /\ queue # << >> => queue'[1] = queue[1]
      /\ \A i \in 1..Len(queue) : queue[i] # s
  <2>1. queue' = Append(queue, s) /\ queue \in Seq(Sessions) /\ s \in Sessions
    BY <1>s DEF SubmitSession, Inv, TypeOK
  <2>2. \A i \in 1..Len(queue) : queue[i] # s
    BY <1>s DEF Inv, QueueOK
  <2>3. /\ queue' \in Seq(Sessions) /\ Len(queue') = Len(queue) + 1 /\ queue'[Len(queue')] = s
        /\ \A i \in 1..Len(queue) : queue'[i] = queue[i]
        /\ Len(queue) \in Nat
    BY <2>1
  <2> QED
    BY <2>1, <2>2, <2>3
<1>1. TypeOK'
  BY <1>0, <1>u, <1>q DEF Inv, TypeOK
<1>2. ASSUME NEW u \in Clients PROVE SesOK(u)'
  BY <1>0, <1>u, <1>s DEF Inv, SesOK
<1>3. QueueOK'
  <2>1. \A i, j \in 1..Len(queue') : queue'[i] = queue'[j] => i = j
    BY <1>q DEF Inv, QueueOK
  <2>2. ASSUME NEW i \in 1..Len(queue')
        PROVE  queue'[i] \in 1..opened /\ isSubmitted'[queue'[i]] /\ queue'[i] \notin freed
    <3>1. CASE i = Len(queue')
      BY <3>1, <1>q, <1>s, <1>u
    <3>2. CASE i \in 1..Len(queue)
      <4>1. queue'[i] = queue[i] /\ queue[i] \in Sessions
        BY <3>2, <1>q, Pointers DEF Inv, QueueOK
      <4> QED
        BY <3>2, <4>1, <1>u DEF Inv, QueueOK
    <3> QED
      BY <3>1, <3>2, <1>q
  <2>3. cur # None => queue' # << >> /\ cur = queue'[1]
    BY <1>q, Pointers
  <2> QED
    BY <2>1, <2>2, <2>3, <1>0 DEF Inv, QueueOK
<1>4. SessionsOK'
  <2>1. \A x \in Sessions : x > opened => x # s
    BY <1>s, Pointers DEF Sessions
  <2>2. ASSUME NEW u \in Clients, cpc'[u] = "in", ~isSubmitted'[ses[u]]
        PROVE  calls[ses[u]] = << >>
    <3>1. u # c /\ cpc[u] = "in" /\ ses[u] \in Sessions
      BY <2>2, <1>u, <1>s, Pointers
    <3>2. ~isSubmitted[ses[u]]
      BY <2>2, <3>1, <1>u
    <3> QED
      BY <3>1, <3>2 DEF Inv, SessionsOK
  <2>3. ASSUME NEW u \in Clients, cpc'[u] = "submit" PROVE ~isSubmitted'[ses[u]]
    <3>1. u # c /\ cpc[u] = "submit"
      BY <2>3, <1>u
    <3>2. ses[u] # s /\ ses[u] \in Sessions
      BY <3>1, <1>s, Pointers, OneHolder
    <3> QED
      BY <3>1, <3>2, <1>u DEF Inv, SessionsOK
  <2> QED
    BY <2>1, <2>2, <2>3, <1>0, <1>u DEF Inv, SessionsOK
<1>h. ASSUME NEW x \in Sessions
      PROVE  /\ HeldAt(x, ClientPCs)' <=> HeldAt(x, ClientPCs)
             /\ HeldAt(x, {"impersonating"})' <=> HeldAt(x, {"impersonating"})
             /\ Awaited(x, {"submit", "wait", "parked", "woken"})' <=> Awaited(x, {"submit", "wait", "parked", "woken"})
             /\ x # s => /\ Awaited(x, {"wait", "parked", "woken"})' <=> Awaited(x, {"wait", "parked", "woken"})
                         /\ HeldAt(x, {"wait", "parked", "woken", "check"})' <=>
                            HeldAt(x, {"wait", "parked", "woken", "check"})
  <2>1. CASE x = s
    <3>1. cpc[c] \in ClientPCs /\ cpc'[c] \in ClientPCs
      BY <1>u DEF Inv, TypeOK
    <3>2. cpc'[c] # "impersonating"
      BY <1>u
    <3>3. Awaited(s, {"submit", "wait", "parked", "woken"})' <=> Awaited(s, {"submit", "wait", "parked", "woken"})
      <4>1. Awaited(s, {"submit", "wait", "parked", "woken"}) <=> wait[c] /\ live[c]
        BY <1>s, HeldIs
      <4>2. Awaited(s, {"submit", "wait", "parked", "woken"})' <=> cpc'[c] = "wait" /\ wait[c] /\ live[c]
        <5>1. wait'[c] = wait[c] /\ live'[c] = live[c] /\ cpc'[c] \in {"wait", "in"}
          BY <1>0, <1>u
        <5> QED
          BY <5>1, <1>s, <1>0, HeldNext
      <4> QED
        BY <4>1, <4>2, <1>s, <1>u
    <3> QED
      BY <2>1, <3>1, <3>2, <3>3, <1>s, <1>0, HeldIs, HeldNext
  <2>2. CASE x # s
    BY <2>2, <1>s, <1>u, <1>0, HeldKept
  <2> QED
    BY <2>1, <2>2
<1>5. OpensOK'
  BY <1>h, <1>0 DEF Inv, OpensOK, OpensBy
<1>6. TakenOK'
  <2> SUFFICES ASSUME ppc \in {"execute", "run", "signal"}, Synchronous(pcall),
                      cur \notin early
               PROVE  calls[cur] = << >> /\ Awaited(cur, {"wait", "parked", "woken"})'
    BY <1>0 DEF TakenOK, Synchronous
  <2>1. cur \in Sessions /\ cur # s /\ calls[cur] = << >> /\ Awaited(cur, {"wait", "parked", "woken"})
    BY <1>s, Pointers DEF Inv, QueueOK, TakenOK
  <2> QED
    BY <2>1, <1>0, <1>h DEF Awaited
<1>7. DirtyOK'
  BY <1>0 DEF Inv, DirtyOK
<1>8. PropagateOK'
  <2> SUFFICES ASSUME propagate
               PROVE  HeldAt(cur, {"wait", "parked", "woken", "check"})'
    BY <1>0 DEF Inv, PropagateOK, Synchronous
  <2>1. cur \in Sessions /\ cur # s /\ HeldAt(cur, {"wait", "parked", "woken", "check"})
    BY <1>s, Pointers DEF Inv, PropagateOK
  <2> QED
    BY <2>1, <1>0, <1>h DEF HeldAt
<1>9. ASSUME NEW u \in Clients PROVE WaitOK(u)'
  <2>1. CASE u = c
    BY <2>1, <1>0, <1>u, <1>s DEF WaitOK, AfterCall, Synchronous
  <2>2. CASE u # c
    <3>1. cpc[u] \notin {"out", "done"} /\ isSubmitted[ses[u]] => isSubmitted'[ses[u]]
      BY Pointers, <1>u
    <3> QED
      BY <2>2, <3>1, <1>0, <1>u DEF Inv, WaitOK, Quiet, AfterCall, Synchronous
  <2> QED
    BY <2>1, <2>2
<1>10. ASSUME NEW x \in Sessions PROVE CallsOK(x)'
  BY <1>h, <1>0 DEF Inv, CallsOK
<1> QED
  BY <1>1, <1>2, <1>3, <1>4, <1>5, <1>6, <1>7, <1>8, <1>9, <1>10 DEF Inv, EarlyOK

\* The client c looks at the outcome of a call: nobody else is concerned.
LEMMA CheckOutcomeInv ==
  ASSUME Inv, NEW c \in Clients, CheckOutcome(c), UNCHANGED <<isImpersonationAllowed, early, undefined>>
  PROVE  Inv'
<1> USE NoneAssumption, BoundsAssumption
<1>e. PICK s : s = ses[c]
  OBVIOUS
<1>0. UNCHANGED <<sessionVars, queue, ppc, cur, pcall, ses, sent, wait, live,
                  isImpersonationAllowed, early, undefined>>
  BY DEF CheckOutcome
<1>s. /\ s \in Sessions /\ s # None /\ ses[c] = s /\ cpc[c] = "check" /\ isSubmitted[s]
      /\ ~live[c]
      /\ s \notin early => /\ cur = s /\ ppc \in {"session", "parked"}
                           /\ calls[s] = << >>
      /\ early = {} => propagate = raised[c]
  <2>1. cpc[c] = "check" /\ s \in Sessions /\ s # None
    BY <1>e, Pointers DEF CheckOutcome
  <2>2. (s \notin early => Quiet(c)) /\ isSubmitted[s] /\ ~live[c]
    BY <2>1, <1>e DEF Inv, WaitOK, AfterCall
  <2>3. early = {} => propagate = raised[c]
    BY <2>2, <1>e DEF Quiet, Inv, PropagateOK, TypeOK
  <2> QED
    BY <2>1, <2>2, <2>3, <1>e DEF Quiet
<1>u. /\ cpc' \in [Clients -> ClientPCs] /\ cpc'[c] \in {"in", "body", "impersonate"}
      /\ \A u \in Clients \ {c} : cpc'[u] = cpc[u] /\ raised'[u] = raised[u]
      /\ propagate' = FALSE
  BY DEF CheckOutcome, Inv, TypeOK, ClientPCs, CallProper
<1>r. raised' \in [Clients -> BOOLEAN] /\ (early = {} => ~raised'[c])
  BY <1>s DEF CheckOutcome, Inv, TypeOK
<1>f. /\ failed' \in [Sessions -> BOOLEAN] /\ isDirty' \in BOOLEAN
      /\ \A x \in Sessions \ {s} : failed'[x] = failed[x]
      /\ isDirty' => isDirty
      /\ early = {} => (failed'[s] <=> isDirty')
  <2>1. early = {} => (failed[s] <=> isDirty)
    BY <1>s DEF Inv, DirtyOK
  <2>2. CASE isDirty' = FALSE /\ failed' = [failed EXCEPT ![s] = FALSE]
    BY <2>2, <1>s DEF Inv, TypeOK
  <2>3. CASE isDirty' = isDirty /\ failed' = failed
    BY <2>1, <2>3 DEF Inv, TypeOK
  <2> QED
    BY <2>2, <2>3, <1>e DEF CheckOutcome
<1>1. TypeOK'
  BY <1>0, <1>u, <1>r, <1>f DEF Inv, TypeOK, sessionVars
<1>2. ASSUME NEW u \in Clients PROVE SesOK(u)'
  BY <1>0, <1>u, <1>s DEF Inv, SesOK, sessionVars
<1>3. QueueOK'
  BY <1>0 DEF Inv, QueueOK, sessionVars
<1>4. SessionsOK'
  BY <1>0, <1>u, <1>s DEF Inv, SessionsOK, sessionVars
<1>h. ASSUME NEW x \in Sessions
      PROVE  /\ HeldAt(x, ClientPCs)' <=> HeldAt(x, ClientPCs)
             /\ HeldAt(x, {"impersonating"})' <=> HeldAt(x, {"impersonating"})
             /\ Awaited(x, {"submit", "wait", "parked", "woken"})' <=> Awaited(x, {"submit", "wait", "parked", "woken"})
             /\ x # s => (Awaited(x, {"wait", "parked", "woken"})' <=>
                          Awaited(x, {"wait", "parked", "woken"}))
  <2>1. CASE x = s
    <3>1. cpc[c] \in ClientPCs /\ cpc'[c] \in ClientPCs
      BY <1>u DEF Inv, TypeOK
    <3>2. cpc'[c] \notin {"impersonating", "submit", "wait", "parked", "woken"} /\ ses' = ses
      BY <1>0, <1>u
    <3>3. ~Awaited(s, {"submit", "wait", "parked", "woken"}) /\ ~Awaited(s, {"submit", "wait", "parked", "woken"})'
      <4>0. ses[c] = s /\ s # None /\ cpc[c] \notin {"submit", "wait", "parked", "woken"}
        BY <1>s
      <4>1. ~Awaited(s, {"submit", "wait", "parked", "woken"})
        BY <4>0, HeldIs
      <4>2. cpc'[c] \notin {"submit", "wait", "parked", "woken"}
        BY <3>2
      <4>3. ~Awaited(s, {"submit", "wait", "parked", "woken"})'
        BY <4>2, <3>2, <1>s, HeldNext
      <4> QED
        BY <4>1, <4>3
    <3>4. ~HeldAt(s, {"impersonating"}) /\ ~HeldAt(s, {"impersonating"})'
      BY <3>2, <1>s, HeldIs, HeldNext
    <3>5. HeldAt(s, ClientPCs) /\ HeldAt(s, ClientPCs)'
      BY <3>1, <3>2, <1>s, HeldIs, HeldNext
    <3> QED
      BY <2>1, <3>3, <3>4, <3>5
  <2>2. CASE x # s
    BY <2>2, <1>s, <1>u, <1>0, HeldKept
  <2> QED
    BY <2>1, <2>2
<1>5. OpensOK'
  BY <1>h, <1>0 DEF Inv, OpensOK, OpensBy, sessionVars
<1>6. TakenOK'
  <2> SUFFICES ASSUME ppc \in {"execute", "run", "signal"}, Synchronous(pcall),
                      cur \notin early
               PROVE  calls[cur] = << >> /\ Awaited(cur, {"wait", "parked", "woken"})'
    BY <1>0 DEF TakenOK, sessionVars, Synchronous
  <2>1. cur # s /\ cur \in Sessions
    BY <1>s, Pointers DEF Inv, QueueOK
  <2>2. calls[cur] = << >> /\ Awaited(cur, {"wait", "parked", "woken"})
    BY DEF Inv, TakenOK
  <2>3. Awaited(cur, {"wait", "parked", "woken"})'
    BY <2>1, <2>2, <1>0, <1>h DEF Awaited
  <2> QED
    BY <2>2, <2>3
<1>7. DirtyOK'
  BY <1>0, <1>s, <1>f DEF Inv, DirtyOK, sessionVars
<1>8. PropagateOK'
  <2>1. ASSUME NEW u \in Clients, early = {} PROVE ~raised'[u]
    <3>1. CASE u = c
      BY <2>1, <3>1, <1>r
    <3>2. CASE u # c
      <4>1. ses[u] # cur
        BY <2>1, <3>2, <1>s, OneHolder
      <4> QED
        BY <2>1, <3>2, <4>1, <1>u DEF Inv, PropagateOK
    <3> QED
      BY <3>1, <3>2
  <2> QED
    BY <2>1, <1>0, <1>u DEF PropagateOK
<1>9. ASSUME NEW u \in Clients PROVE WaitOK(u)'
  <2>1. CASE u = c
    BY <2>1, <1>0, <1>u, <1>s DEF WaitOK, Quiet, AfterCall, sessionVars
  <2>2. CASE u # c
    BY <2>2, <1>0, <1>u DEF Inv, WaitOK, Quiet, AfterCall, Synchronous, sessionVars
  <2> QED
    BY <2>1, <2>2
<1>10. ASSUME NEW x \in Sessions PROVE CallsOK(x)'
  BY <1>h, <1>0 DEF Inv, CallsOK, sessionVars
<1> QED
  BY <1>1, <1>2, <1>3, <1>4, <1>5, <1>6, <1>7, <1>8, <1>9, <1>10 DEF Inv, EarlyOK

\* The client c impersonates the processor, or ceases to: its session is open
\* once more, or once less.
LEMMA ImpersonationInv ==
  ASSUME Inv, NEW c \in Clients, BeginImpersonation(c) \/ EndImpersonation(c),
         UNCHANGED <<isImpersonationAllowed, early, undefined>>
  PROVE  Inv'
<1> USE NoneAssumption, BoundsAssumption DEF processorVars
<1>e. PICK s : s = ses[c]
  OBVIOUS
<1>0. UNCHANGED <<opened, freed, opener, isSubmitted, calls, logged,
                  processorVars, ses, sent, wait, live, failed, raised,
                  isImpersonationAllowed, early, undefined>>
  BY DEF BeginImpersonation, EndImpersonation
<1>s. /\ s \in Sessions /\ s # None /\ ses[c] = s /\ isSubmitted[s] /\ ~live[c]
      /\ cpc[c] \in {"impersonate", "impersonating"}
      /\ s \notin early => cur = s /\ ppc \in {"session", "parked"} /\ calls[s] = << >>
  <2>1. cpc[c] \in {"impersonate", "impersonating"} /\ s \in Sessions /\ s # None
    BY <1>e, Pointers DEF BeginImpersonation, EndImpersonation
  <2>2. (s \notin early => Quiet(c)) /\ isSubmitted[s] /\ ~live[c]
    BY <2>1, <1>e DEF Inv, WaitOK, AfterCall
  <2> QED
    BY <2>1, <2>2, <1>e DEF Quiet
<1>k. ses[c] = s /\ s # None /\ ses' = ses
  BY <1>s, <1>0
<1>d. PICK d \in {0, 1} : d = OpensBy(cur = s /\ ppc = "run" /\ pcall = "sync")
  BY DEF OpensBy
<1>i. isOpen[s] = d + IF cpc[c] = "impersonating" THEN 2 ELSE 1
  <2>1. HeldAt(s, ClientPCs) /\ (HeldAt(s, {"impersonating"}) <=> cpc[c] = "impersonating")
    BY <1>s, HeldIs DEF Inv, TypeOK
  <2>2. isOpen[s] = 1 + OpensBy(HeldAt(s, {"impersonating"})) + d
    BY <2>1, <1>s, <1>d DEF Inv, OpensOK, OpensBy
  <2> QED
    BY <2>1, <2>2 DEF OpensBy
<1>u. /\ cpc' \in [Clients -> ClientPCs]
      /\ cpc'[c] = IF cpc[c] = "impersonating" THEN "in" ELSE "impersonating"
      /\ \A u \in Clients \ {c} : cpc'[u] = cpc[u]
      /\ isOpen' \in [Sessions -> 0..3]
      /\ isOpen'[s] = d + IF cpc'[c] = "impersonating" THEN 2 ELSE 1
      /\ \A x \in Sessions \ {s} : isOpen'[x] = isOpen[x]
  <2>1. /\ cpc' \in [Clients -> ClientPCs]
        /\ cpc'[c] = IF cpc[c] = "impersonating" THEN "in" ELSE "impersonating"
        /\ \A u \in Clients \ {c} : cpc'[u] = cpc[u]
    BY <1>s DEF BeginImpersonation, EndImpersonation, Inv, TypeOK, ClientPCs
  <2>2. isOpen' = [isOpen EXCEPT ![s] = d + IF cpc'[c] = "impersonating" THEN 2 ELSE 1]
    BY <1>s, <1>i, <2>1 DEF BeginImpersonation, EndImpersonation
  <2> QED
    BY <2>1, <2>2, <1>s DEF Inv, TypeOK
<1>1. TypeOK'
  BY <1>0, <1>u DEF Inv, TypeOK
<1>2. ASSUME NEW u \in Clients PROVE SesOK(u)'
  BY <1>0, <1>u, <1>s DEF Inv, SesOK
<1>3. QueueOK'
  BY <1>0 DEF Inv, QueueOK
<1>4. SessionsOK'
  BY <1>0, <1>u, <1>s DEF Inv, SessionsOK
<1>h. ASSUME NEW x \in Sessions
      PROVE  /\ x # s => (HeldAt(x, ClientPCs)' <=> HeldAt(x, ClientPCs))
             /\ x # s => (HeldAt(x, {"impersonating"})' <=> HeldAt(x, {"impersonating"}))
             /\ x = s => HeldAt(x, ClientPCs)'
             /\ x = s => (HeldAt(x, {"impersonating"})' <=> cpc'[c] = "impersonating")
             /\ Awaited(x, {"submit", "wait", "parked", "woken"})' <=> Awaited(x, {"submit", "wait", "parked", "woken"})
             /\ x # s => (Awaited(x, {"wait", "parked", "woken"})' <=>
                          Awaited(x, {"wait", "parked", "woken"}))
             /\ x # s => (HeldAt(x, {"wait", "parked", "woken", "check"})' <=>
                          HeldAt(x, {"wait", "parked", "woken", "check"}))
             /\ ~HeldAt(s, {"wait", "parked", "woken", "check"})
  <2>0. ~HeldAt(s, {"wait", "parked", "woken", "check"})
    <3>1. cpc[c] \notin {"wait", "parked", "woken", "check"}
      BY <1>s
    <3> QED
      BY <3>1, <1>k, HeldIs
  <2>1. CASE x = s
    <3>1. cpc[c] \in ClientPCs /\ cpc'[c] \in ClientPCs
      BY <1>u DEF Inv, TypeOK
    <3>2. cpc'[c] \notin {"submit", "wait", "parked", "woken"}
      BY <1>u
    <3>3. HeldAt(s, ClientPCs) /\ HeldAt(s, ClientPCs)'
      BY <3>1, <1>k, HeldIs, HeldNext
    <3>4. HeldAt(s, {"impersonating"})' <=> cpc'[c] = "impersonating"
      BY <1>k, HeldNext
    <3>5. ~Awaited(s, {"submit", "wait", "parked", "woken"})
      <4>1. cpc[c] \notin {"submit", "wait", "parked", "woken"}
        BY <1>s
      <4> QED
        BY <4>1, <1>k, HeldIs
    <3>6. ~Awaited(s, {"submit", "wait", "parked", "woken"})'
      BY <3>2, <1>k, HeldNext
    <3> QED
      BY <2>0, <2>1, <3>3, <3>4, <3>5, <3>6
  <2>2. CASE x # s
    BY <2>0, <2>2, <1>s, <1>u, <1>0, HeldKept
  <2> QED
    BY <2>1, <2>2
<1>5. OpensOK'
  <2> SUFFICES ASSUME NEW x \in Sessions
               PROVE  isOpen'[x] = OpensBy(HeldAt(x, ClientPCs)')
                                   + OpensBy(HeldAt(x, {"impersonating"})')
                                   + OpensBy(cur' = x /\ ppc' = "run" /\ pcall' = "sync")
    BY DEF OpensOK, OpensBy
  <2>1. CASE x = s
    BY <2>1, <1>h, <1>u, <1>0, <1>s, <1>d DEF OpensBy
  <2>2. CASE x # s
    BY <2>2, <1>h, <1>u, <1>0 DEF Inv, OpensOK, OpensBy
  <2> QED
    BY <2>1, <2>2
<1>6. TakenOK'
  <2> SUFFICES ASSUME ppc \in {"execute", "run", "signal"}, Synchronous(pcall),
                      cur \notin early
               PROVE  calls[cur] = << >> /\ Awaited(cur, {"wait", "parked", "woken"})'
    BY <1>0 DEF TakenOK, Synchronous
  <2>1. cur # s /\ cur \in Sessions
    BY <1>s, Pointers DEF Inv, QueueOK
  <2>2. calls[cur] = << >> /\ Awaited(cur, {"wait", "parked", "woken"})
    BY DEF Inv, TakenOK
  <2>3. Awaited(cur, {"wait", "parked", "woken"})'
    BY <2>1, <2>2, <1>0, <1>h DEF Awaited
  <2> QED
    BY <2>2, <2>3
<1>7. DirtyOK'
  <2>1. ppc = "remove" => cur # s /\ cur \in Sessions
    BY <1>i, <1>d, Pointers DEF Inv, DirtyOK, QueueOK
  <2> QED
    BY <2>1, <1>0, <1>u DEF Inv, DirtyOK
<1>8. PropagateOK'
  <2> SUFFICES ASSUME propagate PROVE HeldAt(cur, {"wait", "parked", "woken", "check"})'
    BY <1>0 DEF Inv, PropagateOK, Synchronous
  <2>1. cur # s /\ cur \in Sessions
    BY <1>h, <1>s, Pointers DEF Inv, PropagateOK
  <2>2. HeldAt(cur, {"wait", "parked", "woken", "check"})
    BY DEF Inv, PropagateOK
  <2> QED
    BY <2>1, <2>2, <1>0, <1>h DEF HeldAt
<1>9. ASSUME NEW u \in Clients PROVE WaitOK(u)'
  <2>1. CASE u = c
    BY <2>1, <1>0, <1>u, <1>s DEF WaitOK, Quiet, AfterCall
  <2>2. CASE u # c
    BY <2>2, <1>0, <1>u DEF Inv, WaitOK, Quiet, AfterCall, Synchronous
  <2> QED
    BY <2>1, <2>2
<1>10. ASSUME NEW x \in Sessions PROVE CallsOK(x)'
  BY <1>h, <1>0 DEF Inv, CallsOK
<1> QED
  BY <1>1, <1>2, <1>3, <1>4, <1>5, <1>6, <1>7, <1>8, <1>9, <1>10 DEF Inv, EarlyOK

\* The client c closes its session.
LEMMA CloseSessionInv ==
  ASSUME Inv, NEW c \in Clients, CloseSession(c), UNCHANGED <<isImpersonationAllowed, early, undefined>>
  PROVE  Inv'
<1> USE NoneAssumption, BoundsAssumption
<1>e. PICK s : s = ses[c]
  OBVIOUS
<1>0. UNCHANGED <<opened, opener, isSubmitted, calls, logged, queue, isDirty,
                  propagate, cur, pcall, sent, wait, live, failed, raised,
                  isImpersonationAllowed, early, undefined>>
  BY DEF CloseSession
<1>s. /\ s \in Sessions /\ s # None /\ s \in 1..opened /\ s \notin freed /\ ses[c] = s
      /\ cpc[c] = "in" /\ (~isSubmitted[s] => calls[s] = << >>) /\ ~live[c]
  BY <1>e, Pointers DEF CloseSession, Inv, SessionsOK, WaitOK
<1>w. /\ ~Awaited(s, {"submit", "wait", "parked", "woken"}) /\ ~Awaited(s, {"wait", "parked", "woken"})
      /\ ~HeldAt(s, {"wait", "parked", "woken", "check"}) /\ HeldAt(s, ClientPCs)
      /\ ~HeldAt(s, {"impersonating"})
  <2>1. cpc[c] \in ClientPCs
    BY DEF Inv, TypeOK
  <2>0. /\ ses[c] = s /\ s # None /\ cpc[c] \notin {"submit", "wait", "parked", "woken"}
        /\ cpc[c] \notin {"wait", "parked", "woken"} /\ cpc[c] \notin {"impersonating"}
        /\ cpc[c] \notin {"wait", "parked", "woken", "check"}
    BY <1>s
  <2>2. ~Awaited(s, {"submit", "wait", "parked", "woken"}) /\ ~Awaited(s, {"wait", "parked", "woken"})
    BY <2>0, HeldIs
  <2>3. ~HeldAt(s, {"wait", "parked", "woken", "check"}) /\ ~HeldAt(s, {"impersonating"})
    BY <2>0, HeldIs
  <2>4. HeldAt(s, ClientPCs)
    BY <2>1, <1>s, HeldIs
  <2> QED
    BY <2>2, <2>3, <2>4
<1>d. PICK d \in {0, 1} : d = OpensBy(cur = s /\ ppc = "run" /\ pcall = "sync")
  BY DEF OpensBy
<1>t. /\ s \notin early => ~(ppc \in {"execute", "run", "signal"} /\ Synchronous(pcall) /\ cur = s)
      /\ ~(propagate /\ cur = s)
      /\ isOpen[s] = 1 + d
      /\ ~isSubmitted[s] => isOpen[s] = 1
  <2>1. s \notin early => ~(ppc \in {"execute", "run", "signal"} /\ Synchronous(pcall) /\ cur = s)
    BY <1>w DEF Inv, TakenOK
  <2>2. ~(propagate /\ cur = s)
    BY <1>w DEF Inv, PropagateOK
  <2>3. isOpen[s] = 1 + d
    BY <1>w, <1>s, <1>d DEF Inv, OpensOK, OpensBy
  <2>4. ~isSubmitted[s] => d = 0
    BY <1>d, <1>s, Pointers DEF OpensBy
  <2> QED
    BY <2>1, <2>2, <2>3, <2>4
<1>u. /\ cpc' \in [Clients -> ClientPCs] /\ cpc'[c] = "out"
      /\ ses' \in [Clients -> Sessions \union {None}] /\ ses'[c] = None
      /\ \A u \in Clients \ {c} : cpc'[u] = cpc[u] /\ ses'[u] = ses[u]
      /\ isOpen' \in [Sessions -> 0..3] /\ isOpen'[s] = d
      /\ \A x \in Sessions \ {s} : isOpen'[x] = isOpen[x]
      /\ freed' = IF isSubmitted[s] THEN freed ELSE freed \union {s}
  <2>1. isOpen' = [isOpen EXCEPT ![s] = d]
    <3>1. isOpen' = [isOpen EXCEPT ![s] = isOpen[s] - 1]
      BY <1>e DEF CloseSession
    <3>2. isOpen[s] - 1 = d
      BY <1>t
    <3> QED
      BY <3>1, <3>2
  <2>2. freed' = IF isSubmitted[s] THEN freed ELSE freed \union {s}
    BY <1>t, <1>e DEF CloseSession, FreedAtClose
  <2>3. /\ cpc' \in [Clients -> ClientPCs] /\ cpc'[c] = "out"
        /\ ses' \in [Clients -> Sessions \union {None}] /\ ses'[c] = None
        /\ \A u \in Clients \ {c} : cpc'[u] = cpc[u] /\ ses'[u] = ses[u]
    BY DEF CloseSession, Inv, TypeOK, ClientPCs
  <2> QED
    BY <2>1, <2>2, <2>3, <1>s DEF Inv, TypeOK
<1>p. /\ ppc' = ppc \/ (ppc = "parked" /\ ppc' = "session")
      /\ ppc' \in ProcessorPCs
  BY DEF CloseSession, WakeProcessor, Inv, TypeOK, ProcessorPCs
<1>o. \A u \in Clients : ses'[u] # s /\ (u # c => ses[u] # s)
  BY <1>s, <1>u, OneHolder
<1>1. TypeOK'
  BY <1>0, <1>u, <1>p, <1>s DEF Inv, TypeOK
<1>2. ASSUME NEW u \in Clients PROVE SesOK(u)'
  <2>1. CASE u = c
    BY <2>1, <1>u DEF SesOK
  <2>2. CASE u # c
    BY <2>2, <1>0, <1>u, <1>o DEF Inv, SesOK
  <2> QED
    BY <2>1, <2>2
<1>3. QueueOK'
  <2>1. \A i \in 1..Len(queue) : queue[i] \notin freed'
    BY <1>u DEF Inv, QueueOK
  <2> QED
    BY <2>1, <1>0, <1>p DEF Inv, QueueOK
<1>4. SessionsOK'
  <2>1. freed' \subseteq 1..opened /\ \A x \in freed' : calls[x] = << >>
    BY <1>u, <1>s DEF Inv, SessionsOK
  <2>2. \A u \in Clients : cpc'[u] \in {"in", "submit"} => ses'[u] = ses[u] /\ cpc'[u] = cpc[u]
    BY <1>u
  <2> QED
    BY <2>1, <2>2, <1>0 DEF Inv, SessionsOK
<1>h. ASSUME NEW x \in Sessions
      PROVE  /\ x # s => (HeldAt(x, ClientPCs)' <=> HeldAt(x, ClientPCs))
             /\ x # s => (HeldAt(x, {"impersonating"})' <=> HeldAt(x, {"impersonating"}))
             /\ x # s => (Awaited(x, {"submit", "wait", "parked", "woken"})' <=> Awaited(x, {"submit", "wait", "parked", "woken"}))
             /\ x # s => (Awaited(x, {"wait", "parked", "woken"})' <=> Awaited(x, {"wait", "parked", "woken"}))
             /\ x # s => (HeldAt(x, {"wait", "parked", "woken", "check"})' <=>
                          HeldAt(x, {"wait", "parked", "woken", "check"}))
             /\ x = s => ~HeldAt(x, ClientPCs)' /\ ~HeldAt(x, {"impersonating"})'
  <2>1. CASE x = s
    BY <2>1, <1>o DEF HeldAt
  <2>2. CASE x # s
    <3>1. x # None
      BY DEF Sessions
    <3> QED
      BY <2>2, <3>1, <1>s, <1>u, <1>0, HeldKept
  <2> QED
    BY <2>1, <2>2
<1>5. OpensOK'
  <2> SUFFICES ASSUME NEW x \in Sessions
               PROVE  isOpen'[x] = OpensBy(HeldAt(x, ClientPCs)')
                                   + OpensBy(HeldAt(x, {"impersonating"})')
                                   + OpensBy(cur' = x /\ ppc' = "run" /\ pcall' = "sync")
    BY DEF OpensOK, OpensBy
  <2>0. ppc' = "run" <=> ppc = "run"
    BY <1>p
  <2>1. CASE x = s
    BY <2>0, <2>1, <1>h, <1>u, <1>0, <1>d DEF OpensBy
  <2>2. CASE x # s
    BY <2>0, <2>2, <1>h, <1>u, <1>0 DEF Inv, OpensOK, OpensBy
  <2> QED
    BY <2>1, <2>2
<1>6. TakenOK'
  <2> SUFFICES ASSUME ppc' \in {"execute", "run", "signal"}, Synchronous(pcall),
                      cur \notin early
               PROVE  calls[cur] = << >> /\ Awaited(cur, {"wait", "parked", "woken"})'
    BY <1>0 DEF TakenOK, Synchronous
  <2>1. ppc \in {"execute", "run", "signal"} /\ cur \in Sessions /\ cur # s
    BY <1>p, <1>t, Pointers DEF Inv, QueueOK
  <2>2. calls[cur] = << >> /\ Awaited(cur, {"wait", "parked", "woken"})
    BY <2>1 DEF Inv, TakenOK
  <2> QED
    BY <2>1, <2>2, <1>0, <1>h DEF Awaited
<1>7. DirtyOK'
  <2>1. ppc' = "remove" => cur # s /\ isOpen'[cur] = isOpen[cur]
    BY <1>p, <1>t, <1>d, <1>u, Pointers DEF Inv, DirtyOK, QueueOK
  <2> QED
    BY <2>1, <1>0, <1>p DEF Inv, DirtyOK
<1>8. PropagateOK'
  <2>1. ASSUME propagate
        PROVE  HeldAt(cur, {"wait", "parked", "woken", "check"})'
    <3>1. cur \in Sessions /\ cur # s
      BY <2>1, <1>t, Pointers DEF Inv, PropagateOK
    <3> QED
      BY <2>1, <3>1, <1>0, <1>h DEF Inv, PropagateOK, HeldAt
  <2>2. propagate => cur # None /\ cur # s
    BY <1>t DEF Inv, PropagateOK
  <2>3. \A u \in Clients : propagate => (ses'[u] = cur <=> ses[u] = cur)
    BY <2>2, <1>u, <1>s
  <2> QED
    BY <2>1, <2>3, <1>0, <1>p DEF Inv, PropagateOK, Synchronous
<1>9. ASSUME NEW u \in Clients PROVE WaitOK(u)'
  <2>1. CASE u = c
    BY <2>1, <1>u, <1>0, <1>s DEF WaitOK, AfterCall
  <2>2. CASE u # c
    BY <2>2, <1>0, <1>u, <1>p DEF Inv, WaitOK, Quiet, AfterCall, Synchronous
  <2> QED
    BY <2>1, <2>2
<1>10. ASSUME NEW x \in Sessions PROVE CallsOK(x)'
  <2>1. CASE x = s
    BY <2>1, <1>0, <1>w, <1>s DEF Inv, CallsOK
  <2>2. CASE x # s
    BY <2>2, <1>h, <1>0 DEF Inv, CallsOK
  <2> QED
    BY <2>1, <2>2
<1> QED
  BY <1>1, <1>2, <1>3, <1>4, <1>5, <1>6, <1>7, <1>8, <1>9, <1>10 DEF Inv, EarlyOK

\* The processor takes the first session.
LEMMA TakeSessionInv ==
  ASSUME Inv, TakeSession, UNCHANGED <<isImpersonationAllowed, early, undefined>>
  PROVE  Inv'
<1> USE NoneAssumption, BoundsAssumption DEF sessionVars, clientVars
<1>e. PICK s : s = Head(queue)
  OBVIOUS
<1>0. /\ UNCHANGED <<sessionVars, queue, isDirty, propagate, pcall, clientVars, failed,
                     raised, isImpersonationAllowed, early, undefined>>
      /\ cur' = s /\ ppc' = "session" /\ ppc = "idle" /\ cur = None
  BY <1>e DEF TakeSession, Inv, QueueOK
<1>s. s \in Sessions /\ s = queue[1] /\ queue # << >> /\ s # None
  <2>1. queue \in Seq(Sessions) /\ queue # << >>
    BY DEF TakeSession, Inv, TypeOK
  <2>2. Head(queue) = queue[1] /\ Head(queue) \in Sessions
    BY <2>1
  <2> QED
    BY <2>1, <2>2, <1>e DEF Sessions
<1>1. TypeOK'
  BY <1>0, <1>s DEF Inv, TypeOK, ProcessorPCs
<1>2. ASSUME NEW u \in Clients PROVE SesOK(u)'
  BY <1>0 DEF Inv, SesOK
<1>3. QueueOK' /\ SessionsOK'
  BY <1>0, <1>s DEF Inv, QueueOK, SessionsOK
<1>4. OpensOK'
  BY <1>0 DEF Inv, OpensOK, OpensBy, HeldAt
<1>5. TakenOK'
  BY <1>0 DEF TakenOK
<1>6. DirtyOK'
  BY <1>0 DEF Inv, DirtyOK
<1>7. PropagateOK'
  BY <1>0 DEF Inv, PropagateOK
<1>8. ASSUME NEW u \in Clients PROVE WaitOK(u)'
  BY <1>0, Pointers DEF Inv, WaitOK, Quiet, AfterCall
<1>9. ASSUME NEW x \in Sessions PROVE CallsOK(x)'
  BY <1>0 DEF Inv, CallsOK, Awaited
<1> QED
  BY <1>1, <1>2, <1>3, <1>4, <1>5, <1>6, <1>7, <1>8, <1>9 DEF Inv, EarlyOK

\* Within GE_scoop_session_execute.
LEMMA NextCallInv ==
  ASSUME Inv, NextCall, UNCHANGED <<isImpersonationAllowed, early, undefined>>
  PROVE  Inv'
<1> USE NoneAssumption, BoundsAssumption DEF clientVars
<1>0. UNCHANGED <<opened, freed, opener, isOpen, isSubmitted, logged, queue,
                  propagate, cur, clientVars, raised, isImpersonationAllowed,
                  early, undefined>>
  BY DEF NextCall
<1>s. cur \in Sessions /\ cur # None /\ ppc = "session" /\ calls[cur] \in Seq(Kinds)
      /\ cur \notin freed /\ isSubmitted[cur] /\ cur \in 1..opened
  BY Pointers DEF NextCall, Inv, QueueOK, TypeOK
<1>2. ASSUME NEW u \in Clients PROVE SesOK(u)'
  BY <1>0 DEF Inv, SesOK
<1>a. CASE calls[cur] # << >>
  <2>0. /\ ppc' = "execute" /\ pcall' = Head(calls[cur]) /\ UNCHANGED <<isDirty, failed>>
        /\ calls' = [calls EXCEPT ![cur] = Tail(calls[cur])]
    BY <1>a DEF NextCall, SessionOver
  <2>c. /\ calls' \in [Sessions -> Seq(Kinds)] /\ pcall' \in Kinds /\ pcall' = calls[cur][1]
        /\ Len(calls[cur]) \in Nat \ {0} /\ Len(calls'[cur]) = Len(calls[cur]) - 1
        /\ \A i \in 1..Len(calls'[cur]) : calls'[cur][i] = calls[cur][i+1]
        /\ \A x \in Sessions \ {cur} : calls'[x] = calls[x]
        /\ calls'[cur] \in Seq(Kinds)
    <3>1. Tail(calls[cur]) \in Seq(Kinds) /\ Head(calls[cur]) \in Kinds
          /\ Head(calls[cur]) = calls[cur][1] /\ Len(calls[cur]) \in Nat \ {0}
          /\ Len(Tail(calls[cur])) = Len(calls[cur]) - 1
          /\ \A i \in 1..Len(Tail(calls[cur])) : Tail(calls[cur])[i] = calls[cur][i+1]
      BY <1>a, <1>s
    <3>2. calls'[cur] = Tail(calls[cur]) /\ \A x \in Sessions \ {cur} : calls'[x] = calls[x]
      BY <2>0, <1>s DEF Inv, TypeOK
    <3> QED
      BY <2>0, <3>1, <3>2, <1>s DEF Inv, TypeOK
  <2>n. \A u \in Clients : ~(Quiet(u))
    BY <1>a DEF Quiet
  <2>t. Synchronous(pcall') /\ cur \notin early =>
           calls'[cur] = << >> /\ Awaited(cur, {"wait", "parked", "woken"})
    <3> SUFFICES ASSUME Synchronous(pcall'), cur \notin early
                 PROVE  calls'[cur] = << >> /\ Awaited(cur, {"wait", "parked", "woken"})
      OBVIOUS
    <3>1. Len(calls[cur]) = 1 /\ Awaited(cur, {"submit", "wait", "parked", "woken"})
      <4>1. CallsOK(cur)
        BY <1>s DEF Inv
      <4>2. 1 \in 1..Len(calls[cur]) /\ Synchronous(calls[cur][1])
        BY <2>c DEF Synchronous
      <4> QED
        BY <4>1, <4>2 DEF CallsOK
    <3>2. Awaited(cur, {"wait", "parked", "woken"})
      BY <3>1, <1>s DEF Awaited, Inv, SessionsOK
    <3> QED
      BY <3>1, <3>2, <2>c
  <2>1. TypeOK'
    BY <1>0, <2>0, <2>c DEF Inv, TypeOK, ProcessorPCs
  <2>3. QueueOK'
    BY <1>0, <2>0, <1>s DEF Inv, QueueOK
  <2>4. SessionsOK'
    <3>1. \A x \in Sessions : x > opened => x # cur
      BY <1>s, Pointers DEF Sessions
    <3>2. \A x \in freed : x # cur /\ x \in Sessions
      BY <1>s DEF Inv, TypeOK
    <3>3. \A u \in Clients : cpc[u] = "in" /\ ~isSubmitted[ses[u]] =>
             ses[u] # cur /\ ses[u] \in Sessions
      BY <1>s, Pointers
    <3> QED
      BY <3>1, <3>2, <3>3, <1>0, <2>c DEF Inv, SessionsOK
  <2>5. OpensOK'
    BY <1>0, <2>0, <1>s DEF Inv, OpensOK, OpensBy, HeldAt
  <2>6. TakenOK'
    BY <2>t, <1>0 DEF TakenOK, Awaited, Synchronous
  <2>7. DirtyOK'
    BY <1>0, <2>0 DEF Inv, DirtyOK
  <2>8. PropagateOK'
    <3>1. ~propagate
      BY <1>a, <1>s DEF Inv, PropagateOK
    <3> QED
      BY <3>1, <1>0 DEF Inv, PropagateOK
  <2>9. ASSUME NEW u \in Clients PROVE WaitOK(u)'
    BY <2>n, <1>0 DEF Inv, WaitOK, AfterCall, Synchronous
  <2>10. ASSUME NEW x \in Sessions PROVE CallsOK(x)'
    <3>1. CASE x = cur
      <4> SUFFICES ASSUME NEW i \in 1..Len(calls'[cur]), Synchronous(calls'[cur][i]),
                          cur \notin early
                   PROVE  i = Len(calls'[cur]) /\ Awaited(x, {"submit", "wait", "parked", "woken"})'
        BY <3>1, <1>0 DEF CallsOK, Synchronous
      <4>1. i + 1 \in 1..Len(calls[cur]) /\ Synchronous(calls[cur][i+1])
        BY <2>c DEF Synchronous
      <4>2. i + 1 = Len(calls[cur]) /\ Awaited(x, {"submit", "wait", "parked", "woken"})
        BY <3>1, <4>1, <1>s DEF Inv, CallsOK
      <4> QED
        BY <4>2, <2>c, <1>0 DEF Awaited
    <3>2. CASE x # cur
      BY <3>2, <2>c, <1>0 DEF Inv, CallsOK, Awaited
    <3> QED
      BY <3>1, <3>2
  <2> QED
    BY <2>1, <1>2, <2>3, <2>4, <2>5, <2>6, <2>7, <2>8, <2>9, <2>10 DEF Inv, EarlyOK
<1>b. CASE calls[cur] = << >> /\ isOpen[cur] > 0
  <2>0. ppc' = "parked" /\ UNCHANGED <<isDirty, failed, calls, pcall>>
    BY <1>b DEF NextCall, SessionOver
  <2>1. TypeOK'
    BY <1>0, <2>0 DEF Inv, TypeOK, ProcessorPCs
  <2>3. QueueOK' /\ SessionsOK'
    BY <1>0, <2>0, <1>s DEF Inv, QueueOK, SessionsOK
  <2>5. OpensOK'
    BY <1>0, <2>0, <1>s DEF Inv, OpensOK, OpensBy, HeldAt
  <2>6. TakenOK'
    BY <2>0 DEF TakenOK
  <2>7. DirtyOK'
    BY <1>0, <2>0 DEF Inv, DirtyOK
  <2>8. PropagateOK'
    BY <1>0, <2>0, <1>s DEF Inv, PropagateOK, HeldAt
  <2>9. ASSUME NEW u \in Clients PROVE WaitOK(u)'
    BY <2>0, <1>0 DEF Inv, WaitOK, Quiet, AfterCall, Synchronous
  <2>10. ASSUME NEW x \in Sessions PROVE CallsOK(x)'
    BY <2>0, <1>0 DEF Inv, CallsOK, Awaited
  <2> QED
    BY <2>1, <1>2, <2>3, <2>5, <2>6, <2>7, <2>8, <2>9, <2>10 DEF Inv, EarlyOK
<1>c. CASE calls[cur] = << >> /\ isOpen[cur] = 0
  <2>0. /\ ppc' = "remove" /\ UNCHANGED <<calls, pcall>> /\ isDirty' = FALSE
        /\ failed' = [failed EXCEPT ![cur] = FALSE]
    BY <1>c DEF NextCall, CleanRegion
  <2>f. failed' \in [Sessions -> BOOLEAN] /\ (early = {} => \A x \in Sessions : ~failed'[x])
    BY <2>0, <1>s DEF Inv, TypeOK, DirtyOK
  <2>h. \A u \in Clients : ses[u] # cur
    <3>1. ASSUME NEW u \in Clients, ses[u] = cur PROVE FALSE
      <4>1. HeldAt(cur, ClientPCs)
        BY <3>1 DEF HeldAt, Inv, TypeOK
      <4> QED
        BY <4>1, <1>c, <1>s DEF Inv, OpensOK, OpensBy
    <3> QED
      BY <3>1
  <2>1. TypeOK'
    BY <1>0, <2>0, <2>f DEF Inv, TypeOK, ProcessorPCs
  <2>3. QueueOK' /\ SessionsOK'
    BY <1>0, <2>0, <1>s DEF Inv, QueueOK, SessionsOK
  <2>5. OpensOK'
    BY <1>0, <2>0, <1>s DEF Inv, OpensOK, OpensBy, HeldAt
  <2>6. TakenOK'
    BY <2>0 DEF TakenOK
  <2>7. DirtyOK'
    BY <1>0, <2>0, <2>f, <1>c DEF DirtyOK
  <2>8. PropagateOK'
    <3>1. ~propagate
      BY <2>h DEF Inv, PropagateOK, HeldAt
    <3> QED
      BY <3>1, <1>0 DEF Inv, PropagateOK
  <2>9. ASSUME NEW u \in Clients PROVE WaitOK(u)'
    <3>1. ~Quiet(u)
      BY <2>h DEF Quiet
    <3> QED
      BY <3>1, <1>0 DEF Inv, WaitOK, AfterCall, Synchronous
  <2>10. ASSUME NEW x \in Sessions PROVE CallsOK(x)'
    BY <2>0, <1>0 DEF Inv, CallsOK, Awaited
  <2> QED
    BY <2>1, <1>2, <2>3, <2>5, <2>6, <2>7, <2>8, <2>9, <2>10 DEF Inv, EarlyOK
<1>d. isOpen[cur] > 0 \/ isOpen[cur] = 0
  <2>1. isOpen[cur] \in 0..3
    BY <1>s DEF Inv, TypeOK
  <2> QED
    BY <2>1
<1> QED
  BY <1>a, <1>b, <1>c, <1>d

\* A wait of the processor that ends by itself.
LEMMA SpuriousWakeupInv ==
  ASSUME Inv, SpuriousProcessorWakeup
  PROVE  Inv'
<1> USE NoneAssumption, BoundsAssumption DEF sessionVars, clientVars
<1>0. /\ UNCHANGED <<sessionVars, queue, isDirty, propagate, isImpersonationAllowed,
                     cur, pcall, clientVars, failed, raised, early, undefined>>
      /\ ppc = "parked" /\ ppc' = "session"
  BY DEF SpuriousProcessorWakeup
<1>1. TypeOK'
  BY <1>0 DEF Inv, TypeOK, ProcessorPCs
<1>2. ASSUME NEW u \in Clients PROVE SesOK(u)'
  BY <1>0 DEF Inv, SesOK
<1>3. QueueOK' /\ SessionsOK'
  BY <1>0 DEF Inv, QueueOK, SessionsOK
<1>4. OpensOK'
  BY <1>0 DEF Inv, OpensOK, OpensBy, HeldAt
<1>5. TakenOK'
  BY <1>0 DEF TakenOK
<1>6. DirtyOK'
  BY <1>0 DEF Inv, DirtyOK
<1>7. PropagateOK'
  BY <1>0 DEF Inv, PropagateOK, HeldAt
<1>8. ASSUME NEW u \in Clients PROVE WaitOK(u)'
  BY <1>0 DEF Inv, WaitOK, Quiet, AfterCall, Synchronous
<1>9. ASSUME NEW x \in Sessions PROVE CallsOK(x)'
  BY <1>0 DEF Inv, CallsOK, Awaited
<1>10. EarlyOK'
  BY <1>0 DEF Inv, EarlyOK
<1> QED
  BY <1>1, <1>2, <1>3, <1>4, <1>5, <1>6, <1>7, <1>8, <1>9, <1>10 DEF Inv

\* A step of the processor within GE_scoop_call_execute, from ppc to ppc',
\* while it executes the session cur.
LEMMA ExecuteInv ==
  ASSUME Inv, cur # None,
         UNCHANGED <<opened, freed, opener, isSubmitted, calls, logged, queue, cur, pcall,
                     clientVars, isImpersonationAllowed, early, undefined>>,
         ppc \in {"execute", "run"}, ppc' \in {"run", "signal", "session"},
         isOpen' = [isOpen EXCEPT ![cur] =
                      @ + OpensBy(ppc' = "run" /\ pcall = "sync")
                        - OpensBy(ppc = "run" /\ pcall = "sync")],
         ppc' = "session" => ~Synchronous(pcall) \/ ppc = "run",
         propagate' \in BOOLEAN, raised' \in [Clients -> BOOLEAN],
         isDirty' \in BOOLEAN, failed' \in [Sessions -> BOOLEAN],
         DirtyOK', PropagateOK'
  PROVE  Inv'
<1> USE NoneAssumption, BoundsAssumption DEF clientVars
<1>s. cur \in Sessions
  BY Pointers
<1>i. isOpen[cur] = OpensBy(HeldAt(cur, ClientPCs)) + OpensBy(HeldAt(cur, {"impersonating"}))
                    + OpensBy(ppc = "run" /\ pcall = "sync")
  BY <1>s DEF Inv, OpensOK, OpensBy
<1>n. ASSUME NEW u \in Clients PROVE ~Quiet(u)
  BY DEF Quiet
<1>h. \A x, P : HeldAt(x, P)' <=> HeldAt(x, P)
  BY DEF HeldAt
<1>o. /\ isOpen'[cur] = OpensBy(HeldAt(cur, ClientPCs)) + OpensBy(HeldAt(cur, {"impersonating"}))
                        + OpensBy(ppc' = "run" /\ pcall = "sync")
      /\ \A x \in Sessions \ {cur} : isOpen'[x] = isOpen[x]
  BY <1>s, <1>i DEF Inv, TypeOK, OpensBy
<1>1. TypeOK'
  <2>1. isOpen' \in [Sessions -> 0..3]
    <3>1. isOpen'[cur] \in 0..3
      BY <1>o DEF OpensBy
    <3> QED
      BY <3>1, <1>o, <1>s DEF Inv, TypeOK
  <2> QED
    BY <2>1 DEF Inv, TypeOK, ProcessorPCs
<1>2. ASSUME NEW u \in Clients PROVE SesOK(u)'
  BY DEF Inv, SesOK
<1>3. QueueOK' /\ SessionsOK'
  BY DEF Inv, QueueOK, SessionsOK
<1>4. OpensOK'
  <2> SUFFICES ASSUME NEW x \in Sessions
               PROVE  isOpen'[x] = OpensBy(HeldAt(x, ClientPCs)')
                                   + OpensBy(HeldAt(x, {"impersonating"})')
                                   + OpensBy(cur' = x /\ ppc' = "run" /\ pcall' = "sync")
    BY DEF OpensOK, OpensBy
  <2>1. CASE x = cur
    <3>1. /\ HeldAt(x, ClientPCs)' <=> HeldAt(cur, ClientPCs)
          /\ HeldAt(x, {"impersonating"})' <=> HeldAt(cur, {"impersonating"})
      BY <2>1, <1>h
    <3> QED
      BY <2>1, <3>1, <1>o DEF OpensBy
  <2>2. CASE x # cur
    BY <2>2, <1>h, <1>o DEF Inv, OpensOK, OpensBy
  <2> QED
    BY <2>1, <2>2
<1>5. TakenOK'
  BY DEF Inv, TakenOK, Awaited, Synchronous
<1>8. ASSUME NEW u \in Clients PROVE WaitOK(u)'
  BY <1>n DEF Inv, WaitOK, AfterCall, Synchronous
<1>9. ASSUME NEW x \in Sessions PROVE CallsOK(x)'
  BY DEF Inv, CallsOK, Awaited
<1> QED
  BY <1>1, <1>2, <1>3, <1>4, <1>5, <1>8, <1>9 DEF Inv, EarlyOK

\* is_open counts.
LEMMA OpenType ==
  ASSUME Inv, NEW s \in Sessions
  PROVE  isOpen[s] \in Nat
<1>1. isOpen \in [Sessions -> 0..3]
  BY DEF Inv, TypeOK
<1> QED
  BY <1>1

\* A call is begun, or ignored.
LEMMA BeginCallInv ==
  ASSUME Inv, BeginCall, UNCHANGED <<isImpersonationAllowed, early, undefined>>
  PROVE  Inv'
<1> USE NoneAssumption
<1>0. /\ UNCHANGED <<opened, freed, opener, isSubmitted, calls, logged, queue,
                     isDirty, propagate, cur, pcall, clientVars, failed, raised>>
      /\ ppc = "execute" /\ cur # None /\ cur \in Sessions
      /\ ppc' = IF Skipped THEN "signal" ELSE "run"
  BY Pointers DEF BeginCall, Inv, QueueOK
<1>1. isOpen' = [isOpen EXCEPT ![cur] = @ + OpensBy(ppc' = "run" /\ pcall = "sync")
                                          - OpensBy(ppc = "run" /\ pcall = "sync")]
  <2>1. isOpen[cur] \in Nat
    BY <1>0, OpenType
  <2>2. isOpen[cur] + OpensBy(ppc' = "run" /\ pcall = "sync") - OpensBy(ppc = "run" /\ pcall = "sync")
        = IF ~Skipped /\ pcall = "sync" THEN isOpen[cur] + 1 ELSE isOpen[cur]
    BY <2>1, <1>0 DEF OpensBy
  <2>3. isOpen = [isOpen EXCEPT ![cur] = isOpen[cur]]
    BY <1>0 DEF Inv, TypeOK
  <2> QED
    BY <2>2, <2>3 DEF BeginCall
<1>2. DirtyOK'
  BY <1>0 DEF Inv, DirtyOK, Skipped
<1>3. PropagateOK'
  BY <1>0 DEF Inv, PropagateOK
<1> QED
  BY <1>0, <1>1, <1>2, <1>3, ExecuteInv DEF Inv, TypeOK

\* A call returns.
LEMMA EndCallInv ==
  ASSUME Inv, EndCall, UNCHANGED <<isImpersonationAllowed, early, undefined>>
  PROVE  Inv'
<1> USE NoneAssumption
<1>0. /\ UNCHANGED <<opened, freed, opener, isSubmitted, calls, logged, queue,
                     isDirty, propagate, cur, pcall, clientVars, failed, raised>>
      /\ ppc = "run" /\ cur # None /\ cur \in Sessions /\ ppc' = "signal"
  BY Pointers DEF EndCall, Inv, QueueOK
<1>1. isOpen' = [isOpen EXCEPT ![cur] = @ + OpensBy(ppc' = "run" /\ pcall = "sync")
                                          - OpensBy(ppc = "run" /\ pcall = "sync")]
  <2>1. isOpen[cur] \in Nat
    BY <1>0, OpenType
  <2>2. isOpen[cur] + OpensBy(ppc' = "run" /\ pcall = "sync") - OpensBy(ppc = "run" /\ pcall = "sync")
        = IF pcall = "sync" THEN isOpen[cur] - 1 ELSE isOpen[cur]
    BY <2>1, <1>0 DEF OpensBy
  <2> QED
    BY <2>2 DEF EndCall
<1>2. DirtyOK'
  BY <1>0 DEF Inv, DirtyOK
<1>3. PropagateOK'
  BY <1>0 DEF Inv, PropagateOK
<1> QED
  BY <1>0, <1>1, <1>2, <1>3, ExecuteInv DEF Inv, TypeOK

\* A call fails.
LEMMA FailCallInv ==
  ASSUME Inv, FailCall, UNCHANGED <<isImpersonationAllowed, early, undefined>>
  PROVE  Inv'
<1> USE NoneAssumption
<1>0. /\ UNCHANGED <<opened, freed, opener, isSubmitted, calls, logged, queue, cur,
                     pcall, clientVars>>
      /\ ppc = "run" /\ cur # None /\ cur \in Sessions
  BY Pointers DEF FailCall, Inv, QueueOK
<1>i. isOpen[cur] \in Nat
  BY <1>0, OpenType
<1>p. ~propagate /\ (early = {} => \A u \in Clients : ~raised[u])
  BY <1>0 DEF Inv, PropagateOK
<1>a. CASE pcall = "sync"
  <2>0. /\ isOpen' = [isOpen EXCEPT ![cur] = @ - 1] /\ propagate' = TRUE /\ ppc' = "signal"
        /\ raised' = [raised EXCEPT ![opener[cur]] = TRUE] /\ UNCHANGED <<isDirty, failed>>
    BY <1>a DEF FailCall, FailSynchronous
  <2>1. PICK c \in Clients : /\ c = opener[cur] /\ ses[c] = cur
                             /\ cpc[c] \in {"wait", "parked", "woken"}
    <3>1. CallerWaits
      BY <1>a DEF FailCall, MayUseCaller, Synchronous
    <3> QED
      BY <3>1, <1>0, CallerIs
  <2>2. opener[cur] = c
    BY <2>1
  <2>3. /\ raised' \in [Clients -> BOOLEAN] /\ raised'[c]
        /\ \A u \in Clients \ {c} : raised'[u] = raised[u]
    BY <2>0, <2>2 DEF Inv, TypeOK
  <2>4. isOpen' = [isOpen EXCEPT ![cur] = @ + OpensBy(ppc' = "run" /\ pcall = "sync")
                                            - OpensBy(ppc = "run" /\ pcall = "sync")]
    <3>1. isOpen[cur] + OpensBy(ppc' = "run" /\ pcall = "sync")
                      - OpensBy(ppc = "run" /\ pcall = "sync") = isOpen[cur] - 1
      BY <1>0, <1>a, <1>i, <2>0 DEF OpensBy
    <3> QED
      BY <3>1, <2>0
  <2>5. DirtyOK'
    BY <1>0, <2>0 DEF Inv, DirtyOK
  <2>6. PropagateOK'
    <3>1. HeldAt(cur, {"wait", "parked", "woken", "check"})'
      BY <2>1, <1>0 DEF HeldAt, clientVars
    <3>2. early = {} => \A u \in Clients : raised'[u] <=> ses[u] = cur
      BY <2>1, <2>3, <1>p, <1>0, OneHolder
    <3> QED
      BY <3>1, <3>2, <2>0, <1>0, <1>a DEF PropagateOK, Synchronous, clientVars
  <2> QED
    BY <1>0, <2>0, <2>3, <2>4, <2>5, <2>6, ExecuteInv DEF Inv, TypeOK
<1>b. CASE pcall # "sync"
  <2>0. /\ isDirty' = TRUE /\ failed' = [failed EXCEPT ![cur] = TRUE] /\ ppc' = "session"
        /\ UNCHANGED <<isOpen, propagate, raised>>
    BY <1>b DEF FailCall
  <2>1. isOpen' = [isOpen EXCEPT ![cur] = @ + OpensBy(ppc' = "run" /\ pcall = "sync")
                                            - OpensBy(ppc = "run" /\ pcall = "sync")]
    <3>1. isOpen[cur] + OpensBy(ppc' = "run" /\ pcall = "sync")
                      - OpensBy(ppc = "run" /\ pcall = "sync") = isOpen[cur]
      BY <1>b, <1>i DEF OpensBy
    <3>2. isOpen = [isOpen EXCEPT ![cur] = isOpen[cur]]
      BY <1>0 DEF Inv, TypeOK
    <3> QED
      BY <3>1, <3>2, <2>0
  <2>2. /\ failed' \in [Sessions -> BOOLEAN]
        /\ early = {} => \A x \in Sessions : failed'[x] <=> x = cur
    BY <2>0, <1>0 DEF Inv, TypeOK, DirtyOK
  <2>3. DirtyOK'
    BY <2>0, <2>2, <1>0 DEF DirtyOK
  <2>4. PropagateOK'
    BY <1>p, <2>0 DEF PropagateOK
  <2> QED
    BY <1>0, <2>0, <2>1, <2>2, <2>3, <2>4, ExecuteInv DEF Inv, TypeOK
<1> QED
  BY <1>a, <1>b

\* The client of a synchronous call is woken.
LEMMA SignalCallerInv ==
  ASSUME Inv, SignalCaller, UNCHANGED <<isImpersonationAllowed, early, undefined>>
  PROVE  Inv'
<1> USE NoneAssumption, BoundsAssumption DEF sessionVars
<1>0. /\ UNCHANGED <<sessionVars, queue, isDirty, propagate, cur, pcall, ses,
                     sent, live, failed, raised, isImpersonationAllowed, early,
                     undefined>>
      /\ ppc = "signal" /\ ppc' = "session"
  BY DEF SignalCaller
<1>c. cur # None /\ cur \in Sessions
  BY <1>0, Pointers DEF Inv, QueueOK
<1>n. ASSUME NEW u \in Clients PROVE ~Quiet(u)
  BY <1>0 DEF Quiet
<1>u. /\ \A u \in Clients : \/ cpc'[u] = cpc[u] /\ wait'[u] = wait[u]
                            \/ /\ Synchronous(pcall) /\ ses[u] = cur /\ ~wait'[u]
                               /\ \/ cpc[u] = "wait" /\ cpc'[u] = "wait"
                                  \/ cpc[u] = "woken" /\ cpc'[u] = "woken"
                                  \/ cpc[u] = "parked" /\ cpc'[u] = "woken"
      /\ cpc' \in [Clients -> ClientPCs] /\ wait' \in [Clients -> BOOLEAN]
      /\ Synchronous(pcall) => calls[cur] = << >>
  <2>a. CASE Synchronous(pcall)
    <3>1. PICK c \in Clients : /\ c = opener[cur] /\ ses[c] = cur /\ calls[cur] = << >>
                               /\ cpc[c] \in {"wait", "parked", "woken"}
      BY <2>a, <1>c, CallerIs DEF SignalCaller, MayUseCaller
    <3>2. opener[cur] = c
      BY <3>1
    <3>3. /\ wait' = [wait EXCEPT ![c] = FALSE]
          /\ cpc' = [cpc EXCEPT ![c] = IF @ = "parked" THEN "woken" ELSE @]
      BY <2>a, <3>2 DEF SignalCaller
    <3>4. wait \in [Clients -> BOOLEAN] /\ cpc \in [Clients -> ClientPCs]
      BY DEF Inv, TypeOK
    <3>5. /\ \A u \in Clients \ {c} : cpc'[u] = cpc[u] /\ wait'[u] = wait[u]
          /\ ~wait'[c] /\ cpc'[c] = IF cpc[c] = "parked" THEN "woken" ELSE cpc[c]
          /\ cpc' \in [Clients -> ClientPCs] /\ wait' \in [Clients -> BOOLEAN]
      BY <3>3, <3>4 DEF ClientPCs
    <3>6. calls[cur] = << >>
      BY <3>1
    <3> QED
      BY <2>a, <3>1, <3>5, <3>6
  <2>b. CASE ~Synchronous(pcall)
    BY <2>b DEF SignalCaller, Inv, TypeOK
  <2> QED
    BY <2>a, <2>b
<1>1. TypeOK'
  BY <1>0, <1>u DEF Inv, TypeOK, ProcessorPCs
<1>2. ASSUME NEW u \in Clients PROVE SesOK(u)'
  BY <1>0, <1>u DEF Inv, SesOK
<1>3. QueueOK' /\ SessionsOK'
  <2>1. QueueOK'
    BY <1>0 DEF Inv, QueueOK
  <2>2. SessionsOK'
    BY <1>0, <1>u DEF Inv, SessionsOK
  <2> QED
    BY <2>1, <2>2
<1>h. ASSUME NEW x
      PROVE  /\ HeldAt(x, ClientPCs)' <=> HeldAt(x, ClientPCs)
             /\ HeldAt(x, {"impersonating"})' <=> HeldAt(x, {"impersonating"})
             /\ HeldAt(x, {"wait", "parked", "woken", "check"})'
                  <=> HeldAt(x, {"wait", "parked", "woken", "check"})
  <2>1. \A u \in Clients : cpc[u] \in ClientPCs /\ cpc'[u] \in ClientPCs
    BY <1>u DEF Inv, TypeOK
  <2>2. HeldAt(x, ClientPCs)' <=> HeldAt(x, ClientPCs)
    BY <2>1, <1>0 DEF HeldAt
  <2> QED
    BY <2>2, <1>u, <1>0 DEF HeldAt
<1>4. OpensOK'
  BY <1>h, <1>0 DEF Inv, OpensOK, OpensBy
<1>5. TakenOK'
  BY <1>0 DEF TakenOK
<1>6. DirtyOK'
  BY <1>0, <1>c DEF Inv, DirtyOK
<1>7. PropagateOK'
  BY <1>h, <1>0, <1>c, <1>u DEF Inv, PropagateOK
<1>8. ASSUME NEW u \in Clients PROVE WaitOK(u)'
  <2>2. CASE cpc'[u] = cpc[u] /\ wait'[u] = wait[u]
    BY <2>2, <1>n, <1>0 DEF Inv, WaitOK, AfterCall, Synchronous
  <2>3. CASE Synchronous(pcall) /\ ses[u] = cur /\ cpc'[u] \in {"wait", "woken"}
    <3>1. Quiet(u)'
      BY <2>3, <1>0, <1>u DEF Quiet
    <3>2. isSubmitted[cur]
      BY <1>c, Pointers
    <3> QED
      BY <2>3, <3>1, <3>2, <1>0 DEF WaitOK, AfterCall
  <2> QED
    BY <2>2, <2>3, <1>u
<1>9. ASSUME NEW x \in Sessions PROVE CallsOK(x)'
  <2>1. CASE Synchronous(pcall) /\ x = cur
    <3>1. calls'[x] = << >>
      BY <2>1, <1>u, <1>0
    <3> QED
      BY <3>1 DEF CallsOK
  <2>2. CASE ~Synchronous(pcall) \/ x # cur
    <3>1. Awaited(x, {"submit", "wait", "parked", "woken"}) => Awaited(x, {"submit", "wait", "parked", "woken"})'
      BY <2>2, <1>u, <1>0 DEF Awaited
    <3> QED
      BY <3>1, <1>0 DEF Inv, CallsOK
  <2> QED
    BY <2>1, <2>2
<1> QED
  BY <1>1, <1>2, <1>3, <1>4, <1>5, <1>6, <1>7, <1>8, <1>9 DEF Inv, EarlyOK

\* The processor removes the session it has executed.
LEMMA RemoveSessionInv ==
  ASSUME Inv, RemoveSession, UNCHANGED <<isImpersonationAllowed, early, undefined>>
  PROVE  Inv'
<1> USE NoneAssumption, BoundsAssumption DEF clientVars
<1>0. /\ UNCHANGED <<opened, opener, isOpen, isSubmitted, calls, logged, isDirty,
                     propagate, clientVars, failed, raised, isImpersonationAllowed, early,
                     undefined>>
      /\ ppc = "remove" /\ ppc' = "idle" /\ cur' = None /\ pcall' = None
      /\ queue' = Tail(queue) /\ freed' = freed \union {cur}
  BY DEF RemoveSession
<1>c. /\ cur # None /\ cur \in 1..opened /\ cur \in Sessions /\ queue # << >>
      /\ cur = queue[1] /\ queue \in Seq(Sessions)
  BY <1>0, Pointers DEF Inv, QueueOK
<1>d. /\ calls[cur] = << >> /\ isOpen[cur] = 0 /\ ~isDirty /\ ~propagate
      /\ early = {} => \A x \in Sessions : ~failed[x]
  BY <1>0 DEF Inv, DirtyOK, PropagateOK
<1>s. ASSUME NEW u \in Clients PROVE ses[u] # cur
  <2>1. ~HeldAt(cur, ClientPCs)
    BY <1>c, <1>d DEF Inv, OpensOK, OpensBy
  <2>2. cpc[u] \in ClientPCs
    BY DEF Inv, TypeOK
  <2> QED
    BY <2>1, <2>2 DEF HeldAt
<1>q. /\ queue' \in Seq(Sessions) /\ Len(queue') = Len(queue) - 1 /\ Len(queue) \in Nat
      /\ \A i \in 1..Len(queue') : queue'[i] = queue[i + 1] /\ i + 1 \in 2..Len(queue)
  BY <1>0, <1>c
<1>1. TypeOK'
  BY <1>0, <1>q, <1>c DEF Inv, TypeOK, ProcessorPCs
<1>2. ASSUME NEW u \in Clients PROVE SesOK(u)'
  BY <1>0, <1>s DEF Inv, SesOK
<1>3. QueueOK'
  <2>1. \A i, j \in 1..Len(queue) : queue[i] = queue[j] => i = j
    BY DEF Inv, QueueOK
  <2>2. ASSUME NEW i \in 1..Len(queue') PROVE /\ i + 1 \in 1..Len(queue) /\ 1 \in 1..Len(queue)
                                              /\ i + 1 # 1 /\ queue'[i] = queue[i + 1]
    BY <1>q
  <2>3. ASSUME NEW i \in 1..Len(queue'), NEW j \in 1..Len(queue'), queue'[i] = queue'[j]
        PROVE  i = j
    <3>1. i + 1 = j + 1
      BY <2>1, <2>2, <2>3
    <3> QED
      BY <3>1, <1>q
  <2>4. ASSUME NEW i \in 1..Len(queue')
        PROVE  queue'[i] \in 1..opened /\ isSubmitted[queue'[i]] /\ queue'[i] \notin freed
               /\ queue'[i] # cur
    BY <2>1, <2>2, <1>c DEF Inv, QueueOK
  <2> QED
    BY <2>3, <2>4, <1>0 DEF QueueOK
<1>4. SessionsOK'
  BY <1>0, <1>c, <1>d DEF Inv, SessionsOK
<1>5. OpensOK'
  <2>1. \A x, P : HeldAt(x, P)' <=> HeldAt(x, P)
    BY <1>0 DEF HeldAt
  <2> QED
    BY <2>1, <1>0 DEF Inv, OpensOK, OpensBy
<1>6. TakenOK' /\ DirtyOK' /\ PropagateOK'
  BY <1>0, <1>d DEF Inv, TakenOK, DirtyOK, PropagateOK
<1>8. ASSUME NEW u \in Clients PROVE WaitOK(u)'
  BY <1>0 DEF Inv, WaitOK, Quiet, AfterCall, Synchronous
<1>9. ASSUME NEW x \in Sessions PROVE CallsOK(x)'
  BY <1>0 DEF Inv, CallsOK, Awaited
<1> QED
  BY <1>1, <1>2, <1>3, <1>4, <1>5, <1>6, <1>8, <1>9 DEF Inv, EarlyOK

\* A step that changes at most is_impersonation_allowed, or that nothing defines.
LEMMA QuietStepInv ==
  ASSUME Inv, UNCHANGED <<sessionVars, processorVars, clientVars, failed, raised, early>>,
         isImpersonationAllowed' \in BOOLEAN, undefined' \in BOOLEAN,
         undefined' => undefined \/ early # {}
  PROVE  Inv'
<1> USE DEF sessionVars, processorVars, clientVars
<1>1. TypeOK'
  BY DEF Inv, TypeOK
<1>2. QueueOK' /\ SessionsOK' /\ DirtyOK'
  BY DEF Inv, QueueOK, SessionsOK, DirtyOK
<1>3. OpensOK' /\ PropagateOK'
  <2>1. \A x, P : HeldAt(x, P)' <=> HeldAt(x, P)
    BY DEF HeldAt
  <2>2. OpensOK'
    BY <2>1 DEF Inv, OpensOK, OpensBy
  <2> QED
    BY <2>1, <2>2 DEF Inv, PropagateOK
<1>4. TakenOK'
  BY DEF Inv, TakenOK, Awaited
<1>5. ASSUME NEW u \in Clients PROVE SesOK(u)' /\ WaitOK(u)'
  BY DEF Inv, SesOK, WaitOK, Quiet, AfterCall, Synchronous
<1>6. ASSUME NEW x \in Sessions PROVE CallsOK(x)'
  BY DEF Inv, CallsOK, Awaited
<1> QED
  BY <1>1, <1>2, <1>3, <1>4, <1>5, <1>6 DEF Inv, EarlyOK

\* Undefined behaviour begins with a synchronous call that returned too early.
LEMMA UndefinedInv ==
  ASSUME Inv, RunIntoUndefined
  PROVE  Inv'
<1>0. /\ UNCHANGED <<sessionVars, processorVars, clientVars, failed, raised, early,
                     isImpersonationAllowed>>
      /\ undefined' = TRUE
  BY DEF RunIntoUndefined
<1>1. early # {}
  <2>1. CASE ppc \in {"execute", "run", "signal"} /\ ~MayUseCaller(pcall)
    BY <2>1, CallerThere DEF MayUseCaller
  <2>2. CASE ppc = "run" /\ \E c \in Clients : cpc[c] = "impersonating"
    BY <2>2 DEF Inv, WaitOK, AfterCall, Quiet
  <2> QED
    BY <2>1, <2>2 DEF RunIntoUndefined
<1> QED
  BY <1>0, <1>1, QuietStepInv DEF Inv, TypeOK

\* A new region has no sessions.
LEMMA InitInv == Init => Inv
<1> SUFFICES ASSUME Init PROVE Inv
  OBVIOUS
<1> USE NoneAssumption, BoundsAssumption
<1>1. TypeOK
  <2>1. /\ opened \in 0..MaxSessions /\ freed \subseteq Sessions
        /\ cur \in Sessions \union {None} /\ pcall \in Kinds \union {None}
        /\ ppc \in ProcessorPCs
    BY DEF Init, ProcessorPCs
  <2>2. /\ isDirty \in BOOLEAN /\ propagate \in BOOLEAN /\ isImpersonationAllowed \in BOOLEAN
        /\ isSubmitted \in [Sessions -> BOOLEAN] /\ failed \in [Sessions -> BOOLEAN]
        /\ wait \in [Clients -> BOOLEAN] /\ live \in [Clients -> BOOLEAN]
        /\ raised \in [Clients -> BOOLEAN] /\ early \subseteq Sessions
        /\ undefined \in BOOLEAN
    BY DEF Init
  <2>3. /\ opener \in [Sessions -> Clients \union {None}]
        /\ isOpen \in [Sessions -> 0..3] /\ logged \in [Sessions -> Nat]
        /\ ses \in [Clients -> Sessions \union {None}]
        /\ sent \in [Clients -> Kinds \union {None}]
    BY DEF Init
  <2>4. cpc \in [Clients -> ClientPCs]
    BY DEF Init, ClientPCs
  <2>5. queue \in Seq(Sessions) /\ calls \in [Sessions -> Seq(Kinds)]
    BY DEF Init
  <2> QED
    BY <2>1, <2>2, <2>3, <2>4, <2>5 DEF TypeOK
<1>2. QueueOK /\ SessionsOK /\ DirtyOK /\ TakenOK
  BY DEF Init, QueueOK, SessionsOK, DirtyOK, TakenOK
<1>3. OpensOK /\ PropagateOK
  <2>1. ASSUME NEW s \in Sessions, NEW P PROVE ~HeldAt(s, P)
    BY DEF Init, HeldAt, Sessions
  <2>2. OpensOK
    BY <2>1 DEF Init, OpensOK, OpensBy
  <2> QED
    BY <2>2 DEF Init, PropagateOK
<1>4. ASSUME NEW c \in Clients PROVE SesOK(c) /\ WaitOK(c)
  BY DEF Init, SesOK, WaitOK, AfterCall
<1>5. ASSUME NEW s \in Sessions PROVE CallsOK(s)
  BY DEF Init, CallsOK
<1> QED
  BY <1>1, <1>2, <1>3, <1>4, <1>5 DEF Inv, EarlyOK, Init

\* Every step keeps the invariant.
LEMMA NextInv == Inv /\ [Next]_vars => Inv'
<1> SUFFICES ASSUME Inv, [Next]_vars PROVE Inv'
  OBVIOUS
<1>t. /\ cpc \in [Clients -> ClientPCs] /\ live \in [Clients -> BOOLEAN]
      /\ isImpersonationAllowed \in BOOLEAN /\ undefined \in BOOLEAN
  BY DEF Inv, TypeOK
<1>1. ASSUME NEW c \in Clients, Client(c) PROVE Inv'
  <2>0. /\ UNCHANGED <<isImpersonationAllowed, undefined>>
        /\ CallDone(c) \/ UNCHANGED early
    BY <1>1 DEF Client
  <2>n. ~CallDone(c) => UNCHANGED <<isImpersonationAllowed, early, undefined>>
    BY <2>0
  <2>p. CallDone(c) => cpc[c] = "woken"
    BY DEF CallDone
  <2>1. CASE OpenSession(c)
    BY <2>n, <2>p, <2>1, OpenSessionInv DEF OpenSession
  <2>2. CASE Leave(c)
    <3>1. /\ cpc[c] = "out" /\ cpc' = [cpc EXCEPT ![c] = "done"]
          /\ UNCHANGED <<sessionVars, processorVars, ses, sent, wait, live, failed, raised>>
      BY <2>2 DEF Leave
    <3>2. /\ cpc' \in [Clients -> ClientPCs] /\ cpc'[c] = "done"
          /\ \A u \in Clients \ {c} : cpc'[u] = cpc[u]
      BY <3>1, <1>t DEF ClientPCs
    <3> QED
      BY <3>1, <3>2, <2>n, <2>p, <1>t, ClientMoves
  <2>3. CASE LogCall(c)
    <3>1. PICK k \in Kinds : (k = "sync" => logged[ses[c]] = 0) /\ AddCall(c, k)
      BY <2>3 DEF LogCall
    <3>2. cpc[c] = "in"
      BY <2>3 DEF LogCall
    <3> QED
      BY <3>1, <3>2, <2>n, <2>p, AddCallInv
  <2>4. CASE SubmitSession(c)
    BY <2>n, <2>p, <2>4, SubmitSessionInv DEF SubmitSession
  <2>5. CASE AwaitCall(c)
    <3>1. /\ cpc[c] = "wait"
          /\ UNCHANGED <<sessionVars, processorVars, ses, sent, wait, failed, raised>>
      BY <2>5 DEF AwaitCall
    <3>2. CASE wait[c]
      <4>1. cpc' = [cpc EXCEPT ![c] = "parked"] /\ UNCHANGED live
        BY <2>5, <3>2 DEF AwaitCall
      <4>2. /\ cpc' \in [Clients -> ClientPCs] /\ cpc'[c] = "parked"
            /\ \A u \in Clients \ {c} : cpc'[u] = cpc[u]
        BY <4>1, <1>t DEF ClientPCs
      <4> QED
        BY <3>1, <3>2, <4>1, <4>2, <2>n, <2>p, <1>t, ClientMoves
    <3>3. CASE ~wait[c]
      <4>1. /\ cpc' = [cpc EXCEPT ![c] = "check"] /\ live' = [live EXCEPT ![c] = FALSE]
        BY <2>5, <3>3 DEF AwaitCall
      <4>2. /\ cpc' \in [Clients -> ClientPCs] /\ cpc'[c] = "check"
            /\ live' \in [Clients -> BOOLEAN]
            /\ \A u \in Clients \ {c} : cpc'[u] = cpc[u] /\ live'[u] = live[u]
            /\ ~live'[c]
        BY <4>1, <1>t DEF ClientPCs
      <4> QED
        BY <3>1, <3>3, <4>2, <2>n, <2>p, ClientMoves
    <3> QED
      BY <3>2, <3>3
  <2>6. CASE CallDone(c)
    <3>1. /\ cpc[c] = "woken"
          /\ cpc' = [cpc EXCEPT ![c] = "check"] /\ live' = [live EXCEPT ![c] = FALSE]
          /\ UNCHANGED <<sessionVars, processorVars, ses, sent, wait, failed, raised>>
          /\ early' = IF wait[c] THEN early \union {ses[c]} ELSE early
      BY <2>6 DEF CallDone
    <3>2. /\ cpc' \in [Clients -> ClientPCs] /\ cpc'[c] = "check"
          /\ live' \in [Clients -> BOOLEAN]
          /\ \A u \in Clients \ {c} : cpc'[u] = cpc[u] /\ live'[u] = live[u]
          /\ ~live'[c]
      BY <3>1, <1>t DEF ClientPCs
    <3> QED
      BY <3>1, <3>2, <2>0, ClientMoves
  <2>7. CASE CheckOutcome(c)
    BY <2>n, <2>p, <2>7, CheckOutcomeInv DEF CheckOutcome
  <2>8. CASE LogBody(c)
    BY <2>n, <2>p, <2>8, AddCallInv DEF LogBody, Kinds
  <2>9. CASE BeginImpersonation(c) \/ EndImpersonation(c)
    BY <2>n, <2>p, <2>9, ImpersonationInv DEF BeginImpersonation, EndImpersonation
  <2>10. CASE CloseSession(c)
    BY <2>n, <2>p, <2>10, CloseSessionInv DEF CloseSession
  <2> QED
    BY <1>1, <2>1, <2>2, <2>3, <2>4, <2>5, <2>6, <2>7, <2>8, <2>9, <2>10 DEF Client
<1>2. CASE Processor
  BY <1>2, TakeSessionInv, NextCallInv, BeginCallInv, EndCallInv, FailCallInv,
     SignalCallerInv, RemoveSessionInv, UndefinedInv DEF Processor
<1>3. CASE SpuriousProcessorWakeup
  BY <1>3, SpuriousWakeupInv
<1>6. ASSUME NEW c \in Clients, SpuriousClientWakeup(c) PROVE Inv'
  <2>1. /\ cpc[c] = "parked" /\ cpc' = [cpc EXCEPT ![c] = "woken"]
        /\ UNCHANGED <<sessionVars, processorVars, isImpersonationAllowed, ses, sent,
                       wait, live, failed, raised, early, undefined>>
    BY <1>6 DEF SpuriousClientWakeup
  <2>2. /\ cpc' \in [Clients -> ClientPCs] /\ cpc'[c] = "woken"
        /\ \A u \in Clients \ {c} : cpc'[u] = cpc[u]
    BY <2>1, <1>t DEF ClientPCs
  <2> QED
    BY <2>1, <2>2, <1>t, ClientMoves
<1>4. CASE SetImpersonationAllowed
  BY <1>4, <1>t, QuietStepInv DEF SetImpersonationAllowed
<1>5. CASE UNCHANGED vars
  BY <1>5, <1>t, QuietStepInv DEF vars
<1> QED
  BY <1>1, <1>2, <1>3, <1>4, <1>5, <1>6 DEF Next, Finished

\* Spec keeps the inductive invariant.
LEMMA SpecInv == Spec => []Inv
BY InitInv, NextInv, PTL DEF Spec

-----------------------------------------------------------------------------

\* The variables stay in their domains; in particular is_open is never more
\* than 3 and never decreased below 0.
THEOREM CallsTypeOK == Spec => []TypeOK
<1>1. Inv => TypeOK
  BY DEF Inv
<1> QED
  BY <1>1, SpecInv, PTL

\* The client of a synchronous call goes on, or executes the call in place of
\* the processor, only when the processor has executed all calls before it and
\* waits in the session (GE_scoop_session_add_call, GE_scoop_call_execute), unless
\* the wait at ge_scoop.c:725 ended by itself for this session; and undefined
\* behaviour begins with such a wait.
THEOREM CallsSynchronousCallsWait == Spec => []SynchronousCallsWait
<1>1. Inv => SynchronousCallsWait
  BY DEF Inv, WaitOK, EarlyOK, SynchronousCallsWait
<1> QED
  BY <1>1, SpecInv, PTL

\* The flags that GE_scoop_session_add_call reads after a synchronous call tell
\* about the exceptions of the session of this client, no more and no less, as
\* long as no synchronous call returned too early.
THEOREM CallsExceptionsReachTheirClient == Spec => []ExceptionsReachTheirClient
<1>1. Inv => ExceptionsReachTheirClient
  <2> SUFFICES ASSUME Inv, early = {}, NEW c \in Clients, cpc[c] = "check"
               PROVE  propagate = raised[c] /\ isDirty = failed[ses[c]]
    BY DEF ExceptionsReachTheirClient
  <2>1. cur = ses[c] /\ ses[c] \in Sessions
    BY Pointers DEF Inv, WaitOK, AfterCall, Quiet
  <2>2. /\ propagate \in BOOLEAN /\ isDirty \in BOOLEAN
        /\ raised[c] \in BOOLEAN /\ failed[ses[c]] \in BOOLEAN
    BY <2>1 DEF Inv, TypeOK
  <2>3. (raised[c] <=> propagate) /\ (failed[ses[c]] <=> isDirty)
    BY <2>1 DEF Inv, DirtyOK, PropagateOK
  <2> QED
    BY <2>2, <2>3
<1> QED
  BY <1>1, SpecInv, PTL

\* The region is dirty, or has an exception to propagate, only within the session
\* whose call failed.
THEOREM CallsCleanBetweenSessions == Spec => []CleanBetweenSessions
<1>1. Inv => CleanBetweenSessions
  BY Pointers DEF Inv, DirtyOK, PropagateOK, CleanBetweenSessions
<1> QED
  BY <1>1, SpecInv, PTL

\* GE_scoop_call_execute executes nothing of a session after an asynchronous call
\* of it failed, until the client was told, as long as no synchronous call
\* returned too early.
THEOREM CallsDirtyCallsIgnored == Spec => []DirtyCallsIgnored
<1>1. Inv => DirtyCallsIgnored
  <2> SUFFICES ASSUME Inv, early = {}, ppc = "run" PROVE ~failed[cur]
    BY DEF DirtyCallsIgnored
  <2>1. cur \in Sessions
    BY Pointers DEF Inv, QueueOK
  <2> QED
    BY <2>1 DEF Inv, DirtyOK
<1> QED
  BY <1>1, SpecInv, PTL

\* The processor signals a synchronization only while its caller waits for it and
\* has not freed it (GE_scoop_call_execute, GE_free_scoop_synchronization), unless
\* a wait for a call of the session ended by itself.
THEOREM CallsSignalIsExpected == Spec => []SignalIsExpected
<1>1. Inv => SignalIsExpected
  BY CallerThere DEF SignalIsExpected
<1> QED
  BY <1>1, SpecInv, PTL

\* A session is given back, by its client or by the processor, only when nobody
\* holds it, nothing is open and no call is left in it.
THEOREM CallsFreedIsFinished == Spec => []FreedIsFinished
<1>1. Inv => FreedIsFinished
  <2> SUFFICES ASSUME Inv PROVE FreedIsFinished
    OBVIOUS
  <2> USE NoneAssumption, BoundsAssumption
  <2>1. \A c \in Clients : ses[c] \notin freed
    <3>1. None \notin freed
      <4>1. freed \subseteq Sessions
        BY DEF Inv, TypeOK
      <4>2. \A s \in Sessions : s \in Nat
        BY DEF Sessions
      <4> QED
        BY <4>1, <4>2
    <3> QED
      BY <3>1, Pointers
  <2>2. ASSUME NEW s \in freed PROVE calls[s] = << >> /\ isOpen[s] = 0
    <3>1. s \in Sessions /\ calls[s] = << >>
      BY DEF Inv, TypeOK, SessionsOK
    <3>2. ~HeldAt(s, ClientPCs) /\ ~HeldAt(s, {"impersonating"})
      BY <2>1 DEF HeldAt
    <3>3. cur # s
      BY <3>1, Pointers DEF Sessions
    <3>4. isOpen[s] = OpensBy(HeldAt(s, ClientPCs)) + OpensBy(HeldAt(s, {"impersonating"}))
                      + OpensBy(cur = s /\ ppc = "run" /\ pcall = "sync")
      BY <3>1 DEF Inv, OpensOK
    <3> QED
      BY <3>1, <3>2, <3>3, <3>4 DEF OpensBy
  <2> QED
    BY <2>1, <2>2 DEF FreedIsFinished
<1> QED
  BY <1>1, SpecInv, PTL
=============================================================================
