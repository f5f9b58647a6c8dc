--------------------- MODULE ScoopPreconditions_proofs ---------------------
(***************************************************************************)
(* Theorems about ScoopPreconditions, for any regions, clients and         *)
(* arguments: a feature starts only when its precondition holds, a client  *)
(* that waits has not locked all it waits for, the lists hold no           *)
(* precondition that was freed, and failed wait conditions notify nobody.  *)
(***************************************************************************)
EXTENDS ScoopPreconditions, FiniteSetTheorems, TLAPS

Types ==
  /\ state \in [Regions -> 0..1]
  /\ holder \in [Regions -> Clients \union {None}]
  /\ stage \in [Regions -> Stages]
  /\ pc \in [Clients -> PCs]
  /\ left \in [Clients -> SUBSET Regions]

\* The regions the client c has locked, from where it is in its code.
Held(c) ==
  (IF pc[c] \in {"outer", "done", "endOuter"} THEN {} ELSE Outer[c]) \union
  (IF pc[c] \in {"evaluate", "body"} THEN Args[c] \ Outer[c] ELSE {}) \union
  (IF pc[c] \in {"release", "end", "endOuter"} THEN left[c] ELSE {})

\* The processors that serve the client c are those of the regions it has
\* locked: sessions are neither left open nor closed under their client.
LocksMatch(c) ==
  \A r \in Regions : (holder[r] = c /\ stage[r] = "serve") <=> r \in Held(c)

\* A feature closes the sessions it opened itself, not those of its callers.
ClosesOwn(c) == pc[c] \in {"release", "end"} => left[c] \subseteq Args[c] \ Outer[c]

\* The body is entered with the precondition true.
EntersSatisfied(c) == pc[c] = "body" => Satisfied(c)

\* Only a client with freshly locked arguments waits.
WaitsFresh(c) == pc[c] \in {"release", "register", "wait"} => Fresh(c) # {}

ClientInv(c) == LocksMatch(c) /\ ClosesOwn(c) /\ EntersSatisfied(c) /\ WaitsFresh(c)

\* The inductive invariant.
Inv == Types /\ \A c \in Clients : ClientInv(c)

-----------------------------------------------------------------------------

\* The initial states satisfy the invariant: nothing is locked.
LEMMA InitInv == Init => Inv
<1> SUFFICES ASSUME Init PROVE Inv
  OBVIOUS
<1>1. Types
  BY DEF Init, Types, Stages, PCs
<1>2. ASSUME NEW c \in Clients PROVE ClientInv(c)
  BY <1>2 DEF Init, ClientInv, LocksMatch, ClosesOwn, EntersSatisfied, WaitsFresh, Held
<1>3. QED
  BY <1>1, <1>2 DEF Inv

\* Granting the regions rs, all idle, to the client d takes them from nobody.
LEMMA GrantTypes ==
  ASSUME Types, NEW d \in Clients, NEW rs, Grant(d, rs)
  PROVE  /\ holder' \in [Regions -> Clients \union {None}]
         /\ stage' \in [Regions -> Stages]
         /\ \A r \in Regions : \A c \in Clients :
              (holder'[r] = c /\ stage'[r] = "serve") <=>
                \/ holder[r] = c /\ stage[r] = "serve"
                \/ r \in rs /\ c = d
  BY NoneAssumption DEF Types, Grant, Stages

\* A step of a client d preserves its own part and that of every other client.
LEMMA LockOuterInv ==
  ASSUME Inv, NEW d \in Clients, LockOuter(d) PROVE Inv'
<1>1. Grant(d, Outer[d]) /\ Types
  BY DEF LockOuter, Inv
<1>2. Types'
  BY <1>1, GrantTypes DEF LockOuter, Types, PCs
<1>3. ASSUME NEW c \in Clients PROVE ClientInv(c)'
  <2>1. ClientInv(c) /\ ClientInv(d)
    BY DEF Inv
  <2>2. LocksMatch(c)'
    BY <1>1, <2>1, GrantTypes, ArgsAssumption
    DEF LockOuter, ClientInv, LocksMatch, Held, Types
  <2>3. QED
    BY <1>1, <2>1, <2>2
    DEF LockOuter, ClientInv, ClosesOwn, EntersSatisfied, WaitsFresh, Satisfied,
        Fresh, Types
<1>4. QED
  BY <1>2, <1>3 DEF Inv

\* The arguments are locked.
LEMMA LockArgumentsInv ==
  ASSUME Inv, NEW d \in Clients, LockArguments(d) PROVE Inv'
<1>1. Grant(d, Args[d] \ Outer[d]) /\ Types
  BY DEF LockArguments, Inv
<1>2. Types'
  BY <1>1, GrantTypes DEF LockArguments, Types, PCs
<1>3. ASSUME NEW c \in Clients PROVE ClientInv(c)'
  <2>1. ClientInv(c) /\ ClientInv(d)
    BY DEF Inv
  <2>2. LocksMatch(c)'
    BY <1>1, <2>1, GrantTypes, ArgsAssumption
    DEF LockArguments, ClientInv, LocksMatch, Held, Types
  <2>3. QED
    BY <1>1, <2>1, <2>2
    DEF LockArguments, ClientInv, ClosesOwn, EntersSatisfied, WaitsFresh, Satisfied,
        Fresh, Types
<1>4. QED
  BY <1>2, <1>3 DEF Inv

\* The steps of a client that neither lock nor close anything.
Quiet(d) ==
  \/ Stop(d) \/ Evaluate(d) \/ AllClosed(d) \/ StartWait(d) \/ Timeout(d) \/ Retry(d)
  \/ \E r \in Regions : AddPrecondition(d, r) \/ RemovePrecondition(d, r)

\* They keep the invariant.
LEMMA QuietInv ==
  ASSUME Inv, NEW d \in Clients, Quiet(d) PROVE Inv'
<1>1. Types /\ UNCHANGED <<state, holder, stage>>
  BY DEF Inv, Quiet, Stop, Evaluate, AllClosed, StartWait, Timeout, Retry,
         AddPrecondition, RemovePrecondition
<1>2. Types'
  BY <1>1, ArgsAssumption
  DEF Quiet, Stop, Evaluate, AllClosed, StartWait, Timeout, Retry, AddPrecondition,
      RemovePrecondition, Types, PCs, Fresh, AfterWait
<1>3. ASSUME NEW c \in Clients, c # d PROVE pc'[c] = pc[c] /\ left'[c] = left[c]
  BY <1>1, <1>3
  DEF Quiet, Stop, Evaluate, AllClosed, StartWait, Timeout, Retry, AddPrecondition,
      RemovePrecondition, Types
<1>4. ASSUME NEW c \in Clients, c # d PROVE ClientInv(c)'
  BY <1>1, <1>3, <1>4
  DEF Inv, ClientInv, LocksMatch, Held, ClosesOwn, EntersSatisfied, WaitsFresh,
      Satisfied, Fresh
<1>5. ClientInv(d)'
  <2>1. ClientInv(d)
    BY DEF Inv
  <2>2. Held(d)' = Held(d)
    BY <1>1, ArgsAssumption
    DEF Quiet, Stop, Evaluate, AllClosed, StartWait, Timeout, Retry, AddPrecondition,
        RemovePrecondition, Types, Held, Fresh, AfterWait
  <2>3. LocksMatch(d)'
    BY <1>1, <2>1, <2>2 DEF ClientInv, LocksMatch
  <2>4. QED
    BY <1>1, <2>1, <2>3
    DEF Quiet, Stop, Evaluate, AllClosed, StartWait, Timeout, Retry, AddPrecondition,
        RemovePrecondition, Types, Fresh, AfterWait, ClientInv, ClosesOwn,
        EntersSatisfied, WaitsFresh, Satisfied
<1>6. QED
  BY <1>2, <1>4, <1>5 DEF Inv

\* The body changes the state of regions nobody else has locked.
LEMMA BodyInv ==
  ASSUME Inv, NEW d \in Clients, Body(d) PROVE Inv'
<1>1. Types
  BY DEF Inv
<1>2. Types'
  BY <1>1, ArgsAssumption DEF Body, Types, PCs
<1>3. ASSUME NEW c \in Clients PROVE ClientInv(c)'
  <2>1. ClientInv(c) /\ ClientInv(d)
    BY DEF Inv
  <2>2. LocksMatch(c)' /\ ClosesOwn(c)' /\ WaitsFresh(c)'
    BY <1>1, <2>1, ArgsAssumption
    DEF Body, ClientInv, LocksMatch, Held, ClosesOwn, WaitsFresh, Types, Fresh
  <2>3. EntersSatisfied(c)'
    <3>1. SUFFICES ASSUME pc'[c] = "body", NEW r \in Args[c] PROVE state'[r] = Wanted[c]
      BY DEF EntersSatisfied, Satisfied
    <3>2. c # d /\ pc[c] = "body" /\ pc[d] = "body" /\ r \in Regions
      BY <1>1, <3>1, ArgsAssumption DEF Body, Types
    <3>3. r \in Held(c) /\ holder[r] = c
      BY <2>1, <3>1, <3>2 DEF ClientInv, LocksMatch, Held
    <3>4. r \notin Args[d]
      BY <2>1, <3>2, <3>3 DEF ClientInv, LocksMatch, Held
    <3>5. QED
      BY <1>1, <2>1, <3>1, <3>2, <3>4 DEF Body, Types, ClientInv, EntersSatisfied, Satisfied
  <2>4. QED
    BY <2>2, <2>3 DEF ClientInv
<1>4. QED
  BY <1>2, <1>3 DEF Inv

\* A session that is closed was one of the client's own.
LEMMA CloseSessionInv ==
  ASSUME Inv, NEW d \in Clients, NEW s \in Regions, CloseSession(d, s) PROVE Inv'
<1>1. Types
  BY DEF Inv
<1>2. Types'
  BY <1>1 DEF CloseSession, Types, Stages
<1>3. ASSUME NEW c \in Clients PROVE ClientInv(c)'
  <2>1. ClientInv(c) /\ ClientInv(d)
    BY DEF Inv
  <2>2. holder[s] = d
    BY <2>1 DEF ClientInv, LocksMatch, Held, CloseSession
  <2>3. LocksMatch(c)'
    BY <1>1, <2>1, <2>2
    DEF CloseSession, ClientInv, LocksMatch, Held, ClosesOwn, Types
  <2>4. QED
    BY <1>1, <2>1, <2>3
    DEF CloseSession, ClientInv, ClosesOwn, EntersSatisfied, WaitsFresh, Satisfied,
        Fresh, Types
<1>4. QED
  BY <1>2, <1>3 DEF Inv

\* A processor only removes sessions that are closed, and wakes clients that wait.
LEMMA ProcessorInv ==
  ASSUME Inv, NEW s \in Regions, Processor(s) PROVE Inv'
<1>1. Types
  BY DEF Inv
<1>2. CASE RemoveSession(s)
  <2>1. Types'
    BY <1>1, <1>2 DEF RemoveSession, Types, Stages
  <2>2. ASSUME NEW c \in Clients PROVE ClientInv(c)'
    BY <1>1, <1>2, NoneAssumption
    DEF RemoveSession, Inv, ClientInv, LocksMatch, Held, ClosesOwn, EntersSatisfied,
        WaitsFresh, Satisfied, Fresh, Types
  <2>3. QED
    BY <2>1, <2>2 DEF Inv
<1>3. CASE NotifyPreconditions(s)
  <2>1. Types'
    BY <1>1, <1>3, ArgsAssumption DEF NotifyPreconditions, Types, Stages, PCs, Fresh
  <2>2. ASSUME NEW c \in Clients PROVE ClientInv(c)'
    <3>1. ClientInv(c)
      BY DEF Inv
    <3>2. \/ pc'[c] = pc[c] /\ left'[c] = left[c]
          \/ pc[c] = "wait" /\ pc'[c] = "unregister"
      BY <1>3 DEF NotifyPreconditions
    <3>3. /\ UNCHANGED <<state, holder>>
          /\ \A r \in Regions : stage'[r] = "serve" <=> stage[r] = "serve"
      BY <1>1, <1>3 DEF NotifyPreconditions, Types
    <3>4. Held(c)' = Held(c)
      BY <3>2 DEF Held
    <3>5. LocksMatch(c)'
      BY <3>1, <3>3, <3>4 DEF ClientInv, LocksMatch
    <3>6. QED
      BY <3>1, <3>2, <3>3, <3>5
      DEF ClientInv, ClosesOwn, EntersSatisfied, WaitsFresh, Satisfied, Fresh
  <2>3. QED
    BY <2>1, <2>2 DEF Inv
<1>4. QED
  BY <1>2, <1>3 DEF Processor

\* A step that changes nothing preserves the invariant.
LEMMA StutterInv == Inv /\ UNCHANGED vars => Inv'
  BY DEF Inv, vars, Types, ClientInv, LocksMatch, Held, ClosesOwn, EntersSatisfied,
         WaitsFresh, Satisfied, Fresh

\* Every step preserves the invariant.
LEMMA NextInv == Inv /\ [Next]_vars => Inv'
<1> SUFFICES ASSUME Inv, [Next]_vars PROVE Inv'
  OBVIOUS
<1>1. ASSUME NEW d \in Clients, Client(d) PROVE Inv'
  <2>1. \/ LockOuter(d) \/ LockArguments(d) \/ Quiet(d) \/ Body(d)
        \/ \E s \in Regions : CloseSession(d, s)
    BY <1>1 DEF Client, Quiet
  <2>2. QED
    BY <2>1, LockOuterInv, LockArgumentsInv, QuietInv, BodyInv, CloseSessionInv
<1>2. ASSUME NEW s \in Regions, Processor(s) PROVE Inv'
  BY <1>2, ProcessorInv
<1>3. CASE UNCHANGED vars
  BY <1>3, StutterInv
<1>4. QED
  BY <1>1, <1>2, <1>3 DEF Next, Finished

\* The invariant holds in every state of the specification.
LEMMA SpecInv == Spec => []Inv
  BY InitInv, NextInv, PTL DEF Spec

\* A feature with a wait condition is executed only when the condition holds,
\* with all regions of its arguments locked, however often its client had to
\* release them, wait and evaluate the condition again.
THEOREM SpecBodyMeetsPrecondition == Spec => []BodyMeetsPrecondition
<1>1. Inv => BodyMeetsPrecondition
  BY ArgsAssumption
  DEF Inv, ClientInv, LocksMatch, Held, EntersSatisfied, BodyMeetsPrecondition
<1>2. QED
  BY <1>1, SpecInv, PTL

\* A client waits only for a condition that others can make true: some region of
\* its arguments is not locked by it, or no longer.
THEOREM SpecWaitsForOthers == Spec => []WaitsForOthers
<1>1. ASSUME Inv, NEW c \in Clients, pc[c] = "wait"
      PROVE  \E r \in Args[c] : holder[r] # c \/ stage[r] # "serve"
  <2>1. ClientInv(c) /\ Held(c) = Outer[c]
    BY <1>1 DEF Inv, Held
  <2>2. PICK r \in Args[c] : r \notin Outer[c]
    BY <1>1, <2>1 DEF ClientInv, WaitsFresh, Fresh
  <2>3. r \in Regions
    BY ArgsAssumption
  <2>4. QED
    BY <2>1, <2>2, <2>3 DEF ClientInv, LocksMatch
<1>2. Inv => WaitsForOthers
  BY <1>1 DEF WaitsForOthers
<1>3. QED
  BY <1>2, SpecInv, PTL

-----------------------------------------------------------------------------
(***************************************************************************)
(* The lists of preconditions.                                             *)
(***************************************************************************)

\* Nobody is twice in the list q.
Distinct(q) == \A i, j \in 1..Len(q) : q[i] = q[j] => i = j

\* The precondition of c is in the list q.
Registered(q, c) == \E i \in 1..Len(q) : q[i] = c

\* A client registers with the regions it has freshly locked.
RegistersFresh == \A c \in Clients : pc[c] = "register" => left[c] \subseteq Fresh(c)

\* Who is in a list: clients that register and were here, that wait, or that
\* unregister and have yet to come here.
ListedWait ==
  \A r \in Regions : \A c \in Clients : Registered(prec[r], c) =>
     /\ pc[c] \in {"register", "wait", "unregister"} /\ r \in Fresh(c)
     /\ pc[c] = "register" => r \notin left[c]
     /\ pc[c] = "unregister" => r \in left[c]

\* Nobody is in a list twice, and where registered clients are.
Lists ==
  /\ prec \in [Regions -> Seq(Clients)]
  /\ \A r \in Regions : Distinct(prec[r])
  /\ RegistersFresh
  /\ ListedWait

\* Appending a client that is not in a list.
LEMMA AppendedIs ==
  ASSUME NEW q \in Seq(Clients), Distinct(q), NEW d \in Clients, ~Registered(q, d)
  PROVE  /\ Append(q, d) \in Seq(Clients)
         /\ Distinct(Append(q, d))
         /\ \A c \in Clients : Registered(Append(q, d), c) => c = d \/ Registered(q, c)
<1>1. \A i \in 1..Len(q) : q[i] # d
  BY DEF Registered
<1> DEFINE m == Append(q, d)
<1>2. /\ m \in Seq(Clients) /\ Len(m) = Len(q) + 1 /\ m[Len(m)] = d
      /\ \A i \in 1..Len(q) : m[i] = q[i]
  OBVIOUS
<1>3. Len(q) \in Nat
  OBVIOUS
<1> HIDE DEF m
<1>4. Distinct(m)
  BY <1>1, <1>2, <1>3 DEF Distinct
<1>5. ASSUME NEW c \in Clients, Registered(m, c) PROVE c = d \/ Registered(q, c)
  <2>1. PICK i \in 1..Len(m) : m[i] = c
    BY <1>5 DEF Registered
  <2>2. CASE i = Len(m)
    BY <1>2, <2>1, <2>2
  <2>3. CASE i # Len(m)
    <3>1. i \in 1..Len(q)
      BY <1>2, <1>3, <2>3
    <3>2. QED
      BY <1>2, <2>1, <3>1 DEF Registered
  <2>4. QED
    BY <2>2, <2>3
<1> QED
  BY <1>2, <1>4, <1>5 DEF m

\* Unlinking the only occurrence of a client in a list.
LEMMA UnregisteredIs ==
  ASSUME NEW q \in Seq(Clients), Distinct(q), NEW d \in Clients
  PROVE  /\ Unregistered(q, d) \in Seq(Clients)
         /\ Distinct(Unregistered(q, d))
         /\ \A c \in Clients : Registered(Unregistered(q, d), c) => c # d /\ Registered(q, c)
<1>1. CASE ~Registered(q, d)
  BY <1>1 DEF Unregistered, Registered
<1>2. CASE Registered(q, d)
  <2>1. PICK p \in 1..Len(q) : q[p] = d
    BY <1>2 DEF Registered
  <2> DEFINE w == [i \in 1..(Len(q) - 1) |-> IF i < p THEN q[i] ELSE q[i+1]]
  <2>2. Unregistered(q, d) = w
    <3>1. Position(q, d) = p
      BY <2>1 DEF Position, Distinct
    <3>2. QED
      BY <1>2, <3>1 DEF Unregistered, Registered, Without
  <2>3. /\ Len(q) \in Nat /\ w \in Seq(Clients) /\ Len(w) = Len(q) - 1
        /\ \A i \in 1..Len(w) : w[i] = IF i < p THEN q[i] ELSE q[i+1]
    BY <2>1
  <2> HIDE DEF w
  <2>4. Distinct(w)
    BY <2>1, <2>3 DEF Distinct
  <2>5. ASSUME NEW c \in Clients, Registered(w, c) PROVE c # d /\ Registered(q, c)
    <3>1. PICK i \in 1..Len(w) : w[i] = c
      BY <1>2, <2>5 DEF Registered
    <3> DEFINE j == IF i < p THEN i ELSE i + 1
    <3>2. j \in 1..Len(q) /\ q[j] = c /\ j # p
      BY <2>1, <2>3, <3>1
    <3> HIDE DEF j
    <3>3. c # d
      BY <2>1, <3>2 DEF Distinct
    <3>4. QED
      BY <3>2, <3>3 DEF Registered
  <2>6. QED
    BY <2>2, <2>3, <2>4, <2>5
<1>3. QED
  BY <1>1, <1>2

\* The lists are empty in the initial states.
LEMMA InitLists == Init => Lists
  BY DEF Init, Lists, Distinct, RegistersFresh, ListedWait, Registered

\* A client registers.
LEMMA AddPreconditionLists ==
  ASSUME Types, Lists, NEW d \in Clients, NEW s \in Regions, AddPrecondition(d, s)
  PROVE  Lists'
<1>1. /\ pc[d] = "register" /\ s \in left[d] /\ s \in Fresh(d)
      /\ ~Registered(prec[s], d)
  BY DEF AddPrecondition, Lists, RegistersFresh, ListedWait
<1>2. prec[s] \in Seq(Clients) /\ Distinct(prec[s])
  BY DEF Lists
<1>3. /\ prec' = [prec EXCEPT ![s] = Append(prec[s], d)]
      /\ left' = [left EXCEPT ![d] = left[d] \ {s}]
      /\ pc' = pc
  BY DEF AddPrecondition
<1>4. /\ prec'[s] = Append(prec[s], d)
      /\ \A r \in Regions : r # s => prec'[r] = prec[r]
      /\ left'[d] = left[d] \ {s}
      /\ \A c \in Clients : c # d => left'[c] = left[c]
  BY <1>3 DEF Lists, Types
<1>5. prec' \in [Regions -> Seq(Clients)] /\ \A r \in Regions : Distinct(prec'[r])
  BY <1>1, <1>2, <1>3, <1>4, AppendedIs DEF Lists
<1>6. RegistersFresh'
  BY <1>3, <1>4 DEF Lists, RegistersFresh, Fresh
<1>7. ASSUME NEW r \in Regions, NEW c \in Clients, Registered(prec'[r], c)
      PROVE  (c = d /\ r = s) \/ Registered(prec[r], c)
  <2>1. CASE r = s
    <3>1. Registered(Append(prec[s], d), c)
      BY <1>4, <1>7, <2>1
    <3>2. c = d \/ Registered(prec[s], c)
      BY <1>1, <1>2, <3>1, AppendedIs
    <3>3. QED
      BY <2>1, <3>2
  <2>2. CASE r # s
    BY <1>4, <1>7, <2>2
  <2>3. QED
    BY <2>1, <2>2
<1>8. ListedWait'
  <2> SUFFICES ASSUME NEW r \in Regions, NEW c \in Clients, Registered(prec'[r], c)
               PROVE  /\ pc[c] \in {"register", "wait", "unregister"} /\ r \in Fresh(c)
                      /\ pc[c] = "register" => r \notin left'[c]
                      /\ pc[c] = "unregister" => r \in left'[c]
    BY <1>3 DEF ListedWait, Fresh
  <2> QED
    BY <1>1, <1>4, <1>7 DEF Lists, ListedWait
<1>9. QED
  BY <1>5, <1>6, <1>8 DEF Lists

\* A client withdraws its precondition.
LEMMA RemovePreconditionLists ==
  ASSUME Types, Lists, NEW d \in Clients, NEW s \in Regions, RemovePrecondition(d, s)
  PROVE  Lists'
<1>1. prec[s] \in Seq(Clients) /\ Distinct(prec[s]) /\ pc[d] = "unregister"
  BY DEF Lists, RemovePrecondition
<1>2. /\ prec' = [prec EXCEPT ![s] = Unregistered(prec[s], d)]
      /\ left' = [left EXCEPT ![d] = left[d] \ {s}]
      /\ pc' = pc
  BY DEF RemovePrecondition
<1>3. /\ prec'[s] = Unregistered(prec[s], d)
      /\ \A r \in Regions : r # s => prec'[r] = prec[r]
      /\ left'[d] = left[d] \ {s}
      /\ \A c \in Clients : c # d => left'[c] = left[c]
  BY <1>2 DEF Lists, Types
<1>4. prec' \in [Regions -> Seq(Clients)] /\ \A r \in Regions : Distinct(prec'[r])
  BY <1>1, <1>2, <1>3, UnregisteredIs DEF Lists
<1>5. RegistersFresh'
  BY <1>2, <1>3 DEF Lists, RegistersFresh, Fresh
<1>6. ASSUME NEW r \in Regions, NEW c \in Clients, Registered(prec'[r], c)
      PROVE  Registered(prec[r], c) /\ ~(c = d /\ r = s)
  BY <1>1, <1>3, <1>6, UnregisteredIs
<1>7. ListedWait'
  <2> SUFFICES ASSUME NEW r \in Regions, NEW c \in Clients, Registered(prec'[r], c)
               PROVE  /\ pc[c] \in {"register", "wait", "unregister"} /\ r \in Fresh(c)
                      /\ pc[c] = "register" => r \notin left'[c]
                      /\ pc[c] = "unregister" => r \in left'[c]
    BY <1>2 DEF ListedWait, Fresh
  <2> QED
    BY <1>1, <1>3, <1>6 DEF Lists, ListedWait
<1>8. QED
  BY <1>4, <1>5, <1>7 DEF Lists

\* A step of a client that leaves the lists alone.
LEMMA OtherClientLists ==
  ASSUME Types, Lists, NEW d \in Clients, Client(d), UNCHANGED prec,
         ~\E r \in Regions : AddPrecondition(d, r) \/ RemovePrecondition(d, r)
  PROVE  Lists'
<1>1. \A c \in Clients : c # d => pc'[c] = pc[c] /\ left'[c] = left[c]
  BY DEF Client, LockOuter, Stop, LockArguments, Evaluate, Body, AllClosed, StartWait,
         Timeout, Retry, CloseSession, AddPrecondition, RemovePrecondition, Types
<1>2. pc[d] \in {"register", "wait", "unregister"} =>
        \/ pc[d] = "register" /\ left[d] = {} /\ pc'[d] = "wait"
        \/ pc[d] = "wait" /\ pc'[d] = "unregister" /\ left'[d] = Fresh(d)
        \/ pc[d] = "unregister" /\ left[d] = {}
  BY DEF Client, LockOuter, Stop, LockArguments, Evaluate, Body, AllClosed, StartWait,
         Timeout, Retry, CloseSession, Types
<1>3. pc'[d] = "register" => left'[d] = Fresh(d)
  BY DEF Client, LockOuter, Stop, LockArguments, Evaluate, Body, AllClosed, StartWait,
         Timeout, Retry, CloseSession, AfterWait, Types
<1>4. RegistersFresh'
  BY <1>1, <1>3 DEF Lists, RegistersFresh, Fresh
<1>5. ListedWait'
  BY <1>1, <1>2, <1>3 DEF Lists, ListedWait, Fresh
<1>6. QED
  BY <1>4, <1>5 DEF Lists

\* The processors read the lists only.
LEMMA ProcessorLists ==
  ASSUME Types, Lists, NEW s \in Regions, Processor(s) PROVE Lists'
<1>1. \A c \in Clients : \/ pc'[c] = pc[c] /\ left'[c] = left[c]
                         \/ pc[c] = "wait" /\ pc'[c] = "unregister" /\ left'[c] = Fresh(c)
  BY DEF Processor, RemoveSession, NotifyPreconditions
<1>2. prec' = prec
  BY DEF Processor, RemoveSession, NotifyPreconditions
<1>3. RegistersFresh'
  BY <1>1 DEF Lists, RegistersFresh, Fresh
<1>4. ListedWait'
  BY <1>1, <1>2 DEF Lists, ListedWait, Fresh
<1>5. QED
  BY <1>2, <1>3, <1>4 DEF Lists

\* Every step keeps the lists in order.
LEMMA NextLists == Types /\ Lists /\ [Next]_vars => Lists'
<1> SUFFICES ASSUME Types, Lists, [Next]_vars PROVE Lists'
  OBVIOUS
<1>1. ASSUME NEW d \in Clients, Client(d) PROVE Lists'
  <2>1. CASE \E r \in Regions : AddPrecondition(d, r) \/ RemovePrecondition(d, r)
    BY <2>1, AddPreconditionLists, RemovePreconditionLists
  <2>2. CASE ~\E r \in Regions : AddPrecondition(d, r) \/ RemovePrecondition(d, r)
    <3>1. UNCHANGED prec
      BY <1>1, <2>2
      DEF Client, LockOuter, Stop, LockArguments, Evaluate, Body, AllClosed, StartWait,
          Timeout, Retry, CloseSession
    <3>2. QED
      BY <1>1, <2>2, <3>1, OtherClientLists
  <2>3. QED
    BY <2>1, <2>2
<1>2. ASSUME NEW s \in Regions, Processor(s) PROVE Lists'
  BY <1>2, ProcessorLists
<1>3. CASE UNCHANGED vars
  BY <1>3 DEF vars, Lists, RegistersFresh, ListedWait, Fresh
<1>4. QED
  BY <1>1, <1>2, <1>3 DEF Next, Finished

\* The lists are in order in every state of the specification.
LEMMA SpecLists == Spec => []Lists
<1>1. Inv => Types
  BY DEF Inv
<1>2. QED
  BY <1>1, InitLists, NextLists, SpecInv, PTL DEF Spec

\* No list holds a precondition that its client has freed, and none holds one
\* twice: a client is in no list before it registers, and it has left every list
\* it was in when its unregistering is over.
THEOREM SpecNoFreedPrecondition == Spec => []NoFreedPrecondition
<1>1. ASSUME Lists, NEW r \in Regions
      PROVE  /\ \A i, j \in 1..Len(prec[r]) : prec[r][i] = prec[r][j] => i = j
             /\ \A i \in 1..Len(prec[r]) :
                  LET c == prec[r][i]
                  IN  /\ pc[c] \in {"register", "wait", "unregister"} /\ r \in Fresh(c)
                      /\ pc[c] = "register" => r \notin left[c]
                      /\ pc[c] = "unregister" => r \in left[c]
  <2>1. prec[r] \in Seq(Clients) /\ Distinct(prec[r])
    BY <1>1 DEF Lists
  <2>2. ASSUME NEW i \in 1..Len(prec[r])
        PROVE  prec[r][i] \in Clients /\ Registered(prec[r], prec[r][i])
    BY <2>1 DEF Registered
  <2>3. QED
    BY <1>1, <2>1, <2>2 DEF Lists, ListedWait, Distinct
<1>2. Lists => NoFreedPrecondition
  BY <1>1 DEF NoFreedPrecondition
<1>3. QED
  BY <1>2, SpecLists, PTL

-----------------------------------------------------------------------------
(***************************************************************************)
(* Notifications.                                                          *)
(***************************************************************************)

\* The regions whose processors notify, or will, of a session that has ended.
Announcing == {r \in Regions : stage[r] = "notify" \/ (stage[r] = "closed" /\ ~silent[r])}

\* Each notification of a client, and each that is still to come, answers a
\* session that ended otherwise than by a wait condition.
Answers ==
  /\ ended \in Nat
  /\ notified \in [Clients -> Nat]
  /\ silent \in [Regions -> BOOLEAN]
  /\ IsFiniteSet(Announcing)
  /\ \A c \in Clients : notified[c] + Cardinality(Announcing) <= ended

\* Nobody has notified anybody in the initial states.
LEMMA InitAnswers == Init => Answers
<1> SUFFICES ASSUME Init PROVE Answers
  OBVIOUS
<1>1. Announcing = {}
  BY DEF Init, Announcing
<1>2. IsFiniteSet(Announcing) /\ Cardinality(Announcing) = 0
  BY <1>1, FS_EmptySet
<1>3. QED
  BY <1>2 DEF Init, Answers

\* A smaller set of announcing regions with the counters unchanged.
LEMMA FewerAnswers ==
  ASSUME Answers, Announcing' \subseteq Announcing, UNCHANGED <<ended, notified>>,
         silent' \in [Regions -> BOOLEAN]
  PROVE  Answers'
<1>1. IsFiniteSet(Announcing')
  BY FS_Subset DEF Answers
<1>2. /\ Cardinality(Announcing) \in Nat /\ Cardinality(Announcing') \in Nat
      /\ Cardinality(Announcing') <= Cardinality(Announcing)
  BY <1>1, FS_Subset, FS_CardinalityType DEF Answers
<1>3. \A c \in Clients : notified'[c] + Cardinality(Announcing') <= ended'
  BY <1>2 DEF Answers
<1>4. QED
  BY <1>1, <1>3 DEF Answers

\* A session that ends with a wait condition is not announced; any other may be.
LEMMA CloseSessionAnswers ==
  ASSUME Inv, Answers, NEW d \in Clients, NEW s \in Regions, CloseSession(d, s)
  PROVE  Answers'
<1>1. /\ Types
      /\ stage' = [stage EXCEPT ![s] = "closed"]
      /\ silent' = [silent EXCEPT ![s] = (pc[d] = "release")]
      /\ notified' = notified
      /\ ended' = IF pc[d] = "release" THEN ended ELSE ended + 1
  BY DEF Inv, CloseSession, Silent
<1>2. /\ stage'[s] = "closed" /\ (silent'[s] <=> pc[d] = "release")
      /\ \A r \in Regions : r # s => stage'[r] = stage[r] /\ (silent'[r] <=> silent[r])
      /\ silent' \in [Regions -> BOOLEAN]
  <2>1. silent' \in [Regions -> BOOLEAN]
    BY <1>1 DEF Answers
  <2>2. stage'[s] = "closed" /\ \A r \in Regions : r # s => stage'[r] = stage[r]
    BY <1>1 DEF Types
  <2>3. (silent'[s] <=> pc[d] = "release") /\ \A r \in Regions : r # s => (silent'[r] <=> silent[r])
    BY <1>1, Zenon DEF Answers
  <2>4. QED
    BY <2>1, <2>2, <2>3
<1>3. CASE pc[d] = "release"
  <2>1. Announcing' \subseteq Announcing
    BY <1>2, <1>3 DEF Announcing
  <2>2. QED
    BY <1>1, <1>2, <1>3, <2>1, FewerAnswers
<1>4. CASE pc[d] # "release"
  <2>1. Announcing' = Announcing \union {s}
    BY <1>2, <1>4 DEF Announcing
  <2>2. IsFiniteSet(Announcing')
    BY <2>1, FS_AddElement DEF Answers
  <2>3. /\ Cardinality(Announcing) \in Nat /\ Cardinality(Announcing') \in Nat
        /\ Cardinality(Announcing') <= Cardinality(Announcing) + 1
    BY <2>1, <2>2, FS_AddElement, FS_CardinalityType DEF Answers
  <2>4. \A c \in Clients : notified'[c] + Cardinality(Announcing') <= ended'
    BY <1>1, <1>4, <2>3 DEF Answers
  <2>5. QED
    BY <1>1, <1>2, <1>4, <2>2, <2>4 DEF Answers
<1>5. QED
  BY <1>3, <1>4

\* What was announced is no longer, once the waiting clients are woken.
LEMMA NotifyAnswers ==
  ASSUME Types, Answers, NEW s \in Regions, NotifyPreconditions(s) PROVE Answers'
<1>1. /\ stage[s] = "notify" /\ stage' = [stage EXCEPT ![s] = "idle"]
      /\ UNCHANGED <<silent, ended>>
      /\ notified' \in [Clients -> Nat]
      /\ \A c \in Clients : notified'[c] = notified[c] \/ notified'[c] = notified[c] + 1
  BY DEF NotifyPreconditions, Answers
<1>2. Announcing' = Announcing \ {s} /\ s \in Announcing
  BY <1>1 DEF Announcing, Types
<1>3. IsFiniteSet(Announcing')
  BY <1>2, FS_RemoveElement DEF Answers
<1>4. /\ Cardinality(Announcing) \in Nat /\ Cardinality(Announcing') \in Nat
      /\ Cardinality(Announcing') = Cardinality(Announcing) - 1
  BY <1>2, <1>3, FS_RemoveElement, FS_CardinalityType DEF Answers
<1>5. \A c \in Clients : notified'[c] + Cardinality(Announcing') <= ended'
  BY <1>1, <1>4 DEF Answers
<1>6. QED
  BY <1>1, <1>3, <1>5 DEF Answers

\* A session is removed: the notification, if any, is still to come.
LEMMA RemoveSessionAnswers ==
  ASSUME Types, Answers, NEW s \in Regions, RemoveSession(s) PROVE Answers'
<1>1. /\ stage[s] = "closed" /\ UNCHANGED <<ended, notified>>
      /\ \A r \in Regions : r # s => stage'[r] = stage[r]
      /\ stage'[s] = "idle" \/ (stage'[s] = "notify" /\ ~silent[s])
  BY DEF RemoveSession, Types
<1>2. silent' \in [Regions -> BOOLEAN]
  BY DEF RemoveSession, Answers
<1>3. \A r \in Regions : r # s => (silent'[r] <=> silent[r])
  BY Zenon DEF RemoveSession, Answers
<1>4. Announcing' \subseteq Announcing
  BY <1>1, <1>3 DEF Announcing
<1>5. QED
  BY <1>1, <1>2, <1>4, FewerAnswers

\* Every step keeps the account.
LEMMA NextAnswers == Inv /\ Answers /\ [Next]_vars => Answers'
<1> SUFFICES ASSUME Inv, Answers, [Next]_vars PROVE Answers'
  OBVIOUS
<1>1. Types
  BY DEF Inv
<1>2. ASSUME NEW d \in Clients, Client(d) PROVE Answers'
  <2>1. CASE \E s \in Regions : CloseSession(d, s)
    BY <2>1, CloseSessionAnswers
  <2>2. CASE ~\E s \in Regions : CloseSession(d, s)
    <3>1. UNCHANGED <<silent, ended, notified>>
      BY <1>2, <2>2
      DEF Client, LockOuter, Stop, LockArguments, Evaluate, Body, AllClosed, StartWait,
          Timeout, Retry, AddPrecondition, RemovePrecondition
    <3>2. \A r \in Regions : stage'[r] = stage[r] \/ stage'[r] = "serve"
      BY <1>1, <1>2, <2>2
      DEF Client, LockOuter, Stop, LockArguments, Evaluate, Body, AllClosed, StartWait,
          Timeout, Retry, AddPrecondition, RemovePrecondition, Grant, Types
    <3>3. Announcing' \subseteq Announcing
      BY <3>1, <3>2 DEF Announcing
    <3>4. QED
      BY <3>1, <3>3, FewerAnswers DEF Answers
  <2>3. QED
    BY <2>1, <2>2
<1>3. ASSUME NEW s \in Regions, Processor(s) PROVE Answers'
  BY <1>1, <1>3, RemoveSessionAnswers, NotifyAnswers DEF Processor
<1>4. CASE UNCHANGED vars
  BY <1>4 DEF vars, Answers, Announcing
<1>5. QED
  BY <1>2, <1>3, <1>4 DEF Next, Finished

\* Clients whose wait conditions fail do not wake each other: no client is
\* notified more often than sessions have ended because a feature was finished.
THEOREM SpecNoIdleWakeups == Spec => []NoIdleWakeups
<1>1. Answers => NoIdleWakeups
  <2> SUFFICES ASSUME Answers, NEW c \in Clients PROVE notified[c] <= ended
    BY DEF NoIdleWakeups
  <2>1. Cardinality(Announcing) \in Nat
    BY FS_CardinalityType DEF Answers
  <2>2. QED
    BY <2>1 DEF Answers
<1>2. QED
  BY <1>1, InitAnswers, NextAnswers, SpecInv, PTL DEF Spec
=============================================================================
