------------------------- MODULE ScoopLocks_proofs -------------------------
(***************************************************************************)
(* Theorems about ScoopLocks, whatever the regions, the sessions and the   *)
(* depth of the calls: a region is executed by one chain of calls at a     *)
(* time, callbacks are recognized, no chain waits for itself, sessions are *)
(* open as long as they are in a list, and synchronous calls return the    *)
(* locks as they were.  Checked with TLAPS.                                *)
(***************************************************************************)
EXTENDS ScoopLocks, TLAPS

-----------------------------------------------------------------------------
(***************************************************************************)
(* The stack of calls.                                                     *)
(*                                                                         *)
(* c is a chain of frames and K, L, O and Y are the callees of the         *)
(* sessions, the list of the region of the top frame, is_open and          *)
(* is_synchronized.  A frame that waits for a call keeps its view of them: *)
(* the next frame recorded it, and the return has to bring it back.        *)
(***************************************************************************)

\* What the region of frame i has, or will have again, in its list, and how
\* often each session is open and synchronized.
ListAt(c, L, i) == IF i = Len(c) THEN L ELSE c[i+1].held
OpenAt(c, O, i) == IF i = Len(c) THEN O ELSE c[i+1].open
SyncAt(c, Y, i) == IF i = Len(c) THEN Y ELSE c[i+1].sync

\* o holds the session for the caller that the caller of frame i passed.
PassedOwn(c, K, i, o) ==
  IF i = 1 THEN o = {} ELSE \E s \in Sessions : o = {s} /\ K[s] = c[i-1].region

\* Each session in the list H of a frame f is open once for each time that f
\* opened it, as often as it was open for the caller, and once more because it
\* was passed; it is synchronized once more if it was already or if it is the
\* one for the caller.
Account(f, o, H, O, Y) ==
  /\ H = f.held \union o \union {s \in Sessions : f.opened[s] > 0}
  /\ \A s \in H : O[s] = f.opened[s] + f.open[s] + (IF s \in f.held \union o THEN 1 ELSE 0)
  /\ \A s \in H : Y[s] = f.sync[s] + (IF s \in o \/ f.sync[s] > 0 THEN 1 ELSE 0)

\* A list has one session for a callee at most.
OnePerCallee(K, H) == \A x, y \in H : K[x] = K[y] => x = y

\* The sessions in the list H of frame i that are synchronized are those for its
\* callers.
SyncIsCallers(c, K, H, Y, i) ==
  /\ \A j \in 1..(i-1) : \E s \in H : Y[s] > 0 /\ K[s] = c[j].region
  /\ \A s \in H : Y[s] > 0 => \E j \in 1..(i-1) : K[s] = c[j].region

\* What a frame opens, and whom it calls.
OwnDoings(c, K, i) ==
  LET f == c[i]
  IN  /\ \A s \in Sessions : f.opened[s] > 0 => K[s] # f.region
      /\ f.target # None => f.opened[f.target] > 0
      /\ i < Len(c) => f.target # None /\ K[f.target] = c[i+1].region

\* What frame i got from its caller.
Inherits(c, i) ==
  LET f == c[i]
  IN  /\ i = 1 => f.held = {}
      /\ \A s \in Sessions \ f.held : f.open[s] = 0 /\ f.sync[s] = 0
      /\ \A j \in 1..i : c[j].held \subseteq f.held

FrameOK(c, K, L, O, Y, i) ==
  /\ \E o \in SUBSET Sessions :
       /\ PassedOwn(c, K, i, o)
       /\ Account(c[i], o, ListAt(c, L, i), OpenAt(c, O, i), SyncAt(c, Y, i))
  /\ OnePerCallee(K, ListAt(c, L, i))
  /\ SyncIsCallers(c, K, ListAt(c, L, i), SyncAt(c, Y, i), i)
  /\ OwnDoings(c, K, i)
  /\ Inherits(c, i)

Stack(c, K, L, O, Y) == \A i \in 1..Len(c) : FrameOK(c, K, L, O, Y, i)

-----------------------------------------------------------------------------
(***************************************************************************)
(* The inductive invariant.                                                *)
(***************************************************************************)

\* A region that a chain of another one has called waits for it: its processor
\* serves the session of the call, which the callers hold and in which nothing
\* is pending.
Served(p) ==
  /\ chain[p][1].region = p
  /\ \A i \in 2..Len(chain[p]) :
       LET r == chain[p][i].region
       IN  r # p => /\ serving[r] \in chain[p][i].held
                    /\ callee[serving[r]] = r
                    /\ pending[serving[r]] = 0

ChainOK(p) ==
  chain[p] # << >> =>
    Stack(chain[p], callee, locked[Top(p).region], isOpen, isSync) /\ Served(p)

\* The lists belong to the regions whose code runs.
Lists ==
  /\ \A r1, r2 \in Regions : r1 # r2 => locked[r1] \cap locked[r2] = {}
  /\ \A r \in Regions : locked[r] # {} =>
       \E p \in Regions : chain[p] # << >> /\ Top(p).region = r

\* Only sessions in a list are open, and they were not freed; those allocated have
\* a callee.
Opened ==
  /\ \A s \in Sessions : isOpen[s] > 0 =>
       s \notin freed /\ \E r \in Regions : s \in locked[r]
  /\ \A s \in Sessions : s > allocated => isOpen[s] = 0 /\ isSync[s] = 0
  /\ \A s \in 1..allocated : callee[s] \in Regions

\* The code of a region is executed by one chain at a time.
Apart ==
  \A p, q \in Regions : p # q =>
    \A i \in 1..Len(chain[p]), j \in 1..Len(chain[q]) :
      chain[p][i].region # chain[q][j].region

Inv == TypeOK /\ Lists /\ Opened /\ Apart /\ \A p \in Regions : ChainOK(p)

-----------------------------------------------------------------------------
(***************************************************************************)
(* Lemmas about accounts.                                                  *)
(***************************************************************************)

\* Sessions in an accounted list are open.
LEMMA AccountPositive ==
  ASSUME NEW f \in Frames, NEW o \in SUBSET Sessions, NEW H, NEW O, NEW Y,
         Account(f, o, H, O, Y)
  PROVE  /\ \A s \in H : O[s] > 0
         /\ f.held \subseteq H /\ o \subseteq H
         /\ \A s \in Sessions : f.opened[s] > 0 => s \in H
  BY DEF Account, Frames

\* A session s is opened once more.
LEMMA OpenAccount ==
  ASSUME NEW f \in Frames, NEW o \in SUBSET Sessions, NEW H \in SUBSET Sessions,
         NEW O \in [Sessions -> Nat], NEW Y \in [Sessions -> Nat], Account(f, o, H, O, Y),
         NEW s \in Sessions, s \in H \/ (O[s] = 0 /\ Y[s] = 0),
         \A x \in Sessions \ f.held : f.open[x] = 0 /\ f.sync[x] = 0,
         NEW g \in Frames, g.held = f.held, g.open = f.open, g.sync = f.sync,
         g.opened = [f.opened EXCEPT ![s] = @ + 1]
  PROVE  Account(g, o, H \union {s}, [O EXCEPT ![s] = @ + 1], Y)
<1> DEFINE P == [O EXCEPT ![s] = @ + 1]
<1>1. /\ f.opened \in [Sessions -> Nat] /\ f.open \in [Sessions -> Nat]
      /\ f.sync \in [Sessions -> Nat] /\ f.held \subseteq H /\ o \subseteq H
      /\ f.held \subseteq Sessions
  BY AccountPositive DEF Frames
<1>2. /\ g.opened[s] = f.opened[s] + 1 /\ P[s] = O[s] + 1
      /\ \A x \in Sessions : x # s => g.opened[x] = f.opened[x] /\ P[x] = O[x]
  BY <1>1
<1>3. H \union {s} = g.held \union o \union {x \in Sessions : g.opened[x] > 0}
  BY <1>1, <1>2 DEF Account
<1> HIDE DEF P
<1>4. ASSUME NEW x \in H \union {s}
      PROVE  /\ P[x] = g.opened[x] + g.open[x] + (IF x \in g.held \union o THEN 1 ELSE 0)
             /\ Y[x] = g.sync[x] + (IF x \in o \/ g.sync[x] > 0 THEN 1 ELSE 0)
  <2>1. CASE x \in H
    BY <1>1, <1>2, <2>1 DEF Account
  <2>2. CASE x \notin H
    <3>1. x = s /\ x \notin f.held \union o /\ f.opened[x] = 0
      BY <1>1, <1>4, <2>2 DEF Account
    <3>2. QED
      BY <1>1, <1>2, <2>2, <3>1
  <2>3. QED
    BY <2>1, <2>2
<1>5. QED
  BY <1>3, <1>4 DEF Account, P

\* Those of the sessions ss that are open once.
OpenOnce(O, ss) == {x \in ss : O[x] = 1}

\* The frame f closes a session s that it has opened, and becomes g.
Closes(f, g, s, O, P) ==
  /\ g.held = f.held /\ g.open = f.open /\ g.sync = f.sync
  /\ f.opened[s] > 0 /\ g.opened[s] = f.opened[s] - 1 /\ P[s] = O[s] - 1
  /\ \A x \in Sessions : x # s => g.opened[x] = f.opened[x] /\ P[x] = O[x]

\* A session that f has opened and that is open once is not synchronized.
LEMMA OpenedOnceIsOwn ==
  ASSUME NEW f \in Frames, NEW o \in SUBSET Sessions, NEW H \in SUBSET Sessions,
         NEW O, NEW Y, Account(f, o, H, O, Y),
         \A x \in Sessions \ f.held : f.open[x] = 0 /\ f.sync[x] = 0,
         NEW s \in Sessions, f.opened[s] > 0
  PROVE  O[s] = 1 => f.opened[s] = 1 /\ s \notin f.held \union o /\ f.sync[s] = 0 /\ Y[s] = 0
  BY AccountPositive DEF Frames, Account

\* A session s that f has opened is closed once.
LEMMA CloseAccount ==
  ASSUME NEW f \in Frames, NEW o \in SUBSET Sessions, NEW H \in SUBSET Sessions,
         NEW O \in [Sessions -> Nat], NEW Y \in [Sessions -> Nat], Account(f, o, H, O, Y),
         \A x \in Sessions \ f.held : f.open[x] = 0 /\ f.sync[x] = 0,
         NEW s \in Sessions, NEW g \in Frames, NEW P \in [Sessions -> Nat],
         Closes(f, g, s, O, P)
  PROVE  Account(g, o, H \ OpenOnce(O, {s}), P, Y)
<1>1. /\ f.opened \in [Sessions -> Nat] /\ f.open \in [Sessions -> Nat]
      /\ f.sync \in [Sessions -> Nat] /\ f.held \subseteq H /\ o \subseteq H
      /\ f.held \subseteq Sessions /\ s \in H
  BY AccountPositive DEF Frames, Closes
<1>2. /\ g.held = f.held /\ g.open = f.open /\ g.sync = f.sync
      /\ f.opened[s] > 0 /\ g.opened[s] = f.opened[s] - 1 /\ P[s] = O[s] - 1
      /\ \A x \in Sessions : x # s => g.opened[x] = f.opened[x] /\ P[x] = O[x]
  BY DEF Closes
<1>3. O[s] = f.opened[s] + f.open[s] + (IF s \in f.held \union o THEN 1 ELSE 0)
  BY <1>1 DEF Account
<1>4. CASE O[s] = 1
  <2>1. f.opened[s] = 1 /\ s \notin f.held \union o
    BY <1>1, <1>2, <1>4, OpenedOnceIsOwn
  <2>3. H \ {s} = g.held \union o \union {x \in Sessions : g.opened[x] > 0}
    BY <1>1, <1>2, <2>1 DEF Account
  <2>4. \A x \in H \ {s} :
          /\ P[x] = g.opened[x] + g.open[x] + (IF x \in g.held \union o THEN 1 ELSE 0)
          /\ Y[x] = g.sync[x] + (IF x \in o \/ g.sync[x] > 0 THEN 1 ELSE 0)
    BY <1>1, <1>2 DEF Account
  <2>5. H \ OpenOnce(O, {s}) = H \ {s}
    BY <1>4 DEF OpenOnce
  <2>6. QED
    BY <2>3, <2>4, <2>5 DEF Account
<1>5. CASE O[s] # 1
  <2>1. H \ OpenOnce(O, {s}) = H
    BY <1>5 DEF OpenOnce
  <2>2. s \in g.held \union o \/ g.opened[s] > 0
    BY <1>1, <1>2, <1>3, <1>5
  <2>3. H = g.held \union o \union {x \in Sessions : g.opened[x] > 0}
    BY <1>1, <1>2, <2>2 DEF Account
  <2>4. \A x \in H :
          /\ P[x] = g.opened[x] + g.open[x] + (IF x \in g.held \union o THEN 1 ELSE 0)
          /\ Y[x] = g.sync[x] + (IF x \in o \/ g.sync[x] > 0 THEN 1 ELSE 0)
    BY <1>1, <1>2, <1>3 DEF Account
  <2>5. QED
    BY <1>5, <2>1, <2>3, <2>4 DEF Account
<1>6. QED
  BY <1>4, <1>5

\* is_open and is_synchronized, P and Z, once the list L was passed together with
\* the session w.
Passes(L, w, O, Y, P, Z) ==
  \A s \in L \union {w} :
     /\ P[s] = O[s] + 1
     /\ Z[s] = Y[s] + (IF s = w \/ (s \in L /\ Y[s] > 0) THEN 1 ELSE 0)

\* The frame g of the call: it has opened nothing, and records what it got.
Records(g, L, O, Y) ==
  /\ g.held = L /\ g.target = None
  /\ \A s \in Sessions : /\ g.opened[s] = 0
                         /\ g.open[s] = IF s \in L THEN O[s] ELSE 0
                         /\ g.sync[s] = IF s \in L THEN Y[s] ELSE 0

\* The list H is passed together with the session w for the caller.
LEMMA PassAccount ==
  ASSUME NEW f \in Frames, NEW H \in SUBSET Sessions,
         NEW O \in [Sessions -> Nat], NEW Y \in [Sessions -> Nat], NEW w \in Sessions,
         w \in H \/ (O[w] = 0 /\ Y[w] = 0),
         Records(f, H, O, Y), NEW P, NEW Z, Passes(H, w, O, Y, P, Z)
  PROVE  Account(f, {w}, H \union {w}, P, Z)
<1>0. /\ f.held = H
      /\ \A s \in Sessions : /\ f.opened[s] = 0
                             /\ f.open[s] = IF s \in H THEN O[s] ELSE 0
                             /\ f.sync[s] = IF s \in H THEN Y[s] ELSE 0
  BY DEF Records
<1>1. H \union {w} = f.held \union {w} \union {x \in Sessions : f.opened[x] > 0}
  BY <1>0
<1>2. ASSUME NEW x \in H \union {w}
      PROVE  /\ P[x] = f.opened[x] + f.open[x] + (IF x \in f.held \union {w} THEN 1 ELSE 0)
             /\ Z[x] = f.sync[x] + (IF x \in {w} \/ f.sync[x] > 0 THEN 1 ELSE 0)
  <2>1. /\ x \in Sessions /\ P[x] = O[x] + 1 /\ O[x] \in Nat /\ Y[x] \in Nat
        /\ Z[x] = Y[x] + (IF x = w \/ (x \in H /\ Y[x] > 0) THEN 1 ELSE 0)
    BY DEF Passes
  <2>2. CASE x \in H
    BY <1>0, <2>1, <2>2
  <2>3. CASE x \notin H
    BY <1>0, <2>1, <2>3
  <2>4. QED
    BY <2>2, <2>3
<1>3. QED
  BY <1>1, <1>2 DEF Account

\* is_open and is_synchronized, P and Z, once the list L was released.
Releases(L, O, Y, P, Z) ==
  \A s \in L : P[s] = O[s] - 1 /\ Z[s] = IF Y[s] > 0 THEN Y[s] - 1 ELSE Y[s]

\* The frame f has nothing open.
HasClosed(f) == \A s \in Sessions : f.opened[s] = 0

\* The frame f recorded the sessions it holds, all of them open.
HasRecorded(f) ==
  /\ \A s \in f.held : f.open[s] > 0
  /\ \A s \in Sessions \ f.held : f.open[s] = 0 /\ f.sync[s] = 0

\* What the return of the frame f gives back to the caller.
GivesBack(f, L, O, P, Z) ==
  /\ L \ OpenOnce(O, L) = f.held /\ f.held \subseteq L
  /\ \A s \in f.held : P[s] = f.open[s] /\ Z[s] = f.sync[s]

\* The list is released: the caller gets back what it passed.
LEMMA ReleaseAccount ==
  ASSUME NEW f \in Frames, NEW o \in SUBSET Sessions, NEW H \in SUBSET Sessions,
         NEW O \in [Sessions -> Nat], NEW Y \in [Sessions -> Nat],
         Account(f, o, H, O, Y), HasClosed(f), HasRecorded(f),
         NEW P, NEW Z, Releases(H, O, Y, P, Z)
  PROVE  GivesBack(f, H, O, P, Z)
<1>1. /\ f.opened \in [Sessions -> Nat] /\ f.open \in [Sessions -> Nat]
      /\ f.sync \in [Sessions -> Nat] /\ f.held \subseteq H
      /\ f.held \subseteq Sessions /\ H = f.held \union o
  BY AccountPositive DEF Frames, Account, HasClosed
<1>2. \A s \in H : O[s] = f.open[s] + 1
  BY <1>1 DEF Account, HasClosed
<1>3. H \ OpenOnce(O, H) = f.held
  BY <1>1, <1>2 DEF OpenOnce, HasRecorded
<1>4. \A s \in f.held : (IF Y[s] > 0 THEN Y[s] - 1 ELSE Y[s]) = f.sync[s]
  BY <1>1 DEF Account
<1>5. QED
  <2>1. \A s \in f.held : P[s] = f.open[s]
    BY <1>1, <1>2 DEF Releases
  <2>2. \A s \in f.held : Z[s] = f.sync[s]
    BY <1>1, <1>4 DEF Releases
  <2>3. QED
    BY <1>1, <1>3, <2>1, <2>2 DEF GivesBack

-----------------------------------------------------------------------------
(***************************************************************************)
(* Lemmas about frames and stacks.                                         *)
(***************************************************************************)

\* The view that frame i of the chain c has of its list is the one that frame i
\* of the chain d has.
SameView(c, K, L, O, Y, d, K2, L2, O2, Y2, i) ==
  /\ \A j \in 1..i : d[j].region = c[j].region /\ d[j].held = c[j].held
  /\ d[i].opened = c[i].opened /\ d[i].open = c[i].open /\ d[i].sync = c[i].sync
  /\ ListAt(d, L2, i) = ListAt(c, L, i)
  /\ \A s \in ListAt(c, L, i) :
       /\ K2[s] = K[s] /\ OpenAt(d, O2, i)[s] = OpenAt(c, O, i)[s]
       /\ SyncAt(d, Y2, i)[s] = SyncAt(c, Y, i)[s]

\* What is true of a frame stays true when the chain changes above it, as long as
\* its view stays the same.
LEMMA SameFrame ==
  ASSUME NEW c \in Seq(Frames), NEW K, NEW L, NEW O, NEW Y, NEW i \in 1..Len(c),
         FrameOK(c, K, L, O, Y, i),
         NEW d \in Seq(Frames), NEW K2, NEW L2, NEW O2, NEW Y2, i \in 1..Len(d),
         SameView(c, K, L, O, Y, d, K2, L2, O2, Y2, i), OwnDoings(d, K2, i)
  PROVE  FrameOK(d, K2, L2, O2, Y2, i)
<1> DEFINE H == ListAt(c, L, i)
           P == OpenAt(c, O, i)
           P2 == OpenAt(d, O2, i)
           Z == SyncAt(c, Y, i)
           Z2 == SyncAt(d, Y2, i)
<1>1. /\ ListAt(d, L2, i) = H
      /\ \A s \in H : K2[s] = K[s] /\ P2[s] = P[s] /\ Z2[s] = Z[s]
      /\ d[i].opened = c[i].opened /\ d[i].open = c[i].open /\ d[i].sync = c[i].sync
  BY DEF SameView
<1>2. PICK o \in SUBSET Sessions : PassedOwn(c, K, i, o) /\ Account(c[i], o, H, P, Z)
  BY DEF FrameOK
<1>3. /\ OnePerCallee(K, H) /\ SyncIsCallers(c, K, H, Z, i) /\ Inherits(c, i)
      /\ c[i] \in Frames /\ i \in Nat
  BY DEF FrameOK
<1>4. \A j \in 1..i : d[j].region = c[j].region /\ d[j].held = c[j].held
  BY DEF SameView
<1> HIDE DEF H, P, P2, Z, Z2
<1>5. o \subseteq H
  BY <1>2, <1>3, AccountPositive
<1>6. PassedOwn(d, K2, i, o)
  BY <1>1, <1>2, <1>4, <1>5 DEF PassedOwn
<1>7. Account(d[i], o, H, P2, Z2)
  <2>1. d[i].held = c[i].held
    BY <1>3, <1>4
  <2>2. QED
    BY <1>1, <1>2, <2>1 DEF Account
<1>8. OnePerCallee(K2, H)
  BY <1>1, <1>3 DEF OnePerCallee
<1>9. SyncIsCallers(d, K2, H, Z2, i)
  <2>1. ASSUME NEW j \in 1..(i-1) PROVE \E s \in H : Z2[s] > 0 /\ K2[s] = d[j].region
    <3>1. PICK s \in H : Z[s] > 0 /\ K[s] = c[j].region
      BY <1>3 DEF SyncIsCallers
    <3>2. d[j].region = c[j].region
      BY <1>4
    <3>3. QED
      BY <1>1, <3>1, <3>2
  <2>2. ASSUME NEW s \in H, Z2[s] > 0 PROVE \E j \in 1..(i-1) : K2[s] = d[j].region
    <3>1. PICK j \in 1..(i-1) : K[s] = c[j].region
      BY <1>1, <1>3, <2>2 DEF SyncIsCallers
    <3>2. d[j].region = c[j].region
      BY <1>4
    <3>3. QED
      BY <1>1, <3>1, <3>2
  <2>3. QED
    BY <2>1, <2>2 DEF SyncIsCallers
<1>10. Inherits(d, i)
  BY <1>1, <1>3, <1>4 DEF Inherits
<1>11. QED
  BY <1>1, <1>6, <1>7, <1>8, <1>9, <1>10 DEF FrameOK, P2, Z2

\* Everything a chain holds is in the list of its top frame.
LEMMA StackWithin ==
  ASSUME NEW c \in Seq(Frames), c # << >>, NEW K, NEW L, NEW O, NEW Y,
         Stack(c, K, L, O, Y)
  PROVE  /\ Len(c) \in 1..Len(c)
         /\ \A i \in 1..Len(c) :
              /\ c[i].held \subseteq L /\ ListAt(c, L, i) \subseteq L
              /\ \A s \in Sessions : c[i].opened[s] > 0 => s \in ListAt(c, L, i)
              /\ \A s \in ListAt(c, L, i) : OpenAt(c, O, i)[s] > 0
         /\ L \subseteq Sessions
<1>1. Len(c) \in 1..Len(c) /\ Len(c) \in Nat
  OBVIOUS
<1>2. ASSUME NEW i \in 1..Len(c)
      PROVE  /\ c[i].held \subseteq ListAt(c, L, i) /\ ListAt(c, L, i) \subseteq Sessions
             /\ \A s \in Sessions : c[i].opened[s] > 0 => s \in ListAt(c, L, i)
             /\ \A s \in ListAt(c, L, i) : OpenAt(c, O, i)[s] > 0
  <2>1. PICK o \in SUBSET Sessions :
           Account(c[i], o, ListAt(c, L, i), OpenAt(c, O, i), SyncAt(c, Y, i))
    BY DEF Stack, FrameOK
  <2>2. c[i] \in Frames
    OBVIOUS
  <2>3. ListAt(c, L, i) \subseteq Sessions
    BY <2>1, <2>2 DEF Account, Frames
  <2>4. ASSUME NEW f \in Frames, f = c[i], NEW H, H = ListAt(c, L, i),
               NEW P, P = OpenAt(c, O, i)
        PROVE  /\ f.held \subseteq H
               /\ \A s \in Sessions : f.opened[s] > 0 => s \in H
               /\ \A s \in H : P[s] > 0
    <3>1. Account(f, o, H, P, SyncAt(c, Y, i))
      BY <2>1, <2>4
    <3>2. f.held \subseteq H /\ \A s \in Sessions : f.opened[s] > 0 => s \in H
      BY <3>1 DEF Account
    <3>3. ASSUME NEW s \in H PROVE P[s] > 0
      <4>1. /\ s \in f.held \union o \/ f.opened[s] > 0
            /\ P[s] = f.opened[s] + f.open[s] + (IF s \in f.held \union o THEN 1 ELSE 0)
        BY <3>1 DEF Account
      <4>2. f.opened[s] \in Nat /\ f.open[s] \in Nat
        BY <2>3, <2>4 DEF Frames
      <4>3. QED
        BY <4>1, <4>2
    <3>4. QED
      BY <3>2, <3>3
  <2>5. QED
    BY <2>2, <2>3, <2>4
<1>3. L = ListAt(c, L, Len(c)) /\ c[Len(c)].held \subseteq L
  BY <1>1, <1>2 DEF ListAt
<1>4. ASSUME NEW i \in 1..Len(c) PROVE c[i].held \subseteq L
  <2>1. Inherits(c, Len(c))
    BY <1>1 DEF Stack, FrameOK
  <2>2. c[i].held \subseteq c[Len(c)].held
    BY <2>1 DEF Inherits
  <2>3. QED
    BY <1>3, <2>2
<1>5. ASSUME NEW i \in 1..Len(c) PROVE ListAt(c, L, i) \subseteq L
  <2>1. CASE i = Len(c)
    BY <2>1 DEF ListAt
  <2>2. CASE i # Len(c)
    <3>1. i + 1 \in 1..Len(c)
      BY <1>1, <2>2
    <3>2. QED
      BY <1>4, <2>2, <3>1 DEF ListAt
  <2>3. QED
    BY <2>1, <2>2
<1>6. L \subseteq Sessions
  BY <1>1, <1>2, <1>3
<1>7. QED
  BY <1>1, <1>2, <1>4, <1>5, <1>6

\* A stack does not depend on the sessions outside of its list.
LEMMA SameStack ==
  ASSUME NEW c \in Seq(Frames), c # << >>, NEW K, NEW L, NEW O, NEW Y,
         Stack(c, K, L, O, Y), NEW K2, NEW O2, NEW Y2,
         \A s \in L : K2[s] = K[s] /\ O2[s] = O[s] /\ Y2[s] = Y[s]
  PROVE  Stack(c, K2, L, O2, Y2)
<1> SUFFICES ASSUME NEW i \in 1..Len(c) PROVE FrameOK(c, K2, L, O2, Y2, i)
  BY DEF Stack
<1>1. FrameOK(c, K, L, O, Y, i) /\ OwnDoings(c, K, i)
  BY DEF Stack, FrameOK
<1>2. /\ ListAt(c, L, i) \subseteq L
      /\ \A s \in Sessions : c[i].opened[s] > 0 => s \in L
  BY StackWithin
<1>3. \A s \in ListAt(c, L, i) : /\ K2[s] = K[s] /\ OpenAt(c, O2, i)[s] = OpenAt(c, O, i)[s]
                                 /\ SyncAt(c, Y2, i)[s] = SyncAt(c, Y, i)[s]
  BY <1>2 DEF OpenAt, SyncAt
<1>4. OwnDoings(c, K2, i)
  <2>1. c[i] \in Frames
    OBVIOUS
  <2>2. c[i].target # None => c[i].target \in L
    BY <1>1, <1>2, <2>1 DEF OwnDoings, Frames
  <2>3. QED
    BY <1>1, <1>2, <2>2 DEF OwnDoings
<1>5. SameView(c, K, L, O, Y, c, K2, L, O2, Y2, i)
  BY <1>3 DEF SameView
<1>6. QED
  BY <1>1, <1>4, <1>5, SameFrame

\* The chains c and d are the same up to frame i, and what frame i waits for is.
SameBelow(c, d, i) ==
  /\ i < Len(c) /\ i < Len(d) /\ \A j \in 1..i : d[j] = c[j]
  /\ d[i+1].region = c[i+1].region /\ d[i+1].held = c[i+1].held
  /\ d[i+1].open = c[i+1].open /\ d[i+1].sync = c[i+1].sync

\* The sessions in L have the same callees.
SameCallees(K, K2, L) == \A s \in L : K2[s] = K[s]

\* The frames that wait, when only what the frames above them do has changed.
LEMMA LowerFrame ==
  ASSUME NEW c \in Seq(Frames), NEW K, NEW L, NEW O, NEW Y, Stack(c, K, L, O, Y),
         NEW i \in 1..Len(c), NEW d \in Seq(Frames), SameBelow(c, d, i),
         NEW K2, SameCallees(K, K2, L), NEW L2, NEW O2, NEW Y2
  PROVE  FrameOK(d, K2, L2, O2, Y2, i)
<1>1. /\ i # Len(c) /\ i # Len(d) /\ i \in 1..Len(d) /\ c # << >>
      /\ c[i] \in Frames /\ d[i] = c[i]
  BY DEF SameBelow
<1>2. FrameOK(c, K, L, O, Y, i) /\ OwnDoings(c, K, i)
  BY DEF Stack, FrameOK
<1>3. /\ ListAt(c, L, i) \subseteq L
      /\ \A s \in Sessions : c[i].opened[s] > 0 => s \in L
  BY <1>1, StackWithin
<1>4. ListAt(d, L2, i) = ListAt(c, L, i)
  BY <1>1 DEF ListAt, SameBelow
<1>5. OpenAt(d, O2, i) = OpenAt(c, O, i) /\ SyncAt(d, Y2, i) = SyncAt(c, Y, i)
  BY <1>1 DEF OpenAt, SyncAt, SameBelow
<1>6. OwnDoings(d, K2, i)
  <2>1. c[i].target # None => c[i].target \in L
    BY <1>1, <1>2, <1>3 DEF OwnDoings, Frames
  <2>2. QED
    BY <1>1, <1>2, <1>3, <2>1 DEF OwnDoings, SameBelow, SameCallees
<1>7. SameView(c, K, L, O, Y, d, K2, L2, O2, Y2, i)
  BY <1>1, <1>3, <1>4, <1>5 DEF SameView, SameBelow, SameCallees
<1>8. QED
  BY <1>1, <1>2, <1>6, <1>7, SameFrame

\* The chains c and d differ in what the top frame has opened and whom it calls.
SameButTop(c, d) ==
  /\ Len(d) = Len(c) /\ \A i \in 1..(Len(c) - 1) : d[i] = c[i]
  /\ LET f == c[Len(c)]  g == d[Len(c)]
     IN  g.region = f.region /\ g.held = f.held /\ g.open = f.open /\ g.sync = f.sync

\* s is in the list L, or not in use at all.
Usable(s, L, O, Y) == s \in L \/ (O[s] = 0 /\ Y[s] = 0)

\* The callees K2 give s one that no other session in L has.
Singles(s, L, K, K2) == \A x \in L : K2[x] = K[x] /\ (K2[x] = K2[s] => x = s)

\* The top frame of c opens the session s, which leads to d.
Opens(c, d, s) ==
  /\ SameButTop(c, d) /\ d[Len(c)].target = None
  /\ d[Len(c)].opened = [c[Len(c)].opened EXCEPT ![s] = @ + 1]

\* The top frame opens a session s, one it has already or one that is not in use.
LEMMA OpenStack ==
  ASSUME NEW c \in Seq(Frames), c # << >>, NEW K, NEW L, NEW O \in [Sessions -> Nat],
         NEW Y \in [Sessions -> Nat], Stack(c, K, L, O, Y),
         NEW s \in Sessions, Usable(s, L, O, Y), NEW K2, Singles(s, L, K, K2),
         K2[s] # c[Len(c)].region, NEW d \in Seq(Frames), Opens(c, d, s)
  PROVE  Stack(d, K2, L \union {s}, [O EXCEPT ![s] = @ + 1], Y)
<1> PICK g \in Frames :
      /\ Len(d) = Len(c) /\ \A i \in 1..(Len(c)-1) : d[i] = c[i]
      /\ d[Len(c)] = g /\ g.region = c[Len(c)].region
      /\ g.held = c[Len(c)].held /\ g.open = c[Len(c)].open /\ g.sync = c[Len(c)].sync
      /\ g.target = None /\ g.opened = [c[Len(c)].opened EXCEPT ![s] = @ + 1]
      /\ s \in L \/ (O[s] = 0 /\ Y[s] = 0)
      /\ \A x \in L : K2[x] = K[x] /\ (K2[x] = K2[s] => x = s)
  <2>1. Len(d) = Len(c) /\ d[Len(c)] \in Frames
    BY DEF Opens, SameButTop
  <2>2. QED
    BY <2>1 DEF Opens, SameButTop, Usable, Singles
<1> DEFINE n == Len(c)
           f == c[n]
           P == [O EXCEPT ![s] = @ + 1]
           M == L \union {s}
<1>0. n \in 1..n /\ n \in Nat /\ f \in Frames /\ Len(d) = n /\ d # << >>
  OBVIOUS
<1>1. L \subseteq Sessions /\ f.held \subseteq L
  BY <1>0, StackWithin
<1>2. ASSUME NEW i \in 1..Len(d), i # n PROVE FrameOK(d, K2, M, P, Y, i)
  <2>1. i \in 1..Len(c) /\ i < Len(c) /\ i < Len(d) /\ i + 1 \in 1..Len(c)
    BY <1>0, <1>2
  <2>2. \A j \in 1..i : d[j] = c[j]
    BY <2>1
  <2>3. /\ d[i+1].region = c[i+1].region /\ d[i+1].held = c[i+1].held
        /\ d[i+1].open = c[i+1].open /\ d[i+1].sync = c[i+1].sync
    BY <2>1
  <2>4. SameBelow(c, d, i) /\ SameCallees(K, K2, L)
    BY <2>1, <2>2, <2>3 DEF SameBelow, SameCallees
  <2> HIDE DEF n, P, M
  <2>5. QED
    BY <2>1, <2>4, LowerFrame
<1>3. FrameOK(d, K2, M, P, Y, n)
  <2>1. /\ FrameOK(c, K, L, O, Y, n)
        /\ ListAt(c, L, n) = L /\ OpenAt(c, O, n) = O /\ SyncAt(c, Y, n) = Y
        /\ ListAt(d, M, n) = M /\ OpenAt(d, P, n) = P /\ SyncAt(d, Y, n) = Y
    BY <1>0 DEF Stack, ListAt, OpenAt, SyncAt
  <2>2. PICK o \in SUBSET Sessions : PassedOwn(c, K, n, o) /\ Account(f, o, L, O, Y)
    BY <2>1 DEF FrameOK
  <2>3. Inherits(c, n) /\ OwnDoings(c, K, n) /\ OnePerCallee(K, L) /\ SyncIsCallers(c, K, L, Y, n)
    BY <2>1 DEF FrameOK
  <2>4. \A j \in 1..n : d[j].region = c[j].region /\ d[j].held = c[j].held
    BY <1>0
  <2>5. \A x \in Sessions \ f.held : f.open[x] = 0 /\ f.sync[x] = 0
    BY <2>3 DEF Inherits
  <2>6. Account(g, o, M, P, Y)
    BY <1>0, <1>1, <2>2, <2>5, OpenAccount
  <2>7. PassedOwn(d, K2, n, o)
    <3>1. o \subseteq L
      BY <1>0, <2>2, AccountPositive
    <3>2. CASE n = 1
      BY <2>2, <3>2 DEF PassedOwn
    <3>3. CASE n # 1
      <4>1. PICK x \in Sessions : o = {x} /\ K[x] = c[n-1].region
        BY <2>2, <3>3 DEF PassedOwn
      <4>2. d[n-1].region = c[n-1].region /\ K2[x] = K[x]
        BY <1>0, <2>4, <3>1, <3>3, <4>1
      <4>3. QED
        BY <3>3, <4>1, <4>2 DEF PassedOwn
    <3>4. QED
      BY <3>2, <3>3
  <2>8. OnePerCallee(K2, M)
    BY <2>3 DEF OnePerCallee
  <2>9. SyncIsCallers(d, K2, M, Y, n)
    <3>1. ASSUME NEW j \in 1..(n-1) PROVE \E x \in M : Y[x] > 0 /\ K2[x] = d[j].region
      <4>1. PICK x \in L : Y[x] > 0 /\ K[x] = c[j].region
        BY <2>3 DEF SyncIsCallers
      <4>2. QED
        BY <4>1
    <3>2. ASSUME NEW x \in M, Y[x] > 0 PROVE \E j \in 1..(n-1) : K2[x] = d[j].region
      <4>1. x \in L
        BY <1>1, <3>2
      <4>2. PICK j \in 1..(n-1) : K[x] = c[j].region
        BY <2>3, <3>2, <4>1 DEF SyncIsCallers
      <4>3. QED
        BY <4>1, <4>2
    <3>3. QED
      BY <3>1, <3>2 DEF SyncIsCallers
  <2>10. OwnDoings(d, K2, n)
    <3>1. \A x \in Sessions : f.opened[x] > 0 => x \in L
      BY <1>0, <2>1, StackWithin
    <3>2. ASSUME NEW x \in Sessions, g.opened[x] > 0 PROVE K2[x] # g.region
      <4>1. CASE x = s
        BY <4>1
      <4>2. CASE x # s
        BY <1>0, <2>3, <3>1, <3>2, <4>2 DEF OwnDoings, Frames
      <4>3. QED
        BY <4>1, <4>2
    <3>3. QED
      BY <1>0, <3>2 DEF OwnDoings
  <2>11. Inherits(d, n)
    BY <1>0, <2>3, <2>4 DEF Inherits
  <2>12. QED
    BY <1>0, <2>1, <2>6, <2>7, <2>8, <2>9, <2>10, <2>11 DEF FrameOK
<1>4. QED
  BY <1>0, <1>2, <1>3 DEF Stack

\* The top frame closes a session s that it has open.
LEMMA CloseStack ==
  ASSUME NEW c \in Seq(Frames), c # << >>, NEW K, NEW L, NEW O \in [Sessions -> Nat],
         NEW Y \in [Sessions -> Nat], Stack(c, K, L, O, Y),
         NEW s \in Sessions, NEW P \in [Sessions -> Nat],
         NEW d \in Seq(Frames), SameButTop(c, d), d[Len(c)].target = None,
         Closes(c[Len(c)], d[Len(c)], s, O, P)
  PROVE  Stack(d, K, L \ OpenOnce(O, {s}), P, Y)
<1> /\ Len(d) = Len(c) /\ \A i \in 1..(Len(c)-1) : d[i] = c[i]
    /\ d[Len(c)].region = c[Len(c)].region
  BY DEF SameButTop
<1> DEFINE n == Len(c)
           f == c[n]
           g == d[n]
           M == L \ OpenOnce(O, {s})
<1>0. /\ n \in 1..n /\ n \in Nat /\ Len(d) = n /\ d # << >>
      /\ f \in Frames /\ g \in Frames /\ Closes(f, g, s, O, P)
      /\ g.held = f.held /\ g.open = f.open /\ g.sync = f.sync /\ g.region = f.region
      /\ g.target = None
  BY DEF Closes
<1>1. L \subseteq Sessions /\ f.held \subseteq L
  BY <1>0, StackWithin
<1>2. ASSUME NEW i \in 1..Len(d), i # n PROVE FrameOK(d, K, M, P, Y, i)
  <2>1. i \in 1..Len(c) /\ i < Len(c) /\ i < Len(d) /\ i + 1 \in 1..Len(c)
    BY <1>0, <1>2
  <2>2. \A j \in 1..i : d[j] = c[j]
    BY <2>1
  <2>3. /\ d[i+1].region = c[i+1].region /\ d[i+1].held = c[i+1].held
        /\ d[i+1].open = c[i+1].open /\ d[i+1].sync = c[i+1].sync
    <3>1. i + 1 = n \/ (i + 1 \in 1..(n-1) /\ d[i+1] = c[i+1])
      BY <1>0, <2>1
    <3>2. QED
      BY <1>0, <3>1
  <2>4. SameBelow(c, d, i) /\ SameCallees(K, K, L)
    BY <2>1, <2>2, <2>3 DEF SameBelow, SameCallees
  <2> HIDE DEF n, M
  <2>5. QED
    BY <2>1, <2>4, LowerFrame
<1>3. FrameOK(d, K, M, P, Y, n)
  <2>1. /\ FrameOK(c, K, L, O, Y, n)
        /\ ListAt(c, L, n) = L /\ OpenAt(c, O, n) = O /\ SyncAt(c, Y, n) = Y
        /\ ListAt(d, M, n) = M /\ OpenAt(d, P, n) = P /\ SyncAt(d, Y, n) = Y
    BY <1>0 DEF Stack, ListAt, OpenAt, SyncAt
  <2>2. PICK o \in SUBSET Sessions : PassedOwn(c, K, n, o) /\ Account(f, o, L, O, Y)
    BY <2>1 DEF FrameOK
  <2>3. /\ Inherits(c, n) /\ OwnDoings(c, K, n) /\ OnePerCallee(K, L)
        /\ SyncIsCallers(c, K, L, Y, n)
    BY <2>1 DEF FrameOK
  <2>4. \A j \in 1..n : d[j].region = c[j].region /\ d[j].held = c[j].held
    <3>1. \A j \in 1..n : j = n \/ (j \in 1..(n-1) /\ d[j] = c[j])
      BY <1>0
    <3>2. QED
      BY <1>0, <3>1
  <2>5. \A x \in Sessions \ f.held : f.open[x] = 0 /\ f.sync[x] = 0
    BY <2>3 DEF Inherits
  <2>6. Account(g, o, M, P, Y) /\ (O[s] = 1 => Y[s] = 0)
    <3> HIDE DEF f, g, n
    <3>1. L \in SUBSET Sessions /\ f \in Frames /\ g \in Frames
      BY <1>0, <1>1
    <3>2. Closes(f, g, s, O, P) /\ Account(f, o, L, O, Y)
      BY <1>0, <2>2
    <3>3. Account(g, o, L \ OpenOnce(O, {s}), P, Y)
      BY <2>5, <3>1, <3>2, CloseAccount, Zenon
    <3>4. O[s] = 1 => Y[s] = 0
      <4>1. f.opened[s] > 0
        BY <3>2 DEF Closes
      <4>2. Account(f, o, L, O, Y)
        BY <3>2
      <4>3. /\ f.opened \in [Sessions -> Nat] /\ f.open \in [Sessions -> Nat]
            /\ f.sync \in [Sessions -> Nat] /\ f.held \subseteq Sessions
        BY <3>1 DEF Frames
      <4>4. /\ s \in L
            /\ O[s] = f.opened[s] + f.open[s] + (IF s \in f.held \union o THEN 1 ELSE 0)
            /\ Y[s] = f.sync[s] + (IF s \in o \/ f.sync[s] > 0 THEN 1 ELSE 0)
        BY <4>1, <4>2 DEF Account
      <4>5. s \notin f.held => f.open[s] = 0 /\ f.sync[s] = 0
        BY <2>5
      <4>6. QED
        BY <4>1, <4>3, <4>4, <4>5
    <3>5. QED
      BY <3>3, <3>4
  <2>7. PassedOwn(d, K, n, o)
    BY <1>0, <2>2, <2>4 DEF PassedOwn
  <2>8. OnePerCallee(K, M)
    BY <2>3 DEF OnePerCallee
  <2>9. SyncIsCallers(d, K, M, Y, n)
    <3>1. ASSUME NEW j \in 1..(n-1) PROVE \E x \in M : Y[x] > 0 /\ K[x] = d[j].region
      <4>1. PICK x \in L : Y[x] > 0 /\ K[x] = c[j].region
        BY <2>3 DEF SyncIsCallers
      <4>2. x \in M
        BY <2>6, <4>1 DEF OpenOnce
      <4>3. QED
        BY <4>1, <4>2
    <3>2. ASSUME NEW x \in M, Y[x] > 0 PROVE \E j \in 1..(n-1) : K[x] = d[j].region
      <4>1. PICK j \in 1..(n-1) : K[x] = c[j].region
        BY <2>3, <3>2 DEF SyncIsCallers
      <4>2. QED
        BY <4>1
    <3>3. QED
      BY <3>1, <3>2 DEF SyncIsCallers
  <2>10. OwnDoings(d, K, n)
    <3>1. \A x \in Sessions : g.opened[x] > 0 => f.opened[x] > 0
      BY <1>0 DEF Closes
    <3>2. QED
      BY <1>0, <2>3, <3>1 DEF OwnDoings
  <2>11. Inherits(d, n)
    BY <1>0, <2>3, <2>4 DEF Inherits
  <2>12. QED
    BY <1>0, <2>1, <2>6, <2>7, <2>8, <2>9, <2>10, <2>11 DEF FrameOK
<1>4. QED
  BY <1>0, <1>2, <1>3 DEF Stack

\* The top frame calls synchronously with the session t that it has open.
LEMMA CallStack ==
  ASSUME NEW c \in Seq(Frames), c # << >>, NEW K, NEW L, NEW O, NEW Y,
         Stack(c, K, L, O, Y), NEW t \in Sessions, c[Len(c)].opened[t] > 0,
         NEW d \in Seq(Frames), SameButTop(c, d), d[Len(c)].target = t,
         d[Len(c)].opened = c[Len(c)].opened
  PROVE  Stack(d, K, L, O, Y)
<1> PICK g \in Frames :
      /\ Len(d) = Len(c) /\ \A i \in 1..(Len(c)-1) : d[i] = c[i]
      /\ d[Len(c)] = g /\ g.region = c[Len(c)].region
      /\ g.held = c[Len(c)].held /\ g.open = c[Len(c)].open /\ g.sync = c[Len(c)].sync
      /\ g.target = t /\ g.opened = c[Len(c)].opened
  <2>1. Len(d) = Len(c) /\ d[Len(c)] \in Frames
    BY DEF SameButTop
  <2>2. QED
    BY <2>1 DEF SameButTop
<1> DEFINE n == Len(c)
<1>0. n \in 1..n /\ n \in Nat /\ c[n] \in Frames /\ Len(d) = n /\ d # << >>
  OBVIOUS
<1>1. ASSUME NEW i \in 1..Len(d), i # n PROVE FrameOK(d, K, L, O, Y, i)
  <2>1. i \in 1..Len(c) /\ i < Len(c) /\ i < Len(d) /\ i + 1 \in 1..Len(c)
    BY <1>0, <1>1
  <2>2. \A j \in 1..i : d[j] = c[j]
    BY <2>1
  <2>3. /\ d[i+1].region = c[i+1].region /\ d[i+1].held = c[i+1].held
        /\ d[i+1].open = c[i+1].open /\ d[i+1].sync = c[i+1].sync
    <3>1. i + 1 = n \/ (i + 1 \in 1..(n-1) /\ d[i+1] = c[i+1])
      BY <1>0, <2>1
    <3>2. QED
      BY <3>1
  <2>4. SameBelow(c, d, i) /\ SameCallees(K, K, L)
    BY <2>1, <2>2, <2>3 DEF SameBelow, SameCallees
  <2> HIDE DEF n
  <2>5. QED
    BY <2>1, <2>4, LowerFrame
<1>2. FrameOK(d, K, L, O, Y, n)
  <2>1. FrameOK(c, K, L, O, Y, n) /\ OwnDoings(c, K, n)
    BY <1>0 DEF Stack, FrameOK
  <2>2. \A j \in 1..n : d[j].region = c[j].region /\ d[j].held = c[j].held
    BY <1>0
  <2>3. /\ ListAt(d, L, n) = ListAt(c, L, n)
        /\ OpenAt(d, O, n) = OpenAt(c, O, n) /\ SyncAt(d, Y, n) = SyncAt(c, Y, n)
    BY <1>0 DEF ListAt, OpenAt, SyncAt
  <2>4. OwnDoings(d, K, n)
    BY <1>0, <2>1 DEF OwnDoings
  <2>5. d[n].opened = c[n].opened /\ d[n].open = c[n].open /\ d[n].sync = c[n].sync
    OBVIOUS
  <2>6. n \in 1..Len(c) /\ n \in 1..Len(d)
    BY <1>0
  <2>7. SameView(c, K, L, O, Y, d, K, L, O, Y, n)
    BY <2>2, <2>3, <2>5 DEF SameView
  <2> HIDE DEF n
  <2>8. QED
    BY <2>1, <2>4, <2>6, <2>7, SameFrame
<1>3. QED
  BY <1>0, <1>1, <1>2 DEF Stack

\* The call of the top frame starts: its frame is pushed, with the session w for
\* the caller, one it has already or one that is not in use.
LEMMA PushStack ==
  ASSUME NEW c \in Seq(Frames), c # << >>, NEW K, NEW L, NEW O \in [Sessions -> Nat],
         NEW Y \in [Sessions -> Nat], Stack(c, K, L, O, Y),
         c[Len(c)].target # None,
         NEW w \in Sessions, Usable(w, L, O, Y), NEW K2, Singles(w, L, K, K2),
         K2[w] = c[Len(c)].region,
         NEW d \in Seq(Frames), NEW g \in Frames, d = Append(c, g),
         g.region = K[c[Len(c)].target],
         Records(g, L, O, Y), NEW P, NEW Z, Passes(L, w, O, Y, P, Z)
  PROVE  Stack(d, K2, L \union {w}, P, Z)
<1> /\ Len(d) = Len(c) + 1 /\ \A i \in 1..Len(c) : d[i] = c[i]
    /\ g = d[Len(c) + 1]
    /\ w \in L \/ (O[w] = 0 /\ Y[w] = 0)
    /\ \A x \in L : K2[x] = K[x] /\ (K2[x] = K2[w] => x = w)
  BY DEF Usable, Singles
<1> DEFINE n == Len(c)
           f == c[n]
           M == L \union {w}
<1>0. /\ n \in 1..n /\ n \in Nat /\ f \in Frames /\ Len(d) = n + 1 /\ d # << >>
      /\ n # Len(d) /\ n + 1 = Len(d) /\ n + 1 # 1
  OBVIOUS
<1>1. L \subseteq Sessions /\ f.held \subseteq L
  BY <1>0, StackWithin
<1>2. \A x \in Sessions : f.opened[x] > 0 => x \in L
  BY <1>0, StackWithin DEF ListAt
<1>3. /\ FrameOK(c, K, L, O, Y, n)
      /\ ListAt(c, L, n) = L /\ OpenAt(c, O, n) = O /\ SyncAt(c, Y, n) = Y
      /\ ListAt(d, M, n) = L /\ OpenAt(d, P, n) = g.open /\ SyncAt(d, Z, n) = g.sync
      /\ ListAt(d, M, n+1) = M /\ OpenAt(d, P, n+1) = P /\ SyncAt(d, Z, n+1) = Z
  BY <1>0 DEF Stack, ListAt, OpenAt, SyncAt, Records
<1>4. Inherits(c, n) /\ OwnDoings(c, K, n) /\ OnePerCallee(K, L) /\ SyncIsCallers(c, K, L, Y, n)
  BY <1>3 DEF FrameOK
<1>5. ASSUME NEW i \in 1..Len(d), i < n PROVE FrameOK(d, K2, M, P, Z, i)
  <2>1. i \in 1..Len(c) /\ i < Len(c) /\ i < Len(d) /\ i + 1 \in 1..Len(c)
    BY <1>0, <1>5
  <2>2. \A j \in 1..i : d[j] = c[j]
    BY <2>1
  <2>3. d[i+1] = c[i+1]
    BY <2>1
  <2>4. SameBelow(c, d, i) /\ SameCallees(K, K2, L)
    BY <2>1, <2>2, <2>3 DEF SameBelow, SameCallees
  <2> HIDE DEF n, M
  <2>5. QED
    BY <2>1, <2>4, LowerFrame
<1>6. FrameOK(d, K2, M, P, Z, n)
  <2>1. /\ \A j \in 1..n : d[j].region = c[j].region /\ d[j].held = c[j].held
        /\ d[n] = c[n] /\ n \in 1..Len(c) /\ n \in 1..Len(d)
    BY <1>0
  <2>2. \A s \in L : /\ K2[s] = K[s] /\ g.open[s] = O[s] /\ g.sync[s] = Y[s]
    BY <1>1 DEF Records
  <2>3. OwnDoings(d, K2, n)
    <3>1. f.target \in L
      BY <1>0, <1>2, <1>4 DEF OwnDoings, Frames
    <3>2. K2[f.target] = d[n+1].region
      BY <3>1
    <3>3. QED
      BY <1>0, <1>2, <1>4, <2>1, <3>2 DEF OwnDoings
  <2>4. SameView(c, K, L, O, Y, d, K2, M, P, Z, n)
    BY <1>3, <2>1, <2>2 DEF SameView
  <2> HIDE DEF n, M
  <2>5. QED
    BY <1>3, <2>1, <2>3, <2>4, SameFrame
<1>7. FrameOK(d, K2, M, P, Z, n+1)
  <2>1. PassedOwn(d, K2, n+1, {w}) /\ {w} \in SUBSET Sessions
    BY <1>0 DEF PassedOwn
  <2>2. Account(g, {w}, M, P, Z)
    <3>1. L \in SUBSET Sessions
      BY <1>1
    <3>2. QED
      BY <3>1, PassAccount
  <2>3. OnePerCallee(K2, M)
    BY <1>4 DEF OnePerCallee
  <2>4. SyncIsCallers(d, K2, M, Z, n+1)
    <3>1. \A x \in M : x \in Sessions /\ (Z[x] > 0 <=> x = w \/ Y[x] > 0)
      BY <1>1 DEF Passes
    <3>2. ASSUME NEW j \in 1..(n+1-1) PROVE \E x \in M : Z[x] > 0 /\ K2[x] = d[j].region
      <4>1. CASE j = n
        <5>1. Z[w] > 0 /\ K2[w] = d[j].region
          BY <1>0, <3>1, <4>1
        <5>2. QED
          BY <5>1
      <4>2. CASE j # n
        <5>1. j \in 1..(n-1) /\ d[j] = c[j]
          BY <1>0, <4>2
        <5>2. PICK x \in L : Y[x] > 0 /\ K[x] = c[j].region
          BY <1>4, <5>1 DEF SyncIsCallers
        <5>3. QED
          BY <3>1, <5>1, <5>2
      <4>3. QED
        BY <4>1, <4>2
    <3>3. ASSUME NEW x \in M, Z[x] > 0 PROVE \E j \in 1..(n+1-1) : K2[x] = d[j].region
      <4>1. CASE x = w
        <5>1. n \in 1..(n+1-1)
          BY <1>0
        <5>2. K2[x] = d[n].region
          BY <1>0, <4>1
        <5>3. QED
          BY <5>1, <5>2
      <4>2. CASE x # w
        <5>1. x \in L /\ Y[x] > 0
          BY <3>1, <3>3, <4>2
        <5>2. PICK j \in 1..(n-1) : K[x] = c[j].region
          BY <1>4, <5>1 DEF SyncIsCallers
        <5>3. j \in 1..(n+1-1) /\ d[j] = c[j]
          BY <1>0
        <5>4. QED
          BY <5>1, <5>2, <5>3
      <4>3. QED
        BY <4>1, <4>2
    <3>4. QED
      BY <3>2, <3>3 DEF SyncIsCallers
  <2>5. OwnDoings(d, K2, n+1)
    BY <1>0 DEF OwnDoings, Records
  <2>6. Inherits(d, n+1)
    <3>1. ASSUME NEW j \in 1..(n+1) PROVE d[j].held \subseteq g.held
      <4>1. CASE j = n + 1
        BY <4>1
      <4>2. CASE j # n + 1
        <5>1. j \in 1..Len(c) /\ d[j] = c[j]
          BY <1>0, <4>2
        <5>2. QED
          BY <5>1, StackWithin DEF Records
      <4>3. QED
        BY <4>1, <4>2
    <3>2. \A s \in Sessions \ g.held : g.open[s] = 0 /\ g.sync[s] = 0
      BY DEF Records
    <3>3. QED
      BY <1>0, <3>1, <3>2 DEF Inherits
  <2>7. QED
    BY <1>0, <1>3, <2>1, <2>2, <2>3, <2>4, <2>5, <2>6 DEF FrameOK
<1>8. QED
  <2> SUFFICES ASSUME NEW i \in 1..Len(d) PROVE FrameOK(d, K2, M, P, Z, i)
    BY DEF Stack
  <2>1. i < n \/ i = n \/ i = n + 1
    BY <1>0
  <2>2. QED
    BY <1>5, <1>6, <1>7, <2>1

\* A frame that got nothing, has opened nothing and calls nobody.
HasNothing(g) ==
  /\ g.held = {} /\ g.target = None
  /\ \A s \in Sessions : g.opened[s] = 0 /\ g.open[s] = 0 /\ g.sync[s] = 0

\* A chain starts with such a frame.
LEMMA NewStack ==
  ASSUME NEW g \in Frames, HasNothing(g), NEW K, NEW O, NEW Y
  PROVE  Stack(<<g>>, K, {}, O, Y)
<1>1. /\ <<g>>[1] = g /\ Len(<<g>>) = 1 /\ g.held = {} /\ g.target = None
      /\ \A s \in Sessions : g.opened[s] = 0 /\ g.open[s] = 0 /\ g.sync[s] = 0
  BY DEF HasNothing
<1>2. FrameOK(<<g>>, K, {}, O, Y, 1)
  <2>1. PassedOwn(<<g>>, K, 1, {})
    BY DEF PassedOwn
  <2>2. ListAt(<<g>>, {}, 1) = {}
    BY <1>1 DEF ListAt
  <2>3. Account(g, {}, {}, OpenAt(<<g>>, O, 1), SyncAt(<<g>>, Y, 1))
    BY <1>1 DEF Account
  <2>4. OnePerCallee(K, {}) /\ SyncIsCallers(<<g>>, K, {}, SyncAt(<<g>>, Y, 1), 1)
    BY DEF OnePerCallee, SyncIsCallers
  <2>5. OwnDoings(<<g>>, K, 1) /\ Inherits(<<g>>, 1)
    BY <1>1 DEF OwnDoings, Inherits
  <2>6. QED
    BY <1>1, <2>1, <2>2, <2>3, <2>4, <2>5 DEF FrameOK
<1>3. QED
  BY <1>1, <1>2 DEF Stack

\* The chain d is c without its top frame, and the call of the next frame is over.
Pops(c, d) ==
  /\ Len(d) = Len(c) - 1 /\ \A i \in 1..(Len(c) - 2) : d[i] = c[i]
  /\ LET f == c[Len(c) - 1]  g == d[Len(c) - 1]
     IN  /\ g.region = f.region /\ g.held = f.held /\ g.open = f.open /\ g.sync = f.sync
         /\ g.opened = f.opened /\ g.target = None

\* What the caller gets back when its call returns: the list it passed, each
\* session open and synchronized as it was.
LEMMA ReleasedIs ==
  ASSUME NEW c \in Seq(Frames), Len(c) > 1, NEW K, NEW L, NEW O \in [Sessions -> Nat],
         NEW Y \in [Sessions -> Nat], Stack(c, K, L, O, Y), HasClosed(c[Len(c)]),
         NEW P, NEW Z, Releases(L, O, Y, P, Z)
  PROVE  GivesBack(c[Len(c)], L, O, P, Z)
<1> DEFINE n == Len(c)
           f == c[n]
<1>0. /\ n \in 1..n /\ n - 1 \in 1..n /\ n \in Nat /\ f \in Frames /\ c # << >>
      /\ n - 1 # n /\ n - 1 + 1 = n
  OBVIOUS
<1>1. L \in SUBSET Sessions
  BY <1>0, StackWithin
<1>2. /\ FrameOK(c, K, L, O, Y, n)
      /\ ListAt(c, L, n) = L /\ OpenAt(c, O, n) = O /\ SyncAt(c, Y, n) = Y
  BY <1>0 DEF Stack, ListAt, OpenAt, SyncAt
<1>3. PICK o \in SUBSET Sessions : Account(f, o, L, O, Y)
  BY <1>2 DEF FrameOK
<1>4. HasRecorded(f)
  <2>1. ListAt(c, L, n-1) = f.held /\ OpenAt(c, O, n-1) = f.open
    BY <1>0 DEF ListAt, OpenAt
  <2>2. \A i \in 1..Len(c) : \A s \in ListAt(c, L, i) : OpenAt(c, O, i)[s] > 0
    BY <1>0, StackWithin
  <2>3. \A x \in Sessions \ f.held : f.open[x] = 0 /\ f.sync[x] = 0
    BY <1>2 DEF FrameOK, Inherits
  <2>4. QED
    BY <1>0, <2>1, <2>2, <2>3 DEF HasRecorded
<1>5. QED
  BY <1>0, <1>1, <1>3, <1>4, ReleaseAccount

\* The call of the top frame returns.
LEMMA PopStack ==
  ASSUME NEW c \in Seq(Frames), Len(c) > 1, NEW K, NEW L, NEW O \in [Sessions -> Nat],
         NEW Y \in [Sessions -> Nat], Stack(c, K, L, O, Y),
         HasClosed(c[Len(c)]), NEW P, NEW Z, Releases(L, O, Y, P, Z),
         NEW d \in Seq(Frames), Pops(c, d)
  PROVE  Stack(d, K, c[Len(c)].held, P, Z)
<1> DEFINE n == Len(c)
           m == n - 1
           f == c[n]
<1>0. /\ n \in 1..n /\ m \in 1..n /\ n \in Nat /\ f \in Frames /\ c # << >>
      /\ m # n /\ m + 1 = n /\ Len(c) = n /\ Len(d) = m /\ m \in 1..Len(d)
  BY DEF Pops
<1>1. \A s \in f.held : P[s] = f.open[s] /\ Z[s] = f.sync[s]
  <2>1. GivesBack(f, L, O, P, Z)
    BY ReleasedIs
  <2>2. QED
    BY <2>1 DEF GivesBack
<1>2. ASSUME NEW i \in 1..Len(d), i # m PROVE FrameOK(d, K, f.held, P, Z, i)
  <2>1. i \in 1..Len(c) /\ i < Len(c) /\ i < Len(d) /\ i + 1 \in 1..m
    <3> HIDE DEF n, m
    <3>1. QED
      BY <1>0, <1>2
  <2>2. \A j \in 1..i : d[j] = c[j]
    BY <2>1 DEF Pops
  <2>3. /\ d[i+1].region = c[i+1].region /\ d[i+1].held = c[i+1].held
        /\ d[i+1].open = c[i+1].open /\ d[i+1].sync = c[i+1].sync
    <3>1. i + 1 = m \/ (i + 1 \in 1..(n-2) /\ d[i+1] = c[i+1])
      BY <1>0, <2>1 DEF Pops
    <3>2. QED
      BY <1>0, <3>1 DEF Pops
  <2>4. SameBelow(c, d, i) /\ SameCallees(K, K, L)
    BY <2>1, <2>2, <2>3 DEF SameBelow, SameCallees
  <2> HIDE DEF n, m, f
  <2>5. QED
    BY <2>1, <2>4, LowerFrame
<1>3. FrameOK(d, K, f.held, P, Z, m)
  <2>1. /\ FrameOK(c, K, L, O, Y, m) /\ OwnDoings(c, K, m)
        /\ ListAt(c, L, m) = f.held /\ OpenAt(c, O, m) = f.open /\ SyncAt(c, Y, m) = f.sync
        /\ ListAt(d, f.held, m) = f.held /\ OpenAt(d, P, m) = P /\ SyncAt(d, Z, m) = Z
    BY <1>0 DEF Stack, FrameOK, ListAt, OpenAt, SyncAt
  <2>2. \A j \in 1..m : d[j].region = c[j].region /\ d[j].held = c[j].held
    <3>1. \A j \in 1..m : j = m \/ (j \in 1..(n-2) /\ d[j] = c[j])
      BY <1>0 DEF Pops
    <3>2. QED
      BY <1>0, <3>1 DEF Pops
  <2>3. /\ d[m].opened = c[m].opened /\ d[m].open = c[m].open /\ d[m].sync = c[m].sync
        /\ d[m].region = c[m].region /\ d[m].target = None
    BY <1>0 DEF Pops
  <2>4. OwnDoings(d, K, m)
    <3> HIDE DEF n, m, f
    <3>1. QED
      BY <1>0, <2>1, <2>3 DEF OwnDoings
  <2>5. SameView(c, K, L, O, Y, d, K, f.held, P, Z, m)
    BY <1>1, <2>1, <2>2, <2>3 DEF SameView
  <2> HIDE DEF n, m, f
  <2>6. m \in 1..Len(c)
    BY <1>0 DEF n
  <2>7. QED
    BY <1>0, <2>1, <2>4, <2>5, <2>6, SameFrame
<1>4. QED
  BY <1>0, <1>2, <1>3 DEF Stack

-----------------------------------------------------------------------------
(***************************************************************************)
(* Lemmas about states.                                                    *)
(***************************************************************************)

\* The sessions the chain of p has open.
Has(p) == locked[Top(p).region]

\* The top frame of a chain.
LEMMA TopIs ==
  ASSUME TypeOK, NEW p \in Regions, chain[p] # << >>
  PROVE  /\ chain[p] \in Seq(Frames) /\ Len(chain[p]) \in 1..Len(chain[p])
         /\ Top(p) = chain[p][Len(chain[p])] /\ Top(p) \in Frames
         /\ Top(p).region \in Regions /\ Has(p) \subseteq 1..allocated
         /\ 1..allocated \subseteq Sessions
<1>1. chain[p] \in Seq(Frames)
  BY DEF TypeOK
<1>2. Len(chain[p]) \in 1..Len(chain[p]) /\ chain[p][Len(chain[p])] \in Frames
  BY <1>1
<1>3. Top(p) \in Frames /\ Top(p).region \in Regions
  BY <1>2 DEF Top, Frames
<1>4. 1..allocated \subseteq Sessions
  BY BoundsAssumption DEF TypeOK, Sessions
<1>5. QED
  BY <1>1, <1>2, <1>3, <1>4 DEF Top, TypeOK, Has

\* The chains once the top frame of p is g.
LEMMA WithTopIs ==
  ASSUME TypeOK, NEW p \in Regions, chain[p] # << >>, NEW g \in Frames,
         chain' = WithTop(p, g)
  PROVE  /\ chain' \in [Regions -> Seq(Frames)]
         /\ \A q \in Regions : q # p => chain'[q] = chain[q]
         /\ chain'[p] # << >> /\ Len(chain'[p]) = Len(chain[p])
         /\ \A i \in 1..(Len(chain[p]) - 1) : chain'[p][i] = chain[p][i]
         /\ chain'[p][Len(chain[p])] = g /\ Top(p)' = g
<1> DEFINE c == chain[p]
           d == [c EXCEPT ![Len(c)] = g]
<1>1. c \in Seq(Frames) /\ c # << >> /\ Len(c) \in 1..Len(c) /\ chain \in [Regions -> Seq(Frames)]
  BY TopIs DEF TypeOK
<1> HIDE DEF c
<1>2. /\ d \in Seq(Frames) /\ Len(d) = Len(c) /\ d # << >> /\ d[Len(c)] = g
      /\ \A i \in 1..(Len(c) - 1) : d[i] = c[i]
  BY <1>1
<1>3. chain' = [chain EXCEPT ![p] = d]
  BY DEF WithTop, c
<1> HIDE DEF d
<1>4. /\ chain'[p] = d /\ chain' \in [Regions -> Seq(Frames)]
      /\ \A q \in Regions : q # p => chain'[q] = chain[q]
  BY <1>1, <1>2, <1>3
<1>5. Top(p)' = g
  BY <1>2, <1>4 DEF Top
<1>6. QED
  BY <1>2, <1>4, <1>5 DEF c

\* The top frame of p becomes g, which has the same caller.
ReplacesTop(p, g) ==
  LET f == Top(p)
  IN  /\ chain[p] # << >> /\ chain' = WithTop(p, g)
      /\ g.region = f.region /\ g.held = f.held /\ g.open = f.open /\ g.sync = f.sync

\* The chain of p keeps its frames, perhaps without the top one, except for what
\* these do.
Shortens(p) ==
  /\ \A q \in Regions : q # p => chain'[q] = chain[q]
  /\ 1 <= Len(chain'[p]) /\ Len(chain'[p]) <= Len(chain[p])
  /\ \A i \in 1..Len(chain'[p]) :
       /\ chain'[p][i].region = chain[p][i].region
       /\ chain'[p][i].held = chain[p][i].held

\* What such a step does to the chains.
LEMMA ReplacesTopIs ==
  ASSUME TypeOK, NEW p \in Regions, NEW g \in Frames, ReplacesTop(p, g)
  PROVE  /\ chain' \in [Regions -> Seq(Frames)] /\ chain'[p] \in Seq(Frames)
         /\ chain'[p] # << >> /\ Top(p)' = g /\ chain'[p][Len(chain[p])] = g
         /\ SameButTop(chain[p], chain'[p]) /\ Shortens(p)
         /\ \A q \in Regions : q # p => chain'[q] = chain[q]
<1> DEFINE c == chain[p]
           d == chain'[p]
           n == Len(c)
<1>1. /\ c # << >> /\ c[n].region = g.region /\ c[n].held = g.held /\ c[n].open = g.open
      /\ c[n].sync = g.sync
  BY DEF ReplacesTop, Top
<1>2. /\ chain' \in [Regions -> Seq(Frames)]
      /\ \A q \in Regions : q # p => chain'[q] = chain[q]
      /\ d # << >> /\ Len(d) = n
      /\ \A i \in 1..(n - 1) : d[i] = c[i]
      /\ d[n] = g /\ Top(p)' = g
  BY <1>1, WithTopIs DEF ReplacesTop
<1>3. n \in Nat /\ n \in 1..n /\ chain'[p] \in Seq(Frames)
  BY <1>1, <1>2, TopIs
<1> HIDE DEF c, d, n
<1>4. SameButTop(c, d)
  BY <1>1, <1>2 DEF SameButTop, n
<1>5. Shortens(p)
  <2>1. \A i \in 1..n : i = n \/ (i \in 1..(n-1) /\ d[i] = c[i])
    BY <1>2, <1>3
  <2>2. \A i \in 1..n : d[i].region = c[i].region /\ d[i].held = c[i].held
    BY <1>1, <1>2, <2>1
  <2>3. 1 <= n /\ n <= n
    BY <1>3
  <2>4. QED
    BY <1>2, <2>2, <2>3 DEF Shortens, c, d, n
<1>6. QED
  BY <1>2, <1>3, <1>4, <1>5 DEF c, d, n

\* Two chains hold different sessions.
LEMMA ApartLists ==
  ASSUME Inv, NEW p \in Regions, NEW q \in Regions, p # q, chain[p] # << >>, chain[q] # << >>
  PROVE  Top(p).region # Top(q).region /\ Has(p) \cap Has(q) = {}
<1>1. Top(p).region # Top(q).region
  BY TopIs DEF Inv, Apart
<1>2. Top(p).region \in Regions /\ Top(q).region \in Regions
  BY TopIs DEF Inv
<1>3. QED
  BY <1>1, <1>2 DEF Inv, Lists, Has

\* What a step has to leave alone for the chain of q to stay as it is.
Spares(q) ==
  /\ chain'[q] = chain[q]
  /\ chain[q] # << >> =>
       /\ Has(q)' = Has(q)
       /\ \A s \in Has(q) :
            callee'[s] = callee[s] /\ isOpen'[s] = isOpen[s] /\ isSync'[s] = isSync[s]
       /\ \A i \in 2..Len(chain[q]) : 
            LET r == chain[q][i].region
            IN  r # q => /\ serving'[r] = serving[r]
                         /\ pending'[serving[r]] = pending[serving[r]]

\* A chain that a step spares.
LEMMA SparedChain ==
  ASSUME Inv, NEW q \in Regions, Spares(q)
  PROVE  ChainOK(q)'
<1> SUFFICES ASSUME chain[q] # << >>
             PROVE  Stack(chain[q], callee', Has(q)', isOpen', isSync')
                    /\ Served(q)'
  BY DEF ChainOK, Spares, Has
<1>1. /\ Stack(chain[q], callee, Has(q), isOpen, isSync) /\ Served(q) /\ TypeOK
      /\ chain[q] \in Seq(Frames)
  BY TopIs DEF Inv, ChainOK, Has
<1>2. Stack(chain[q], callee', Has(q)', isOpen', isSync')
  BY <1>1, SameStack DEF Spares
<1>3. \A i \in 1..Len(chain[q]) : chain[q][i].held \subseteq Has(q)
  BY <1>1, StackWithin
<1>4. Served(q)'
  <2>1. ASSUME NEW i \in 2..Len(chain[q]), chain[q][i].region # q
        PROVE  /\ serving'[chain[q][i].region] \in chain[q][i].held
               /\ callee'[serving'[chain[q][i].region]] = chain[q][i].region
               /\ pending'[serving'[chain[q][i].region]] = 0
    <3>1. i \in 1..Len(chain[q])
      BY <2>1
    <3>2. /\ serving[chain[q][i].region] \in chain[q][i].held
          /\ callee[serving[chain[q][i].region]] = chain[q][i].region
          /\ pending[serving[chain[q][i].region]] = 0
      BY <1>1, <2>1 DEF Served
    <3>3. /\ serving'[chain[q][i].region] = serving[chain[q][i].region]
          /\ pending'[serving[chain[q][i].region]] = pending[serving[chain[q][i].region]]
      BY <2>1 DEF Spares
    <3>4. callee'[serving[chain[q][i].region]] = callee[serving[chain[q][i].region]]
      BY <1>3, <3>1, <3>2 DEF Spares
    <3>5. QED
      BY <3>2, <3>3, <3>4
  <2>2. chain'[q] = chain[q] /\ chain[q][1].region = q
    BY <1>1 DEF Spares, Served
  <2>3. QED
    BY <2>1, <2>2 DEF Served
<1>5. QED
  BY <1>2, <1>4

\* A region gets a session for the region r: one it has open, or a new one.
LEMMA NewSessionIs ==
  ASSUME Inv, NEW p \in Regions, chain[p] # << >>, NEW r \in Regions, NEW s,
         s = SessionFor(Top(p).region, r), NewSession(s, r)
  PROVE  /\ s \in Sessions /\ s \in 1..allocated' /\ allocated' \in 0..MaxSessions
         /\ 1..allocated \subseteq 1..allocated' /\ allocated <= allocated'
         /\ callee' \in [Sessions -> Regions \union {None}] /\ callee'[s] = r
         /\ \A x \in 1..allocated : callee'[x] = callee[x]
         /\ s \in Has(p) \/ s > allocated
         /\ \A x \in Has(p) : callee'[x] = callee'[s] => x = s
         /\ \A x \in 1..allocated' : callee'[x] \in Regions
<1> DEFINE a == Top(p).region
<1>1. /\ TypeOK /\ Has(p) = locked[a] /\ Has(p) \subseteq 1..allocated
      /\ 1..allocated \subseteq Sessions /\ allocated \in Nat /\ MaxSessions \in Nat
      /\ allocated <= MaxSessions
  <2>1. TypeOK /\ MaxSessions \in Nat
    BY BoundsAssumption DEF Inv
  <2>2. Has(p) \subseteq 1..allocated /\ 1..allocated \subseteq Sessions
    BY <2>1, TopIs
  <2>3. allocated \in Nat /\ allocated <= MaxSessions
    BY <2>1 DEF TypeOK
  <2>4. QED
    BY <2>1, <2>2, <2>3 DEF Has
<1>2. OnePerCallee(callee, Has(p))
  <2>1. Stack(chain[p], callee, Has(p), isOpen, isSync)
    BY DEF Inv, ChainOK, Has
  <2>2. FrameOK(chain[p], callee, Has(p), isOpen, isSync, Len(chain[p]))
    BY <1>1, <2>1, TopIs DEF Stack
  <2>3. QED
    BY <2>2 DEF FrameOK, ListAt
<1>3. \/ s \in Has(p) /\ callee[s] = r
      \/ s = allocated + 1 /\ \A x \in Has(p) : callee[x] # r
  BY <1>1 DEF SessionFor, LocksOn
<1>4. s <= MaxSessions /\ callee' = [callee EXCEPT ![s] = r]
      /\ allocated' = IF s > allocated THEN s ELSE allocated
  BY DEF NewSession
<1>5. CASE s \in Has(p) /\ callee[s] = r
  <2>1. s \in Sessions /\ s \in 1..allocated /\ allocated' = allocated
    BY <1>1, <1>4, <1>5
  <2>2. callee' = callee
    BY <1>4, <1>5, <2>1 DEF Inv, TypeOK
  <2>3. \A x \in 1..allocated' : callee'[x] \in Regions
    BY <2>1, <2>2 DEF Inv, Opened
  <2>4. /\ callee \in [Sessions -> Regions \union {None}]
        /\ allocated \in 0..MaxSessions /\ allocated <= allocated
    BY <1>1 DEF TypeOK
  <2>5. \A x \in Has(p) : callee[x] = callee[s] => x = s
    BY <1>2, <1>5 DEF OnePerCallee
  <2>6. QED
    BY <1>5, <2>1, <2>2, <2>3, <2>4, <2>5
<1>6. CASE s = allocated + 1 /\ \A x \in Has(p) : callee[x] # r
  <2>1. s \in Sessions /\ s > allocated /\ allocated' = s /\ s \in Nat
    BY <1>1, <1>4, <1>6 DEF Sessions
  <2>2. /\ callee'[s] = r /\ \A x \in Sessions : x # s => callee'[x] = callee[x]
        /\ callee' \in [Sessions -> Regions \union {None}]
    BY <1>1, <1>4, <2>1 DEF TypeOK
  <2>3. \A x \in 1..allocated : x # s /\ callee'[x] = callee[x]
    BY <1>1, <1>6, <2>2
  <2>4. \A x \in Has(p) : callee'[x] # r
    BY <1>1, <1>6, <2>3
  <2>5. \A x \in 1..allocated' : callee'[x] \in Regions
    <3>1. \A x \in 1..allocated' : x = s \/ x \in 1..allocated
      BY <1>1, <1>6, <2>1
    <3>2. QED
      BY <2>2, <2>3, <3>1 DEF Inv, Opened
  <2>6. QED
    BY <1>1, <1>4, <2>1, <2>2, <2>3, <2>4, <2>5
<1>7. QED
  BY <1>3, <1>5, <1>6

\* The parts of the invariant that concern the lists, once the region a of the
\* chain of p has changed its list.
LEMMA ListsKept ==
  ASSUME Inv, NEW p \in Regions, chain[p] # << >>, NEW M,
         locked' = [locked EXCEPT ![Top(p).region] = M],
         \A x \in M : x \in Has(p) \/ x > allocated,
         chain'[p] # << >>, Top(p)'.region = Top(p).region,
         \A q \in Regions : q # p => chain'[q] = chain[q]
  PROVE  Lists' /\ Has(p)' = M
<1> DEFINE a == Top(p).region
<1>1. /\ TypeOK /\ a \in Regions /\ Has(p) = locked[a]
      /\ \A r \in Regions : locked[r] \subseteq 1..allocated
  BY TopIs DEF Inv, TypeOK, Has
<1>2. locked'[a] = M /\ \A r \in Regions : r # a => locked'[r] = locked[r]
  BY <1>1 DEF TypeOK
<1>3. \A r \in Regions : r # a => M \cap locked[r] = {}
  <2> SUFFICES ASSUME NEW r \in Regions, r # a, NEW x \in M, x \in locked[r] PROVE FALSE
    OBVIOUS
  <2>1. x \notin Has(p)
    BY <1>1 DEF Inv, Lists
  <2>2. x > allocated /\ x \in 1..allocated /\ allocated \in Nat
    BY <1>1, <2>1 DEF TypeOK
  <2>3. QED
    BY <2>2
<1>4. \A r1, r2 \in Regions : r1 # r2 => locked'[r1] \cap locked'[r2] = {}
  BY <1>1, <1>2, <1>3 DEF Inv, Lists
<1>5. ASSUME NEW r \in Regions, locked'[r] # {}
      PROVE  \E q \in Regions : chain'[q] # << >> /\ Top(q)'.region = r
  <2>1. CASE r = a
    BY <2>1
  <2>2. CASE r # a
    <3>1. PICK q \in Regions : chain[q] # << >> /\ Top(q).region = r
      BY <1>2, <1>5, <2>2 DEF Inv, Lists
    <3>2. q # p /\ chain'[q] = chain[q] /\ Top(q)' = Top(q)
      BY <2>2, <3>1 DEF Top
    <3>3. QED
      BY <3>1, <3>2
  <2>3. QED
    BY <2>1, <2>2
<1>6. QED
  BY <1>2, <1>4, <1>5 DEF Lists, Has

\* Chains that are apart stay apart, and served.
LEMMA ShortensKept ==
  ASSUME Inv, NEW p \in Regions, chain[p] # << >>, Shortens(p), TypeOK',
         UNCHANGED <<serving, pending>>, \A x \in 1..allocated : callee'[x] = callee[x]
  PROVE  Apart' /\ Served(p)'
<1>1. /\ TypeOK /\ Apart /\ Served(p) /\ Len(chain[p]) \in Nat /\ Len(chain'[p]) \in Nat
      /\ 1..Len(chain'[p]) \subseteq 1..Len(chain[p])
  <2>1. chain[p] \in Seq(Frames) /\ chain'[p] \in Seq(Frames)
    BY DEF Inv, TypeOK
  <2>2. Len(chain[p]) \in Nat /\ Len(chain'[p]) \in Nat
    BY <2>1
  <2>3. 1..Len(chain'[p]) \subseteq 1..Len(chain[p])
    BY <2>2 DEF Shortens
  <2>4. QED
    BY <2>2, <2>3 DEF Inv, ChainOK
<1>2. Apart'
  <2> SUFFICES ASSUME NEW q1 \in Regions, NEW q2 \in Regions, q1 # q2,
                      NEW i \in 1..Len(chain'[q1]), NEW j \in 1..Len(chain'[q2])
               PROVE  chain'[q1][i].region # chain'[q2][j].region
    BY DEF Apart
  <2>1. /\ i \in 1..Len(chain[q1]) /\ chain'[q1][i].region = chain[q1][i].region
        /\ j \in 1..Len(chain[q2]) /\ chain'[q2][j].region = chain[q2][j].region
    BY <1>1 DEF Shortens
  <2>2. QED
    BY <1>1, <2>1 DEF Apart
<1>3. Served(p)'
  <2>1. chain'[p][1].region = p
    BY <1>1 DEF Served, Shortens
  <2>2. ASSUME NEW i \in 2..Len(chain'[p]), chain'[p][i].region # p
        PROVE  /\ serving[chain'[p][i].region] \in chain'[p][i].held
               /\ callee'[serving[chain'[p][i].region]] = chain'[p][i].region
               /\ pending[serving[chain'[p][i].region]] = 0
    <3>1. /\ i \in 2..Len(chain[p]) /\ i \in 1..Len(chain'[p])
          /\ chain'[p][i].region = chain[p][i].region
          /\ chain'[p][i].held = chain[p][i].held
      BY <1>1 DEF Shortens
    <3>2. /\ serving[chain[p][i].region] \in chain[p][i].held
          /\ callee[serving[chain[p][i].region]] = chain[p][i].region
          /\ pending[serving[chain[p][i].region]] = 0
      BY <1>1, <2>2, <3>1 DEF Served
    <3>3. serving[chain[p][i].region] \in 1..allocated
      <4>1. i \in 1..Len(chain[p])
        BY <1>1, <3>1
      <4>2. Stack(chain[p], callee, Has(p), isOpen, isSync) /\ chain[p] \in Seq(Frames)
        BY TopIs DEF Inv, ChainOK, Has
      <4>3. chain[p][i].held \subseteq Has(p)
        BY <4>1, <4>2, StackWithin
      <4>4. QED
        BY <1>1, <3>2, <4>3, TopIs
    <3>4. QED
      BY <3>1, <3>2, <3>3
  <2>3. QED
    BY <2>1, <2>2 DEF Served
<1>4. QED
  BY <1>2, <1>3

\* A step changes sessions that the chain of p has open, or new ones, and no list
\* of another chain.
Within(p) ==
  /\ \A x \in 1..allocated :
       /\ callee'[x] = callee[x]
       /\ x \notin Has(p) => isOpen'[x] = isOpen[x] /\ isSync'[x] = isSync[x]
  /\ \A q \in Regions : q # p /\ chain[q] # << >> =>
       chain'[q] = chain[q] /\ locked'[Top(q).region] = locked[Top(q).region]

\* The chain of another region, after such a step.
LEMMA OtherChain ==
  ASSUME Inv, NEW p \in Regions, chain[p] # << >>, NEW q \in Regions, q # p,
         chain'[q] = chain[q], Within(p), UNCHANGED <<serving, pending>>
  PROVE  ChainOK(q)'
<1>1. Spares(q)
  <2>1. CASE chain[q] = << >>
    BY <2>1 DEF Spares
  <2>2. CASE chain[q] # << >>
    <3>1. Top(p).region # Top(q).region /\ Has(p) \cap Has(q) = {}
      BY <2>2, ApartLists
    <3>2. Has(q) \subseteq 1..allocated /\ Top(q).region \in Regions
      BY <2>2, TopIs DEF Inv
    <3>3. Has(q)' = Has(q)
      <4>1. Top(q)' = Top(q)
        BY DEF Top
      <4>2. locked'[Top(q).region] = locked[Top(q).region]
        BY <2>2 DEF Within
      <4>3. QED
        BY <4>1, <4>2 DEF Has
    <3>4. \A s \in Has(q) :
            callee'[s] = callee[s] /\ isOpen'[s] = isOpen[s] /\ isSync'[s] = isSync[s]
      BY <3>1, <3>2 DEF Within
    <3>5. QED
      BY <3>3, <3>4 DEF Spares
  <2>3. QED
    BY <2>1, <2>2
<1>2. QED
  BY <1>1, SparedChain

\* A step of the code of p that starts no call and keeps the stack of p in order.
LEMMA StepKept ==
  ASSUME Inv, NEW p \in Regions, chain[p] # << >>, Shortens(p), Within(p),
         UNCHANGED <<serving, pending>>, TypeOK', Lists', Opened',
         Stack(chain'[p], callee', Has(p)', isOpen', isSync')
  PROVE  Inv'
<1>1. Apart' /\ Served(p)'
  BY ShortensKept DEF Within
<1>2. ASSUME NEW q \in Regions PROVE ChainOK(q)'
  <2>1. CASE q = p
    BY <1>1, <2>1 DEF ChainOK, Has
  <2>2. CASE q # p
    <3>1. chain'[q] = chain[q]
      BY <2>2 DEF Shortens
    <3>2. QED
      BY <2>2, <3>1, OtherChain
  <2>3. QED
    BY <2>1, <2>2
<1>3. QED
  BY <1>1, <1>2 DEF Inv

\* A step that changes only the list of the region whose code p runs.
LEMMA OneListWithin ==
  ASSUME Inv, NEW p \in Regions, chain[p] # << >>, NEW M,
         locked' = [locked EXCEPT ![Top(p).region] = M],
         \A q \in Regions : q # p => chain'[q] = chain[q],
         \A x \in 1..allocated :
           /\ callee'[x] = callee[x]
           /\ x \notin Has(p) => isOpen'[x] = isOpen[x] /\ isSync'[x] = isSync[x]
  PROVE  Within(p)
<1>1. ASSUME NEW q \in Regions, q # p, chain[q] # << >>
      PROVE  locked'[Top(q).region] = locked[Top(q).region]
  <2>1. Top(p).region # Top(q).region /\ Top(q).region \in Regions
    BY <1>1, ApartLists, TopIs DEF Inv
  <2>2. QED
    BY <2>1 DEF Inv, TypeOK
<1>2. QED
  BY <1>1 DEF Within

-----------------------------------------------------------------------------
(***************************************************************************)
(* Every step preserves the invariant.                                     *)
(***************************************************************************)

\* Nothing is open in the initial states.
LEMMA InitInv == Init => Inv
<1> SUFFICES ASSUME Init PROVE Inv
  OBVIOUS
<1>1. NewFrame(Main, {}) \in Frames
  BY MainAssumption DEF Init, NewFrame, Frames
<1>2. /\ \A r \in Regions : r # Main => chain[r] = << >>
      /\ chain[Main] = <<NewFrame(Main, {})>>
  BY MainAssumption DEF Init
<1>3. chain \in [Regions -> Seq(Frames)]
  <2>1. chain = [r \in Regions |-> IF r = Main THEN <<NewFrame(Main, {})>> ELSE << >>]
    BY DEF Init
  <2>2. <<NewFrame(Main, {})>> \in Seq(Frames) /\ << >> \in Seq(Frames)
    BY <1>1
  <2>3. QED
    BY <2>1, <2>2
<1>4. TypeOK
  BY <1>3, BoundsAssumption DEF Init, TypeOK, Sessions
<1>5. Lists /\ Opened
  BY DEF Init, Lists, Opened
<1>6. Apart
  BY <1>2 DEF Apart
<1>7. ChainOK(Main)
  <2> DEFINE g == NewFrame(Main, {})
  <2>1. /\ g.region = Main /\ g.held = {} /\ g.target = None
        /\ \A s \in Sessions : g.opened[s] = 0 /\ g.open[s] = 0 /\ g.sync[s] = 0
    BY DEF NewFrame
  <2> HIDE DEF g
  <2>2. chain[Main] = <<g>> /\ Len(chain[Main]) = 1 /\ chain[Main][1] = g
        /\ Top(Main) = g /\ locked[Main] = {}
    BY <1>2, MainAssumption DEF Top, g, Init
  <2>3. g \in Frames /\ HasNothing(g)
    BY <1>1, <2>1 DEF g, HasNothing
  <2>4. Stack(chain[Main], callee, locked[Top(Main).region], isOpen, isSync)
    BY <2>1, <2>2, <2>3, NewStack
  <2>5. Served(Main)
    BY <2>1, <2>2 DEF Served
  <2>6. QED
    BY <2>4, <2>5 DEF ChainOK
<1>8. \A p \in Regions : ChainOK(p)
  BY <1>2, <1>7 DEF ChainOK
<1>9. QED
  BY <1>4, <1>5, <1>6, <1>8 DEF Inv

\* A separate argument is opened.
LEMMA OpenArgumentInv ==
  ASSUME Inv, NEW p \in Regions, NEW r \in Regions, OpenArgument(p, r) PROVE Inv'
<1> DEFINE c == chain[p]
           a == Top(p).region
<1> PICK f : f = Top(p)
  OBVIOUS
<1> PICK s : s = SessionFor(a, r)
  OBVIOUS
<1> PICK g : g = [f EXCEPT !.opened[s] = @ + 1]
  OBVIOUS
<1> DEFINE M == Has(p) \union {s}
<1>1. /\ chain[p] # << >> /\ f.target = None /\ r # a /\ NewSession(s, r)
      /\ isOpen' = [isOpen EXCEPT ![s] = @ + 1]
      /\ locked' = [locked EXCEPT ![a] = M]
      /\ chain' = WithTop(p, g)
      /\ UNCHANGED <<freed, isSync, isSubmitted, pending, serving>>
  BY DEF OpenArgument, Runs, Has
<1>2. /\ TypeOK /\ c \in Seq(Frames) /\ c # << >> /\ f \in Frames /\ f = c[Len(c)]
      /\ Has(p) \subseteq 1..allocated /\ f.region = a
      /\ 1..allocated \subseteq Sessions /\ a \in Regions
      /\ Stack(c, callee, Has(p), isOpen, isSync)
      /\ isOpen \in [Sessions -> Nat] /\ isSync \in [Sessions -> Nat]
  BY <1>1, TopIs DEF Inv, ChainOK, Has, TypeOK
<1>3. /\ s \in Sessions /\ s \in 1..allocated' /\ allocated' \in 0..MaxSessions
      /\ 1..allocated \subseteq 1..allocated' /\ allocated <= allocated'
      /\ callee' \in [Sessions -> Regions \union {None}] /\ callee'[s] = r
      /\ \A x \in 1..allocated : callee'[x] = callee[x]
      /\ s \in Has(p) \/ s > allocated
      /\ \A x \in Has(p) : callee'[x] = callee'[s] => x = s
      /\ \A x \in 1..allocated' : callee'[x] \in Regions
  BY <1>1, NewSessionIs
<1>4. Usable(s, Has(p), isOpen, isSync) /\ Singles(s, Has(p), callee, callee')
  BY <1>2, <1>3 DEF Inv, Opened, Usable, Singles
<1>5. /\ g \in Frames /\ g.target = None /\ g.opened = [f.opened EXCEPT ![s] = @ + 1]
      /\ ReplacesTop(p, g)
  <2>1. f.opened \in [Sessions -> Nat]
    BY <1>2 DEF Frames
  <2>2. PICK o : o = [f.opened EXCEPT ![s] = @ + 1]
    OBVIOUS
  <2>3. o \in [Sessions -> Nat]
    BY <1>3, <2>1, <2>2
  <2>4. g = [f EXCEPT !.opened = o]
    BY <2>2
  <2>5. g \in Frames /\ g.opened = o
    BY <1>2, <2>3, <2>4 DEF Frames
  <2>6. /\ g.region = f.region /\ g.held = f.held /\ g.open = f.open
        /\ g.sync = f.sync /\ g.target = f.target
    BY <1>2, <2>4 DEF Frames
  <2>7. QED
    BY <1>1, <2>2, <2>5, <2>6 DEF ReplacesTop
<1>6. /\ chain' \in [Regions -> Seq(Frames)] /\ chain'[p] \in Seq(Frames)
      /\ chain'[p] # << >> /\ Top(p)' = g /\ chain'[p][Len(c)] = g
      /\ SameButTop(c, chain'[p]) /\ Shortens(p)
      /\ \A q \in Regions : q # p => chain'[q] = chain[q]
  BY <1>2, <1>5, ReplacesTopIs
<1>7. Lists' /\ Has(p)' = M
  <2>1. Top(p)'.region = Top(p).region
    BY <1>5, <1>6 DEF ReplacesTop
  <2>2. \A x \in M : x \in Has(p) \/ x > allocated
    BY <1>3
  <2> HIDE DEF M
  <2>3. QED
    BY <1>1, <1>6, <2>1, <2>2, ListsKept
<1>8. /\ isOpen' \in [Sessions -> Nat] /\ isOpen'[s] = isOpen[s] + 1
      /\ \A x \in Sessions : x # s => isOpen'[x] = isOpen[x]
  BY <1>1, <1>2, <1>3
<1>9. TypeOK'
  <2>1. locked' \in [Regions -> SUBSET (1..allocated')]
    <3>1. \A q \in Regions : locked[q] \subseteq 1..allocated'
      BY <1>2, <1>3 DEF TypeOK
    <3>2. M \subseteq 1..allocated'
      BY <1>2, <1>3
    <3>3. QED
      BY <1>1, <1>2, <3>1, <3>2 DEF TypeOK
  <2>2. serving' \in [Regions -> (1..allocated') \union {None}] /\ freed' \subseteq 1..allocated'
    BY <1>1, <1>2, <1>3 DEF TypeOK
  <2>3. QED
    BY <1>1, <1>2, <1>3, <1>6, <1>8, <2>1, <2>2 DEF TypeOK
<1>10. Opened'
  <2>1. ASSUME NEW x \in Sessions, isOpen'[x] > 0
        PROVE  x \notin freed' /\ \E q \in Regions : x \in locked'[q]
    <3>1. CASE x = s
      <4>1. s \notin freed
        <5>1. CASE s \in Has(p)
          <6>1. isOpen[s] > 0
            <7>1. \A i \in 1..Len(c) : \A y \in ListAt(c, Has(p), i) : OpenAt(c, isOpen, i)[y] > 0
              BY <1>2, StackWithin
            <7>2. Len(c) \in 1..Len(c)
              BY <1>2
            <7>3. QED
              BY <5>1, <7>1, <7>2 DEF ListAt, OpenAt
          <6>2. QED
            BY <1>3, <6>1 DEF Inv, Opened
        <5>2. CASE s > allocated
          <6>1. freed \subseteq 1..allocated /\ allocated \in Nat
            BY <1>2 DEF TypeOK
          <6>2. QED
            BY <5>2, <6>1
        <5>3. QED
          BY <1>3, <5>1, <5>2
      <4>2. s \in locked'[a]
        BY <1>1, <1>2 DEF TypeOK
      <4>3. QED
        BY <1>1, <1>2, <3>1, <4>1, <4>2
    <3>2. CASE x # s
      <4>1. x \notin freed /\ \E q \in Regions : x \in locked[q]
        BY <1>8, <2>1, <3>2 DEF Inv, Opened
      <4>2. \A q \in Regions : locked[q] \subseteq locked'[q]
        BY <1>1, <1>2 DEF TypeOK, Has
      <4>3. QED
        BY <1>1, <4>1, <4>2
    <3>3. QED
      BY <3>1, <3>2
  <2>2. ASSUME NEW x \in Sessions, x > allocated' PROVE isOpen'[x] = 0 /\ isSync'[x] = 0
    <3>1. allocated \in Nat /\ allocated' \in Nat /\ x \in Nat
      BY <1>2, <1>3 DEF TypeOK, Sessions
    <3>2. x > allocated /\ x # s
      BY <1>3, <2>2, <3>1
    <3>3. QED
      BY <1>1, <1>8, <3>2 DEF Inv, Opened
  <2>3. QED
    BY <1>3, <2>1, <2>2 DEF Opened
<1>11. Stack(chain'[p], callee', Has(p)', isOpen', isSync')
  <2>1. Opens(c, chain'[p], s)
    BY <1>2, <1>5, <1>6 DEF Opens
  <2>2. callee'[s] # c[Len(c)].region
    BY <1>1, <1>2, <1>3
  <2>3. Stack(chain'[p], callee', Has(p) \union {s}, [isOpen EXCEPT ![s] = @ + 1], isSync)
    BY <1>2, <1>3, <1>4, <1>6, <2>1, <2>2, OpenStack
  <2>4. QED
    BY <1>1, <1>7, <2>3
<1>12. Within(p)
  <2>1. \A x \in 1..allocated : x \notin Has(p) => isOpen'[x] = isOpen[x] /\ isSync'[x] = isSync[x]
    <3>1. allocated \in Nat /\ s \in Nat
      BY <1>2, <1>3 DEF TypeOK, Sessions
    <3>2. \A x \in 1..allocated : x \notin Has(p) => x # s
      BY <1>3, <3>1
    <3>3. QED
      BY <1>1, <1>2, <1>8, <3>2
  <2> HIDE DEF M
  <2>2. QED
    BY <1>1, <1>3, <1>6, <2>1, OneListWithin
<1>13. QED
  BY <1>1, <1>6, <1>7, <1>9, <1>10, <1>11, <1>12, StepKept

\* What the chain of p has open.
LEMMA HasOpen ==
  ASSUME Inv, NEW p \in Regions, chain[p] # << >>
  PROVE  /\ Stack(chain[p], callee, Has(p), isOpen, isSync) /\ Served(p)
         /\ \A x \in Sessions : Top(p).opened[x] > 0 => x \in Has(p)
         /\ \A x \in Has(p) : isOpen[x] > 0 /\ x \notin freed
         /\ Top(p).target # None =>
              Top(p).target \in Has(p) /\ Top(p).opened[Top(p).target] > 0
<1> DEFINE c == chain[p]
<1>1. /\ c \in Seq(Frames) /\ c # << >> /\ Len(c) \in 1..Len(c) /\ Top(p) = c[Len(c)]
      /\ Top(p) \in Frames /\ Has(p) \subseteq Sessions
  BY TopIs DEF Inv
<1>2. Stack(c, callee, Has(p), isOpen, isSync) /\ Served(p)
  BY DEF Inv, ChainOK, Has
<1>3. \A i \in 1..Len(c) :
        /\ \A x \in Sessions : c[i].opened[x] > 0 => x \in ListAt(c, Has(p), i)
        /\ \A x \in ListAt(c, Has(p), i) : OpenAt(c, isOpen, i)[x] > 0
  BY <1>1, <1>2, StackWithin
<1>4. /\ \A x \in Sessions : Top(p).opened[x] > 0 => x \in Has(p)
      /\ \A x \in Has(p) : isOpen[x] > 0
  BY <1>1, <1>3 DEF ListAt, OpenAt
<1>5. \A x \in Has(p) : x \notin freed
  BY <1>1, <1>4 DEF Inv, Opened
<1>6. OwnDoings(c, callee, Len(c))
  BY <1>1, <1>2 DEF Stack, FrameOK
<1>7. Top(p).target # None => Top(p).target \in Has(p) /\ Top(p).opened[Top(p).target] > 0
  BY <1>1, <1>4, <1>6 DEF OwnDoings, Frames
<1>8. QED
  BY <1>2, <1>4, <1>5, <1>7

\* A separate argument is closed.
LEMMA CloseArgumentInv ==
  ASSUME Inv, NEW p \in Regions, CloseArgument(p) PROVE Inv'
<1> DEFINE c == chain[p]
           a == Top(p).region
<1> PICK f : f = Top(p)
  OBVIOUS
<1>0. PICK s \in Sessions :
        /\ f.opened[s] > 0 /\ Close({s})
        /\ locked' = [locked EXCEPT ![a] = @ \ Closed({s})]
        /\ chain' = WithTop(p, [f EXCEPT !.opened[s] = @ - 1])
  BY DEF CloseArgument
<1> PICK g : g = [f EXCEPT !.opened[s] = @ - 1]
  OBVIOUS
<1> DEFINE M == Has(p) \ OpenOnce(isOpen, {s})
<1>1. /\ chain[p] # << >> /\ f.target = None
      /\ isOpen' = [x \in Sessions |->
                     IF x \in {s} /\ isOpen[x] > 0 THEN isOpen[x] - 1 ELSE isOpen[x]]
      /\ freed' = freed \union {x \in OpenOnce(isOpen, {s}) : ~isSubmitted[x]}
      /\ locked' = [locked EXCEPT ![a] = M]
      /\ chain' = WithTop(p, g)
      /\ UNCHANGED <<allocated, callee, isSync, isSubmitted, pending, serving>>
  BY <1>0 DEF CloseArgument, Runs, Has, Close, Closed, OpenOnce
<1>2. /\ TypeOK /\ c \in Seq(Frames) /\ c # << >> /\ f \in Frames /\ f = c[Len(c)]
      /\ Has(p) \subseteq 1..allocated /\ f.region = a
      /\ 1..allocated \subseteq Sessions /\ a \in Regions
      /\ Stack(c, callee, Has(p), isOpen, isSync)
      /\ isOpen \in [Sessions -> Nat] /\ isSync \in [Sessions -> Nat]
  BY <1>1, TopIs DEF Inv, ChainOK, Has, TypeOK
<1>3. s \in Has(p) /\ isOpen[s] > 0 /\ s \notin freed
  BY <1>0, <1>1, HasOpen
<1>4. /\ isOpen' \in [Sessions -> Nat] /\ isOpen'[s] = isOpen[s] - 1
      /\ \A x \in Sessions : x # s => isOpen'[x] = isOpen[x]
  BY <1>1, <1>2, <1>3
<1>5. /\ g \in Frames /\ g.target = None /\ Closes(f, g, s, isOpen, isOpen')
      /\ ReplacesTop(p, g)
  <2>1. f.opened \in [Sessions -> Nat]
    BY <1>2 DEF Frames
  <2>2. PICK o : o = [f.opened EXCEPT ![s] = @ - 1]
    OBVIOUS
  <2>3. /\ o \in [Sessions -> Nat] /\ o[s] = f.opened[s] - 1
        /\ \A x \in Sessions : x # s => o[x] = f.opened[x]
    BY <1>0, <2>1, <2>2
  <2>4. g = [f EXCEPT !.opened = o]
    BY <2>2
  <2>5. g \in Frames /\ g.opened = o
    BY <1>2, <2>3, <2>4 DEF Frames
  <2>6. /\ g.region = f.region /\ g.held = f.held /\ g.open = f.open
        /\ g.sync = f.sync /\ g.target = f.target
    BY <1>2, <2>4 DEF Frames
  <2>7. QED
    BY <1>0, <1>1, <1>4, <2>3, <2>5, <2>6 DEF ReplacesTop, Closes
<1>6. /\ chain' \in [Regions -> Seq(Frames)] /\ chain'[p] \in Seq(Frames)
      /\ chain'[p] # << >> /\ Top(p)' = g /\ chain'[p][Len(c)] = g
      /\ SameButTop(c, chain'[p]) /\ Shortens(p)
      /\ \A q \in Regions : q # p => chain'[q] = chain[q]
  BY <1>2, <1>5, ReplacesTopIs
<1>7. Lists' /\ Has(p)' = M
  <2>1. Top(p)'.region = Top(p).region
    BY <1>5, <1>6 DEF ReplacesTop
  <2>2. \A x \in M : x \in Has(p) \/ x > allocated
    OBVIOUS
  <2> HIDE DEF M
  <2>3. QED
    BY <1>1, <1>6, <2>1, <2>2, ListsKept
<1>8. TypeOK'
  <2>1. locked' \in [Regions -> SUBSET (1..allocated)]
    <3>1. M \subseteq 1..allocated
      BY <1>2
    <3>2. QED
      BY <1>1, <1>2, <3>1 DEF TypeOK
  <2>2. freed' \subseteq 1..allocated
    BY <1>1, <1>2, <1>3 DEF TypeOK, OpenOnce
  <2>3. QED
    BY <1>1, <1>2, <1>4, <1>6, <2>1, <2>2 DEF TypeOK
<1>9. Opened'
  <2>1. ASSUME NEW x \in Sessions, isOpen'[x] > 0
        PROVE  x \notin freed' /\ \E q \in Regions : x \in locked'[q]
    <3>1. isOpen[x] > 0 /\ x \notin OpenOnce(isOpen, {s})
      BY <1>2, <1>4, <2>1 DEF OpenOnce
    <3>2. PICK q \in Regions : x \in locked[q] /\ x \notin freed
      BY <3>1 DEF Inv, Opened
    <3>3. x \in locked'[q]
      BY <1>1, <1>2, <3>1, <3>2 DEF TypeOK, Has
    <3>4. QED
      BY <1>1, <3>1, <3>2, <3>3
  <2>2. ASSUME NEW x \in Sessions, x > allocated PROVE isOpen'[x] = 0 /\ isSync'[x] = 0
    <3>1. isOpen[x] = 0 /\ isSync[x] = 0
      BY <2>2 DEF Inv, Opened
    <3>2. QED
      BY <1>1, <1>3, <1>4, <3>1
  <2>3. \A x \in 1..allocated' : callee'[x] \in Regions
    BY <1>1 DEF Inv, Opened
  <2>4. QED
    BY <1>1, <2>1, <2>2, <2>3 DEF Opened
<1>10. Stack(chain'[p], callee', Has(p)', isOpen', isSync')
  <2>1. Closes(c[Len(c)], chain'[p][Len(c)], s, isOpen, isOpen')
    BY <1>2, <1>5, <1>6
  <2>2. chain'[p][Len(c)].target = None
    BY <1>5, <1>6
  <2>3. Stack(chain'[p], callee, Has(p) \ OpenOnce(isOpen, {s}), isOpen', isSync)
    BY <1>2, <1>4, <1>6, <2>1, <2>2, CloseStack
  <2>4. QED
    BY <1>1, <1>7, <2>3
<1>11. Within(p)
  <2>1. \A x \in 1..allocated :
          /\ callee'[x] = callee[x]
          /\ x \notin Has(p) => isOpen'[x] = isOpen[x] /\ isSync'[x] = isSync[x]
    BY <1>1, <1>2, <1>3, <1>4
  <2> HIDE DEF M
  <2>2. QED
    BY <1>1, <1>6, <2>1, OneListWithin
<1>12. QED
  BY <1>1, <1>6, <1>7, <1>8, <1>9, <1>10, <1>11, StepKept

\* A synchronous call is logged.
LEMMA SyncCallInv ==
  ASSUME Inv, NEW p \in Regions, SyncCall(p) PROVE Inv'
<1> DEFINE c == chain[p]
<1> PICK f : f = Top(p)
  OBVIOUS
<1>0. PICK s \in Sessions :
        /\ f.opened[s] > 0
        /\ isSubmitted' = [isSubmitted EXCEPT ![s] = @ \/ isSync[s] = 0]
        /\ chain' = WithTop(p, [f EXCEPT !.target = s])
  BY DEF SyncCall
<1> PICK g : g = [f EXCEPT !.target = s]
  OBVIOUS
<1>1. /\ chain[p] # << >> /\ chain' = WithTop(p, g)
      /\ UNCHANGED <<allocated, freed, callee, isOpen, isSync, pending, locked, serving>>
  BY <1>0 DEF SyncCall, Runs
<1>2. /\ TypeOK /\ c \in Seq(Frames) /\ c # << >> /\ f \in Frames /\ f = c[Len(c)]
      /\ Stack(c, callee, Has(p), isOpen, isSync)
  BY <1>1, TopIs DEF Inv, ChainOK, Has
<1>3. /\ g \in Frames /\ g.target = s /\ g.opened = f.opened /\ g.region = f.region
      /\ ReplacesTop(p, g)
  <2>1. /\ g \in Frames /\ g.target = s /\ g.opened = f.opened
        /\ g.region = f.region /\ g.held = f.held /\ g.open = f.open /\ g.sync = f.sync
    BY <1>2 DEF Frames
  <2>2. QED
    BY <1>1, <2>1 DEF ReplacesTop
<1>4. /\ chain' \in [Regions -> Seq(Frames)] /\ chain'[p] \in Seq(Frames)
      /\ chain'[p] # << >> /\ Top(p)' = g /\ chain'[p][Len(c)] = g
      /\ SameButTop(c, chain'[p]) /\ Shortens(p)
      /\ \A q \in Regions : q # p => chain'[q] = chain[q]
  BY <1>2, <1>3, ReplacesTopIs
<1>5. TypeOK'
  BY <1>0, <1>1, <1>2, <1>4 DEF TypeOK
<1>6. Opened'
  BY <1>1 DEF Inv, Opened
<1>7. Has(p)' = Has(p)
  BY <1>1, <1>3, <1>4 DEF Has
<1>8. Within(p)
  BY <1>1, <1>4 DEF Within
<1>9. Lists'
  <2>1. ASSUME NEW r \in Regions, locked'[r] # {}
        PROVE  \E q \in Regions : chain'[q] # << >> /\ Top(q)'.region = r
    <3>1. PICK q \in Regions : chain[q] # << >> /\ Top(q).region = r
      BY <1>1, <2>1 DEF Inv, Lists
    <3>2. CASE q = p
      BY <1>3, <1>4, <3>1, <3>2
    <3>3. CASE q # p
      BY <1>4, <3>1, <3>3 DEF Top
    <3>4. QED
      BY <3>2, <3>3
  <2>2. QED
    BY <1>1, <2>1 DEF Inv, Lists
<1>10. Stack(chain'[p], callee', Has(p)', isOpen', isSync')
  <2>1. c[Len(c)].opened[s] > 0 /\ chain'[p][Len(c)].target = s
        /\ chain'[p][Len(c)].opened = c[Len(c)].opened
    BY <1>0, <1>2, <1>3, <1>4
  <2>2. Stack(chain'[p], callee, Has(p), isOpen, isSync)
    BY <1>2, <1>4, <2>1, CallStack
  <2>3. QED
    BY <1>1, <1>7, <2>2
<1>11. QED
  BY <1>1, <1>4, <1>5, <1>6, <1>8, <1>9, <1>10, StepKept

\* A region that a chain of another one has called waits for it.
LEMMA CalledIsServed ==
  ASSUME Inv, NEW q \in Regions, NEW i \in 2..Len(chain[q]), chain[q][i].region # q
  PROVE  LET r == chain[q][i].region
         IN  /\ chain[q] # << >> /\ r \in Regions /\ i \in 1..Len(chain[q])
             /\ serving[r] \in Has(q) /\ serving[r] \in Sessions /\ callee[serving[r]] = r
             /\ pending[serving[r]] = 0 /\ isOpen[serving[r]] > 0 /\ serving[r] # None
<1> DEFINE c == chain[q]
<1>1. c \in Seq(Frames)
  BY DEF Inv, TypeOK
<1>2. i \in 1..Len(c) /\ c # << >> /\ c[i] \in Frames
  BY <1>1
<1>3. Stack(c, callee, Has(q), isOpen, isSync) /\ Served(q) /\ \A x \in Has(q) : isOpen[x] > 0
  BY <1>2, HasOpen
<1>4. c[i].held \subseteq Has(q) /\ Has(q) \subseteq Sessions
  BY <1>1, <1>2, <1>3, StackWithin
<1>5. serving[c[i].region] \in c[i].held /\ callee[serving[c[i].region]] = c[i].region
      /\ pending[serving[c[i].region]] = 0
  BY <1>3 DEF Served
<1>6. QED
  BY <1>2, <1>3, <1>4, <1>5, NoneAssumption DEF Frames, Sessions

\* An asynchronous call is logged.
LEMMA AsyncCallInv ==
  ASSUME Inv, NEW p \in Regions, AsyncCall(p) PROVE Inv'
<1>0. PICK s \in Sessions :
        /\ Top(p).opened[s] > 0 /\ isSync[s] = 0
        /\ pending' = [pending EXCEPT ![s] = @ + 1]
        /\ isSubmitted' = [isSubmitted EXCEPT ![s] = TRUE]
  BY DEF AsyncCall, MayBeAsync
<1>1. /\ chain[p] # << >>
      /\ UNCHANGED <<allocated, freed, callee, isOpen, isSync, locked, serving, chain>>
  BY DEF AsyncCall, Runs
<1>2. TypeOK'
  BY <1>0, <1>1 DEF Inv, TypeOK
<1>3. Lists' /\ Opened' /\ Apart'
  BY <1>1 DEF Inv, Lists, Opened, Apart, Top
<1>4. s \in Has(p)
  BY <1>0, <1>1, HasOpen
<1>5. ASSUME NEW q \in Regions, NEW i \in 2..Len(chain[q]), chain[q][i].region # q
      PROVE  serving[chain[q][i].region] # s
  <2> DEFINE r == chain[q][i].region
  <2> SUFFICES ASSUME serving[r] = s PROVE FALSE
    OBVIOUS
  <2>1. /\ chain[q] # << >> /\ i \in 1..Len(chain[q]) /\ serving[r] \in Has(q)
        /\ callee[s] = r
    BY <1>5, CalledIsServed
  <2>2. CASE q # p
    BY <1>1, <1>4, <2>1, <2>2, ApartLists
  <2>3. CASE q = p
    <3> DEFINE c == chain[p]
               n == Len(c)
    <3>1. /\ c \in Seq(Frames) /\ n \in 1..n /\ n \in Nat /\ Top(p) = c[n]
      BY <1>1, TopIs DEF Inv
    <3>2. FrameOK(c, callee, Has(p), isOpen, isSync, n)
      BY <1>1, <3>1, HasOpen DEF Stack
    <3>3. /\ OwnDoings(c, callee, n) /\ OnePerCallee(callee, Has(p))
          /\ SyncIsCallers(c, callee, Has(p), isSync, n)
      BY <3>2 DEF FrameOK, ListAt, SyncAt
    <3>4. callee[s] # c[n].region
      BY <1>0, <3>1, <3>3 DEF OwnDoings
    <3>5. i \in 1..(n-1) /\ callee[s] = c[i].region
      BY <2>1, <2>3, <3>1, <3>4
    <3>6. PICK x \in Has(p) : isSync[x] > 0 /\ callee[x] = c[i].region
      BY <3>3, <3>5 DEF SyncIsCallers
    <3>7. x = s
      BY <1>4, <3>3, <3>5, <3>6 DEF OnePerCallee
    <3>8. QED
      BY <1>0, <3>6, <3>7
  <2>4. QED
    BY <2>2, <2>3
<1>6. ASSUME NEW q \in Regions PROVE ChainOK(q)'
  <2>1. ASSUME NEW i \in 2..Len(chain[q]), chain[q][i].region # q
        PROVE  pending'[serving[chain[q][i].region]] = pending[serving[chain[q][i].region]]
    <3>1. serving[chain[q][i].region] # s
      BY <1>5, <2>1
    <3>2. QED
      BY <1>0, <3>1 DEF Inv, TypeOK
  <2>2. Has(q)' = Has(q)
    BY <1>1 DEF Has, Top
  <2>3. Spares(q)
    BY <1>1, <2>1, <2>2 DEF Spares
  <2>4. QED
    BY <2>3, SparedChain
<1>7. QED
  BY <1>2, <1>3, <1>6 DEF Inv

\* A region that executes no code of its own and has calls pending, or serves no
\* session, is member of no chain.
LEMMA IdleIsAlone ==
  ASSUME Inv, NEW r \in Regions, chain[r] = << >>,
         serving[r] = None \/ pending[serving[r]] > 0 \/ isOpen[serving[r]] = 0
  PROVE  /\ \A q \in Regions : \A i \in 1..Len(chain[q]) : chain[q][i].region # r
         /\ locked[r] = {}
<1>1. ASSUME NEW q \in Regions, NEW i \in 1..Len(chain[q]), chain[q][i].region = r
      PROVE  FALSE
  <2>1. chain[q] \in Seq(Frames)
    BY DEF Inv, TypeOK
  <2>2. chain[q] # << >> /\ Served(q) /\ q # r
    <3>1. chain[q] # << >>
      BY <2>1
    <3>2. QED
      BY <3>1, HasOpen
  <2>3. i # 1 /\ i \in 2..Len(chain[q])
    BY <1>1, <2>1, <2>2 DEF Served
  <2>4. /\ serving[r] # None /\ pending[serving[r]] = 0 /\ isOpen[serving[r]] > 0
    BY <1>1, <2>2, <2>3, CalledIsServed
  <2>5. isOpen[serving[r]] # 0 /\ ~(pending[serving[r]] > 0)
    BY <2>4
  <2>6. QED
    BY <2>4, <2>5
<1>2. locked[r] = {}
  <2> SUFFICES ASSUME locked[r] # {} PROVE FALSE
    OBVIOUS
  <2>1. PICK q \in Regions : chain[q] # << >> /\ Top(q).region = r
    BY DEF Inv, Lists
  <2>2. Len(chain[q]) \in 1..Len(chain[q]) /\ Top(q) = chain[q][Len(chain[q])]
    BY <2>1, TopIs DEF Inv
  <2>3. QED
    BY <1>1, <2>1, <2>2
<1>3. QED
  BY <1>1, <1>2

\* A processor starts a session.
LEMMA ServeInv ==
  ASSUME Inv, NEW r \in Regions, Serve(r) PROVE Inv'
<1>0. PICK s \in (1..allocated) \ freed : serving' = [serving EXCEPT ![r] = s]
  BY DEF Serve
<1>1. /\ serving[r] = None /\ chain[r] = << >>
      /\ UNCHANGED <<allocated, freed, callee, isOpen, isSync, isSubmitted, pending>>
      /\ UNCHANGED <<locked, chain>>
  BY DEF Serve, sessionVars
<1>2. TypeOK'
  BY <1>0, <1>1 DEF Inv, TypeOK
<1>3. Lists' /\ Opened' /\ Apart'
  BY <1>1 DEF Inv, Lists, Opened, Apart, Top
<1>4. ASSUME NEW q \in Regions PROVE ChainOK(q)'
  <2>1. ASSUME NEW i \in 2..Len(chain[q]), chain[q][i].region # q
        PROVE  serving'[chain[q][i].region] = serving[chain[q][i].region]
    <3>1. chain[q][i].region \in Regions /\ serving[chain[q][i].region] # None
      BY <2>1, CalledIsServed
    <3>2. QED
      BY <1>0, <1>1, <3>1 DEF Inv, TypeOK
  <2>2. Has(q)' = Has(q)
    BY <1>1 DEF Has, Top
  <2>3. Spares(q)
    BY <1>1, <2>1, <2>2 DEF Spares
  <2>4. QED
    BY <2>3, SparedChain
<1>5. QED
  BY <1>2, <1>3, <1>4 DEF Inv

\* A processor ends a session.
LEMMA EndSessionInv ==
  ASSUME Inv, NEW r \in Regions, EndSession(r) PROVE Inv'
<1> PICK s : s = serving[r]
  OBVIOUS
<1>1. /\ s # None /\ chain[r] = << >> /\ pending[s] = 0 /\ isOpen[s] = 0
      /\ serving' = [serving EXCEPT ![r] = None] /\ freed' = freed \union {s}
      /\ UNCHANGED <<allocated, callee, isOpen, isSync, isSubmitted, pending, locked, chain>>
  BY DEF EndSession
<1>2. s \in 1..allocated
  BY <1>1 DEF Inv, TypeOK
<1>3. TypeOK'
  BY <1>1, <1>2 DEF Inv, TypeOK
<1>4. Lists' /\ Apart'
  BY <1>1 DEF Inv, Lists, Apart, Top
<1>5. Opened'
  <2>1. ASSUME NEW x \in Sessions, isOpen[x] > 0
        PROVE  x \notin freed' /\ \E q \in Regions : x \in locked[q]
    <3>1. x # s
      BY <1>1, <2>1
    <3>2. QED
      BY <1>1, <2>1, <3>1 DEF Inv, Opened
  <2>2. QED
    BY <1>1, <2>1 DEF Inv, Opened
<1>6. ASSUME NEW q \in Regions PROVE ChainOK(q)'
  <2>1. ASSUME NEW i \in 2..Len(chain[q]), chain[q][i].region # q
        PROVE  serving'[chain[q][i].region] = serving[chain[q][i].region]
    <3>1. /\ chain[q][i].region \in Regions /\ isOpen[serving[chain[q][i].region]] > 0
      BY <2>1, CalledIsServed
    <3>2. chain[q][i].region # r
      BY <1>1, <3>1
    <3>3. QED
      BY <1>1, <3>1, <3>2 DEF Inv, TypeOK
  <2>2. Has(q)' = Has(q)
    BY <1>1 DEF Has, Top
  <2>3. Spares(q)
    BY <1>1, <2>1, <2>2 DEF Spares
  <2>4. QED
    BY <2>3, SparedChain
<1>7. QED
  BY <1>3, <1>4, <1>5, <1>6 DEF Inv

\* A processor takes an asynchronous call.
LEMMA BeginAsyncInv ==
  ASSUME Inv, NEW r \in Regions, BeginAsync(r) PROVE Inv'
<1> PICK s : s = serving[r]
  OBVIOUS
<1> PICK g : g = NewFrame(r, {})
  OBVIOUS
<1>1. /\ chain[r] = << >> /\ s # None /\ pending[s] > 0
      /\ pending' = [pending EXCEPT ![s] = @ - 1]
      /\ chain' = [chain EXCEPT ![r] = <<g>>]
      /\ UNCHANGED <<allocated, freed, callee, isOpen, isSync, isSubmitted, locked, serving>>
  BY DEF BeginAsync
<1>2. TypeOK /\ s \in Sessions
  <2>1. TypeOK /\ s \in 1..allocated
    BY <1>1 DEF Inv, TypeOK
  <2>2. 1..allocated \subseteq Sessions
    BY <2>1, BoundsAssumption DEF TypeOK, Sessions
  <2>3. QED
    BY <2>1, <2>2
<1>3. /\ g \in Frames /\ HasNothing(g) /\ g.region = r
  <2>1. /\ g.region = r /\ g.held = {} /\ g.target = None
        /\ \A x \in Sessions : g.opened[x] = 0 /\ g.open[x] = 0 /\ g.sync[x] = 0
    BY DEF NewFrame
  <2>2. NewFrame(r, {}) \in Frames
    BY DEF NewFrame, Frames
  <2>3. QED
    BY <2>1, <2>2 DEF HasNothing
<1>4. /\ chain' \in [Regions -> Seq(Frames)]
      /\ chain'[r] = <<g>> /\ chain'[r] # << >> /\ Len(chain'[r]) = 1 /\ chain'[r][1] = g
      /\ \A q \in Regions : q # r => chain'[q] = chain[q]
  <2>1. <<g>> \in Seq(Frames)
    BY <1>3
  <2>2. QED
    BY <1>1, <1>2, <2>1 DEF TypeOK
<1>5. TypeOK'
  <2>1. pending' \in [Sessions -> Nat]
    BY <1>1, <1>2 DEF TypeOK
  <2>2. QED
    BY <1>1, <1>2, <1>4, <2>1 DEF TypeOK
<1>6. /\ \A q \in Regions : \A i \in 1..Len(chain[q]) : chain[q][i].region # r
      /\ locked[r] = {}
  BY <1>1, IdleIsAlone
<1>7. Opened'
  BY <1>1 DEF Inv, Opened
<1>8. Lists'
  <2>1. ASSUME NEW x \in Regions, locked'[x] # {}
        PROVE  \E q \in Regions : chain'[q] # << >> /\ Top(q)'.region = x
    <3>1. PICK q \in Regions : chain[q] # << >> /\ Top(q).region = x
      BY <1>1, <2>1 DEF Inv, Lists
    <3>2. chain'[q] = chain[q] /\ Top(q)' = Top(q)
      BY <1>1, <1>4, <3>1 DEF Top
    <3>3. QED
      BY <3>1, <3>2
  <2>2. QED
    BY <1>1, <2>1 DEF Inv, Lists
<1>9. Apart'
  <2> SUFFICES ASSUME NEW q1 \in Regions, NEW q2 \in Regions, q1 # q2,
                      NEW i \in 1..Len(chain'[q1]), NEW j \in 1..Len(chain'[q2])
               PROVE  chain'[q1][i].region # chain'[q2][j].region
    BY DEF Apart
  <2>1. CASE q1 = r
    <3>1. chain'[q1][i].region = r /\ chain'[q2] = chain[q2]
      BY <1>3, <1>4, <2>1
    <3>2. QED
      BY <1>6, <3>1
  <2>2. CASE q2 = r
    <3>1. chain'[q2][j].region = r /\ chain'[q1] = chain[q1]
      BY <1>3, <1>4, <2>2
    <3>2. QED
      BY <1>6, <3>1
  <2>3. CASE q1 # r /\ q2 # r
    BY <1>4, <2>3 DEF Inv, Apart
  <2>4. QED
    BY <2>1, <2>2, <2>3
<1>10. ASSUME NEW q \in Regions PROVE ChainOK(q)'
  <2>1. CASE q = r
    <3>1. Top(r)' = g /\ Has(r)' = {}
      BY <1>1, <1>3, <1>4, <1>6 DEF Top, Has
    <3>2. Stack(<<g>>, callee', {}, isOpen', isSync')
      BY <1>3, NewStack
    <3>3. Served(r)'
      BY <1>3, <1>4 DEF Served
    <3>4. QED
      BY <1>4, <2>1, <3>1, <3>2, <3>3 DEF ChainOK, Has
  <2>2. CASE q # r
    <3>1. ASSUME NEW i \in 2..Len(chain[q]), chain[q][i].region # q
          PROVE  pending'[serving[chain[q][i].region]] = pending[serving[chain[q][i].region]]
      <4>1. pending[serving[chain[q][i].region]] = 0
        BY <3>1, CalledIsServed
      <4>2. serving[chain[q][i].region] # s
        BY <1>1, <4>1
      <4>3. QED
        BY <1>1, <1>2, <4>2 DEF TypeOK
    <3>2. chain'[q] = chain[q] /\ Has(q)' = Has(q)
      BY <1>1, <1>4, <2>2 DEF Has, Top
    <3>3. Spares(q)
      BY <1>1, <3>1, <3>2 DEF Spares
    <3>4. QED
      BY <3>3, SparedChain
  <2>3. QED
    BY <2>1, <2>2
<1>11. QED
  BY <1>5, <1>7, <1>8, <1>9, <1>10 DEF Inv

\* An asynchronous call, or the root creation procedure, ends.
LEMMA EndAsyncInv ==
  ASSUME Inv, NEW r \in Regions, EndAsync(r) PROVE Inv'
<1> DEFINE c == chain[r]
<1>1. /\ c # << >> /\ Len(c) = 1 /\ (\A s \in Sessions : Top(r).opened[s] = 0)
      /\ chain' = [chain EXCEPT ![r] = << >>]
      /\ UNCHANGED <<allocated, freed, callee, isOpen, isSync, isSubmitted, pending>>
      /\ UNCHANGED <<locked, serving>>
  BY DEF EndAsync, Runs, NothingOpened, sessionVars
<1>2. TypeOK /\ c \in Seq(Frames) /\ Top(r) = c[1] /\ Top(r) \in Frames
  BY <1>1, TopIs DEF Inv
<1>3. Has(r) = {}
  <2>1. FrameOK(c, callee, Has(r), isOpen, isSync, 1)
    BY <1>1, HasOpen DEF Stack
  <2>2. PICK o \in SUBSET Sessions :
           PassedOwn(c, callee, 1, o)
           /\ Account(c[1], o, ListAt(c, Has(r), 1), OpenAt(c, isOpen, 1), SyncAt(c, isSync, 1))
    BY <2>1 DEF FrameOK
  <2>3. ListAt(c, Has(r), 1) = Has(r) /\ o = {} /\ c[1].held = {}
    BY <1>1, <2>1, <2>2 DEF ListAt, PassedOwn, FrameOK, Inherits
  <2>4. Has(r) = {x \in Sessions : c[1].opened[x] > 0}
    BY <2>2, <2>3 DEF Account
  <2>5. QED
    BY <1>1, <1>2, <2>4
<1>4. /\ chain' \in [Regions -> Seq(Frames)] /\ chain'[r] = << >> /\ Len(chain'[r]) = 0
      /\ \A q \in Regions : q # r => chain'[q] = chain[q]
  <2>1. << >> \in Seq(Frames)
    OBVIOUS
  <2>2. QED
    BY <1>1, <1>2, <2>1 DEF TypeOK
<1>5. TypeOK'
  BY <1>1, <1>2, <1>4 DEF TypeOK
<1>6. Opened'
  BY <1>1 DEF Inv, Opened
<1>7. Lists'
  <2>1. ASSUME NEW x \in Regions, locked'[x] # {}
        PROVE  \E q \in Regions : chain'[q] # << >> /\ Top(q)'.region = x
    <3>1. PICK q \in Regions : chain[q] # << >> /\ Top(q).region = x
      BY <1>1, <2>1 DEF Inv, Lists
    <3>2. q # r
      BY <1>1, <1>3, <2>1, <3>1 DEF Has
    <3>3. chain'[q] = chain[q] /\ Top(q)' = Top(q)
      BY <1>4, <3>2 DEF Top
    <3>4. QED
      BY <3>1, <3>3
  <2>2. QED
    BY <1>1, <2>1 DEF Inv, Lists
<1>8. Apart'
  <2> SUFFICES ASSUME NEW q1 \in Regions, NEW q2 \in Regions, q1 # q2,
                      NEW i \in 1..Len(chain'[q1]), NEW j \in 1..Len(chain'[q2])
               PROVE  chain'[q1][i].region # chain'[q2][j].region
    BY DEF Apart
  <2>1. q1 # r /\ q2 # r
    BY <1>4
  <2>2. QED
    BY <1>4, <2>1 DEF Inv, Apart
<1>9. ASSUME NEW q \in Regions PROVE ChainOK(q)'
  <2>1. CASE q = r
    BY <1>4, <2>1 DEF ChainOK
  <2>2. CASE q # r
    <3>1. chain'[q] = chain[q] /\ Has(q)' = Has(q)
      BY <1>1, <1>4, <2>2 DEF Has, Top
    <3>2. Spares(q)
      BY <1>1, <3>1 DEF Spares
    <3>3. QED
      BY <3>2, SparedChain
  <2>3. QED
    BY <2>1, <2>2
<1>10. QED
  BY <1>5, <1>6, <1>7, <1>8, <1>9 DEF Inv

\* A region that is ready for a call of the chain of p is member of no other one.
LEMMA ReadyIsAlone ==
  ASSUME Inv, NEW p \in Regions, chain[p] # << >>, Top(p).target # None,
         Ready(Top(p).target)
  PROVE  LET r == callee[Top(p).target]
         IN  /\ r \in Regions /\ r # Top(p).region /\ locked[r] = {}
             /\ \A q \in Regions : q # p =>
                  \A i \in 1..Len(chain[q]) : chain[q][i].region # r
             /\ r # p => /\ serving[r] \in Has(p) /\ callee[serving[r]] = r
                         /\ pending[serving[r]] = 0
<1> DEFINE c == chain[p]
           n == Len(c)
<1> PICK t : t = Top(p).target
  OBVIOUS
<1> PICK r : r = callee[t]
  OBVIOUS
<1>1. /\ c \in Seq(Frames) /\ n \in 1..n /\ n \in Nat /\ Top(p) = c[n]
      /\ Has(p) \subseteq 1..allocated
  BY TopIs DEF Inv
<1>2. t \in Has(p) /\ Top(p).opened[t] > 0 /\ t \in Sessions
  BY HasOpen, TopIs DEF Inv
<1>3. r \in Regions
  BY <1>1, <1>2 DEF Inv, Opened
<1>4. FrameOK(c, callee, Has(p), isOpen, isSync, n)
  BY <1>1, HasOpen DEF Stack
<1>5. OwnDoings(c, callee, n) /\ SyncIsCallers(c, callee, Has(p), isSync, n)
  BY <1>4 DEF FrameOK, ListAt, SyncAt
<1>6. r # Top(p).region
  BY <1>1, <1>2, <1>5 DEF OwnDoings
<1>7. /\ \A q \in Regions : q # p => \A i \in 1..Len(chain[q]) : chain[q][i].region # r
      /\ r # p => serving[r] \in Has(p) /\ callee[serving[r]] = r /\ pending[serving[r]] = 0
  <2>1. CASE isSync[t] > 0
    <3>1. PICK j \in 1..(n-1) : r = c[j].region
      BY <1>2, <1>5, <2>1 DEF SyncIsCallers
    <3>2. j \in 1..Len(c)
      BY <1>1, <3>1
    <3>3. \A q \in Regions : q # p => \A i \in 1..Len(chain[q]) : chain[q][i].region # r
      BY <3>1, <3>2 DEF Inv, Apart
    <3>4. ASSUME r # p
          PROVE  serving[r] \in Has(p) /\ callee[serving[r]] = r /\ pending[serving[r]] = 0
      <4>1. c[1].region = p
        BY HasOpen DEF Served
      <4>2. j \in 2..Len(c)
        BY <1>1, <3>1, <3>2, <3>4, <4>1
      <4>3. QED
        BY <3>1, <3>4, <4>2, CalledIsServed
    <3>5. QED
      BY <3>3, <3>4
  <2>2. CASE ~(isSync[t] > 0)
    <3>1. serving[r] = t /\ pending[t] = 0 /\ chain[r] = << >>
      BY <2>2 DEF Ready
    <3>2. ASSUME NEW q \in Regions, q # p, NEW i \in 1..Len(chain[q]), chain[q][i].region = r
          PROVE  FALSE
      <4>1. chain[q] \in Seq(Frames)
        BY DEF Inv, TypeOK
      <4>2. chain[q] # << >>
        BY <4>1, <3>2
      <4>3. q # r /\ Served(q)
        BY <3>1, <4>2, HasOpen
      <4>4. i \in 2..Len(chain[q])
        BY <3>2, <4>1, <4>3 DEF Served
      <4>5. serving[r] \in Has(q)
        BY <3>2, <4>3, <4>4, CalledIsServed
      <4>6. QED
        BY <1>2, <3>1, <3>2, <4>2, <4>5, ApartLists
    <3>3. QED
      BY <1>2, <3>1, <3>2
  <2>3. QED
    BY <2>1, <2>2
<1>8. locked[r] = {}
  <2> SUFFICES ASSUME locked[r] # {} PROVE FALSE
    OBVIOUS
  <2>1. PICK q \in Regions : chain[q] # << >> /\ Top(q).region = r
    BY <1>3 DEF Inv, Lists
  <2>2. Len(chain[q]) \in 1..Len(chain[q]) /\ Top(q) = chain[q][Len(chain[q])] /\ q # p
    BY <1>6, <2>1, TopIs DEF Inv
  <2>3. QED
    BY <1>7, <2>1, <2>2
<1>9. QED
  BY <1>3, <1>6, <1>7, <1>8

\* The execution of a synchronous call starts.
LEMMA BeginSyncInv ==
  ASSUME Inv, NEW p \in Regions, BeginSync(p) PROVE Inv'
<1> DEFINE c == chain[p]
           a == Top(p).region
           n == Len(c)
<1> PICK f : f = Top(p)
  OBVIOUS
<1> PICK r : r = callee[f.target]
  OBVIOUS
<1> PICK w : w = SessionFor(a, a)
  OBVIOUS
<1> PICK g : g = NewFrame(r, Has(p))
  OBVIOUS
<1> DEFINE M == Has(p) \union {w}
           d == Append(c, g)
<1>1. /\ c # << >> /\ f.target # None /\ Ready(f.target) /\ NewSession(w, a)
      /\ isOpen' = [s \in Sessions |-> IF s \in M THEN isOpen[s] + 1 ELSE isOpen[s]]
      /\ isSync' = [s \in Sessions |-> SyncAfterPass(s, Has(p), w)]
      /\ locked' = [locked EXCEPT ![a] = {}, ![r] = M]
      /\ chain' = [chain EXCEPT ![p] = d]
      /\ UNCHANGED <<freed, isSubmitted, pending, serving>>
  BY DEF BeginSync, Has, ListsAfterPass
<1>2. /\ TypeOK /\ c \in Seq(Frames) /\ f \in Frames /\ f = c[n] /\ n \in 1..n /\ n \in Nat
      /\ Has(p) \subseteq 1..allocated /\ 1..allocated \subseteq Sessions /\ a \in Regions
      /\ Has(p) = locked[a] /\ f.region = a
      /\ isOpen \in [Sessions -> Nat] /\ isSync \in [Sessions -> Nat]
  <2>1. TypeOK
    BY DEF Inv
  <2>2. /\ c \in Seq(Frames) /\ n \in 1..n /\ Top(p) = c[n] /\ Top(p) \in Frames
        /\ Has(p) \subseteq 1..allocated /\ 1..allocated \subseteq Sessions /\ a \in Regions
    BY <1>1, <2>1, TopIs
  <2>3. n \in Nat
    BY <2>2
  <2>4. Has(p) = locked[a] /\ f.region = a
    BY DEF Has
  <2>5. isOpen \in [Sessions -> Nat] /\ isSync \in [Sessions -> Nat]
    BY <2>1 DEF TypeOK
  <2> HIDE DEF c, a, n, d, M
  <2>6. QED
    BY <2>1, <2>2, <2>3, <2>4, <2>5 DEF n
<1>3. /\ Stack(c, callee, Has(p), isOpen, isSync) /\ Served(p)
      /\ \A x \in Has(p) : isOpen[x] > 0 /\ x \notin freed
  BY <1>1, HasOpen
<1>4. /\ r \in Regions /\ r # a /\ locked[r] = {}
      /\ \A q \in Regions : q # p => \A i \in 1..Len(chain[q]) : chain[q][i].region # r
      /\ r # p => serving[r] \in Has(p) /\ callee[serving[r]] = r /\ pending[serving[r]] = 0
  BY <1>1, ReadyIsAlone
<1>5. /\ w \in Sessions /\ w \in 1..allocated' /\ allocated' \in 0..MaxSessions
      /\ 1..allocated \subseteq 1..allocated' /\ allocated <= allocated'
      /\ callee' \in [Sessions -> Regions \union {None}] /\ callee'[w] = a
      /\ \A x \in 1..allocated : callee'[x] = callee[x]
      /\ w \in Has(p) \/ w > allocated
      /\ \A x \in Has(p) : callee'[x] = callee'[w] => x = w
      /\ \A x \in 1..allocated' : callee'[x] \in Regions
  BY <1>1, <1>2, NewSessionIs
<1>6. Usable(w, Has(p), isOpen, isSync) /\ Singles(w, Has(p), callee, callee')
  BY <1>2, <1>5 DEF Inv, Opened, Usable, Singles
<1>7. /\ g \in Frames /\ g.region = r /\ g.held = Has(p) /\ Records(g, Has(p), isOpen, isSync)
  <2>1. /\ g.region = r /\ g.held = Has(p) /\ g.target = None
        /\ \A s \in Sessions : /\ g.opened[s] = 0
                               /\ g.open[s] = IF s \in Has(p) THEN isOpen[s] ELSE 0
                               /\ g.sync[s] = IF s \in Has(p) THEN isSync[s] ELSE 0
    BY DEF NewFrame
  <2>2. /\ [s \in Sessions |-> 0] \in [Sessions -> Nat]
        /\ [s \in Sessions |-> IF s \in Has(p) THEN isOpen[s] ELSE 0] \in [Sessions -> Nat]
        /\ [s \in Sessions |-> IF s \in Has(p) THEN isSync[s] ELSE 0] \in [Sessions -> Nat]
    BY <1>2
  <2>3. Has(p) \in SUBSET Sessions
    BY <1>2
  <2>4. g \in Frames
    BY <1>4, <2>2, <2>3 DEF NewFrame, Frames
  <2>5. QED
    BY <2>1, <2>4 DEF Records
<1>8. /\ d \in Seq(Frames) /\ Len(d) = n + 1 /\ d # << >> /\ d[n+1] = g
      /\ \A i \in 1..n : d[i] = c[i]
  BY <1>2, <1>7
<1> HIDE DEF d
<1>9. /\ chain' \in [Regions -> Seq(Frames)] /\ chain'[p] = d
      /\ \A q \in Regions : q # p => chain'[q] = chain[q]
  BY <1>1, <1>2, <1>8 DEF TypeOK
<1>10. Top(p)' = g /\ chain'[p] # << >>
  BY <1>8, <1>9 DEF Top
<1>11. /\ locked'[a] = {} /\ locked'[r] = M
       /\ \A x \in Regions : x # a /\ x # r => locked'[x] = locked[x]
  BY <1>1, <1>2, <1>4 DEF TypeOK
<1>12. Has(p)' = M
  BY <1>7, <1>10, <1>11 DEF Has
<1>13. /\ isOpen' \in [Sessions -> Nat] /\ isSync' \in [Sessions -> Nat]
       /\ \A x \in Sessions : /\ isOpen'[x] = IF x \in M THEN isOpen[x] + 1 ELSE isOpen[x]
                              /\ isSync'[x] = isSync[x] +
                                   (IF x = w \/ (x \in Has(p) /\ isSync[x] > 0) THEN 1 ELSE 0)
  <2>1. \A x \in Sessions : SyncAfterPass(x, Has(p), w) \in Nat
    BY <1>2 DEF SyncAfterPass
  <2>2. isOpen' \in [Sessions -> Nat] /\ isSync' \in [Sessions -> Nat]
    BY <1>1, <1>2, <2>1
  <2>3. QED
    BY <1>1, <2>2 DEF SyncAfterPass
<1>14. TypeOK'
  <2>1. locked' \in [Regions -> SUBSET (1..allocated')]
    <3>1. \A q \in Regions : locked[q] \subseteq 1..allocated'
      BY <1>2, <1>5 DEF TypeOK
    <3>2. M \subseteq 1..allocated'
      BY <1>2, <1>5
    <3> HIDE DEF M
    <3>3. locked \in [Regions -> SUBSET (1..allocated)]
      BY <1>2 DEF TypeOK
    <3>4. QED
      BY <1>1, <1>2, <1>4, <3>1, <3>2, <3>3
  <2>2. serving' \in [Regions -> (1..allocated') \union {None}] /\ freed' \subseteq 1..allocated'
    BY <1>1, <1>2, <1>5 DEF TypeOK
  <2>3. QED
    BY <1>1, <1>2, <1>5, <1>9, <1>13, <2>1, <2>2 DEF TypeOK
<1>15. \A x \in Regions : x # a => M \cap locked[x] = {}
  <2> SUFFICES ASSUME NEW x \in Regions, x # a, NEW y \in M, y \in locked[x] PROVE FALSE
    OBVIOUS
  <2>1. y \notin Has(p)
    BY <1>2 DEF Inv, Lists
  <2>2. y > allocated /\ y \in 1..allocated /\ allocated \in Nat
    BY <1>2, <1>5, <2>1 DEF TypeOK
  <2>3. QED
    BY <2>2
<1>16. Lists'
  <2>1. \A x, y \in Regions : x # y => locked'[x] \cap locked'[y] = {}
    <3> HIDE DEF M
    <3>1. QED
      BY <1>11, <1>15 DEF Inv, Lists
  <2>2. ASSUME NEW x \in Regions, locked'[x] # {}
        PROVE  \E q \in Regions : chain'[q] # << >> /\ Top(q)'.region = x
    <3>1. CASE x = r
      BY <1>7, <1>10, <3>1
    <3>2. CASE x # r
      <4>1. x # a /\ locked[x] # {}
        BY <1>11, <2>2, <3>2
      <4>2. PICK q \in Regions : chain[q] # << >> /\ Top(q).region = x
        BY <4>1 DEF Inv, Lists
      <4>3. q # p /\ chain'[q] = chain[q] /\ Top(q)' = Top(q)
        BY <1>9, <4>1, <4>2 DEF Top
      <4>4. QED
        BY <4>2, <4>3
    <3>3. QED
      BY <3>1, <3>2
  <2>3. QED
    BY <2>1, <2>2 DEF Lists
<1>17. Opened'
  <2>1. ASSUME NEW x \in Sessions, isOpen'[x] > 0
        PROVE  x \notin freed' /\ \E q \in Regions : x \in locked'[q]
    <3>1. CASE x \in M
      <4>1. x \notin freed
        <5>1. CASE x \in Has(p)
          BY <1>3, <5>1
        <5>2. CASE x > allocated
          <6>1. freed \subseteq 1..allocated /\ allocated \in Nat
            BY <1>2 DEF TypeOK
          <6>2. x \in Nat
            BY DEF Sessions
          <6> HIDE DEF M
          <6>3. QED
            BY <5>2, <6>1, <6>2
        <5>3. QED
          BY <1>5, <3>1, <5>1, <5>2
      <4>2. QED
        BY <1>1, <1>4, <1>11, <3>1, <4>1
    <3>2. CASE x \notin M
      <4>1. isOpen[x] > 0
        BY <1>13, <2>1, <3>2
      <4>2. PICK q \in Regions : x \in locked[q] /\ x \notin freed
        BY <4>1 DEF Inv, Opened
      <4>3. q # a /\ q # r
        BY <1>2, <1>4, <3>2, <4>2
      <4>4. QED
        BY <1>1, <1>11, <4>2, <4>3
    <3>3. QED
      BY <3>1, <3>2
  <2>2. ASSUME NEW x \in Sessions, x > allocated' PROVE isOpen'[x] = 0 /\ isSync'[x] = 0
    <3>1. allocated \in Nat /\ allocated' \in Nat /\ x \in Nat
      BY <1>2, <1>5 DEF TypeOK, Sessions
    <3>2. x > allocated /\ x # w
      BY <1>5, <2>2, <3>1
    <3>3. x \notin Has(p)
      BY <1>2, <3>1, <3>2
    <3>4. isOpen[x] = 0 /\ isSync[x] = 0
      BY <3>2 DEF Inv, Opened
    <3>5. QED
      BY <1>13, <3>2, <3>3, <3>4
  <2>3. QED
    BY <1>5, <2>1, <2>2 DEF Opened
<1>18. Apart'
  <2>1. ASSUME NEW q \in Regions, q # p, NEW i \in 1..Len(d), NEW j \in 1..Len(chain[q])
        PROVE  d[i].region # chain[q][j].region
    <3>1. i = n + 1 \/ i \in 1..n
      BY <1>2, <1>8
    <3>2. CASE i = n + 1
      BY <1>4, <1>7, <1>8, <2>1, <3>2
    <3>3. CASE i \in 1..n
      BY <1>8, <2>1, <3>3 DEF Inv, Apart
    <3>4. QED
      BY <3>1, <3>2, <3>3
  <2> SUFFICES ASSUME NEW q1 \in Regions, NEW q2 \in Regions, q1 # q2,
                      NEW i \in 1..Len(chain'[q1]), NEW j \in 1..Len(chain'[q2])
               PROVE  chain'[q1][i].region # chain'[q2][j].region
    BY DEF Apart
  <2>2. CASE q1 = p
    BY <1>9, <2>1, <2>2
  <2>3. CASE q2 = p
    BY <1>9, <2>1, <2>3
  <2>4. CASE q1 # p /\ q2 # p
    BY <1>9, <2>4 DEF Inv, Apart
  <2>5. QED
    BY <2>2, <2>3, <2>4
<1>19. Stack(chain'[p], callee', Has(p)', isOpen', isSync')
  <2>1. Passes(Has(p), w, isOpen, isSync, isOpen', isSync')
    <3>1. \A x \in M : x \in Sessions
      BY <1>2, <1>5
    <3>2. QED
      BY <1>13, <3>1 DEF Passes
  <2>2. /\ callee'[w] = c[Len(c)].region /\ c[Len(c)].target # None
        /\ g.region = callee[c[Len(c)].target]
    BY <1>1, <1>2, <1>5, <1>7
  <2>3. Stack(d, callee', Has(p) \union {w}, isOpen', isSync')
    BY <1>1, <1>2, <1>3, <1>5, <1>6, <1>7, <1>8, <2>1, <2>2, PushStack DEF d
  <2>4. QED
    BY <1>9, <1>12, <2>3
<1>20. Served(p)'
  <2>1. d[1].region = p
    BY <1>2, <1>3, <1>8 DEF Served
  <2>2. ASSUME NEW i \in 2..Len(d), d[i].region # p
        PROVE  /\ serving[d[i].region] \in d[i].held
               /\ callee'[serving[d[i].region]] = d[i].region
               /\ pending[serving[d[i].region]] = 0
    <3>1. i = n + 1 \/ (i \in 2..n /\ d[i] = c[i])
      BY <1>2, <1>8
    <3>2. CASE i = n + 1
      <4>1. d[i].region = r /\ d[i].held = Has(p)
        BY <1>7, <1>8, <3>2
      <4>2. serving[r] \in Has(p) /\ callee[serving[r]] = r /\ pending[serving[r]] = 0
        BY <1>4, <2>2, <4>1
      <4>3. callee'[serving[r]] = callee[serving[r]]
        BY <1>2, <1>5, <4>2
      <4>4. QED
        BY <4>1, <4>2, <4>3
    <3>3. CASE i \in 2..n /\ d[i] = c[i]
      <4>1. /\ serving[c[i].region] \in c[i].held /\ callee[serving[c[i].region]] = c[i].region
            /\ pending[serving[c[i].region]] = 0
        BY <1>3, <2>2, <3>3 DEF Served
      <4>2. serving[c[i].region] \in Has(p)
        BY <2>2, <3>3, CalledIsServed
      <4>3. callee'[serving[c[i].region]] = callee[serving[c[i].region]]
        BY <1>2, <1>5, <4>2
      <4>4. QED
        BY <3>3, <4>1, <4>3
    <3>4. QED
      BY <3>1, <3>2, <3>3
  <2>3. QED
    BY <1>1, <1>9, <2>1, <2>2 DEF Served
<1>21. Within(p)
  <2>1. ASSUME NEW x \in 1..allocated
        PROVE  /\ callee'[x] = callee[x]
               /\ x \notin Has(p) => isOpen'[x] = isOpen[x] /\ isSync'[x] = isSync[x]
    <3>1. allocated \in Nat /\ x \in Sessions
      BY <1>2 DEF TypeOK
    <3>2. x \notin Has(p) => x # w
      BY <1>5, <3>1
    <3>3. ASSUME x \notin Has(p) PROVE isOpen'[x] = isOpen[x] /\ isSync'[x] = isSync[x]
      <4>1. x # w /\ x \notin M /\ isSync[x] \in Nat
        BY <1>2, <3>1, <3>2, <3>3
      <4>2. isOpen'[x] = isOpen[x]
        BY <1>13, <3>1, <4>1
      <4>3. isSync'[x] = isSync[x] + 0
        BY <1>13, <3>1, <3>3, <4>1
      <4>4. QED
        BY <4>1, <4>2, <4>3
    <3>4. QED
      BY <1>5, <3>3
  <2>2. ASSUME NEW q \in Regions, q # p, chain[q] # << >>
        PROVE  locked'[Top(q).region] = locked[Top(q).region]
    <3>1. Top(q).region # a /\ Top(q).region \in Regions
      BY <1>1, <2>2, ApartLists, TopIs DEF Inv
    <3>2. Len(chain[q]) \in 1..Len(chain[q]) /\ Top(q) = chain[q][Len(chain[q])]
      BY <2>2, TopIs DEF Inv
    <3>3. Top(q).region # r
      BY <1>4, <2>2, <3>2
    <3>4. QED
      BY <1>11, <3>1, <3>3
  <2>3. QED
    BY <1>9, <2>1, <2>2 DEF Within
<1>22. ASSUME NEW q \in Regions PROVE ChainOK(q)'
  <2>1. CASE q = p
    BY <1>19, <1>20, <2>1 DEF ChainOK, Has
  <2>2. CASE q # p
    <3>1. chain'[q] = chain[q]
      BY <1>9, <2>2
    <3>2. QED
      BY <1>1, <1>21, <2>2, <3>1, OtherChain
  <2>3. QED
    BY <2>1, <2>2
<1>23. QED
  BY <1>14, <1>16, <1>17, <1>18, <1>22 DEF Inv

\* The region that called the one whose code p runs.
Caller(p) == chain[p][Len(chain[p]) - 1].region

\* What the return of a synchronous call does to the lists.
LEMMA EndSyncIs ==
  ASSUME Inv, NEW p \in Regions, EndSync(p)
  PROVE  /\ chain[p] # << >> /\ Len(chain[p]) > 1 /\ HasClosed(Top(p))
         /\ Caller(p) \in Regions /\ Caller(p) # Top(p).region /\ locked[Caller(p)] = {}
         /\ Releases(Has(p), isOpen, isSync, isOpen', isSync')
         /\ GivesBack(Top(p), Has(p), isOpen, isOpen', isSync')
         /\ locked'[Top(p).region] = {} /\ locked'[Caller(p)] = Top(p).held
         /\ \A x \in Regions : x # Caller(p) /\ x # Top(p).region => locked'[x] = locked[x]
<1> DEFINE c == chain[p]
           n == Len(c)
           a == Caller(p)
           r == Top(p).region
<1>1. /\ c # << >> /\ n > 1 /\ HasClosed(Top(p))
      /\ isSync' = [s \in Sessions |-> SyncAfterRelease(s, Has(p))]
      /\ isOpen' = [s \in Sessions |->
                     IF s \in Has(p) /\ isOpen[s] > 0 THEN isOpen[s] - 1 ELSE isOpen[s]]
      /\ locked' = [locked EXCEPT ![r] = {}, ![a] = Has(p) \ OpenOnce(isOpen, Has(p))]
  BY DEF EndSync, Runs, NothingOpened, Has, Close, Closed, OpenOnce, HasClosed, Caller
<1>2. /\ TypeOK /\ c \in Seq(Frames) /\ n \in Nat /\ Top(p) = c[n] /\ r \in Regions
      /\ Has(p) \subseteq Sessions /\ isOpen \in [Sessions -> Nat] /\ isSync \in [Sessions -> Nat]
  <2>1. TypeOK
    BY DEF Inv
  <2>2. /\ c \in Seq(Frames) /\ Top(p) = c[n] /\ r \in Regions
        /\ Has(p) \subseteq Sessions
    BY <1>1, <2>1, TopIs
  <2>3. isOpen \in [Sessions -> Nat] /\ isSync \in [Sessions -> Nat]
    BY <2>1 DEF TypeOK
  <2>4. n \in Nat
    BY <2>2
  <2> HIDE DEF c, n, r
  <2>5. QED
    BY <2>1, <2>2, <2>3, <2>4
<1>3. n - 1 \in 1..n /\ n - 1 \in 1..Len(c) /\ n - 1 < Len(c) /\ n - 1 + 1 = n
  BY <1>1, <1>2
<1>4. c[n-1] \in Frames /\ a = c[n-1].region /\ a \in Regions
  <2>1. c[n-1] \in Frames
    BY <1>2, <1>3
  <2>2. QED
    BY <2>1 DEF Frames, Caller
<1>5. /\ Stack(c, callee, Has(p), isOpen, isSync) /\ \A x \in Has(p) : isOpen[x] > 0
  BY <1>1, HasOpen
<1>6. a # r
  <2>1. OwnDoings(c, callee, n-1)
    BY <1>3, <1>5 DEF Stack, FrameOK
  <2>2. /\ c[n-1].target # None /\ c[n-1].opened[c[n-1].target] > 0
        /\ callee[c[n-1].target] = c[n].region
    BY <1>3, <2>1 DEF OwnDoings
  <2>3. c[n-1].target \in Sessions
    BY <1>4, <2>2 DEF Frames
  <2>4. QED
    BY <1>2, <1>4, <2>1, <2>2, <2>3 DEF OwnDoings
<1>7. locked[a] = {}
  <2> SUFFICES ASSUME locked[a] # {} PROVE FALSE
    OBVIOUS
  <2>1. PICK q \in Regions : chain[q] # << >> /\ Top(q).region = a
    BY <1>4 DEF Inv, Lists
  <2>2. Len(chain[q]) \in 1..Len(chain[q]) /\ Top(q) = chain[q][Len(chain[q])]
    BY <2>1, TopIs DEF Inv
  <2>3. q = p
    BY <1>3, <1>4, <2>1, <2>2 DEF Inv, Apart
  <2>4. QED
    BY <1>6, <2>1, <2>3
<1>8. Releases(Has(p), isOpen, isSync, isOpen', isSync')
  <2>1. \A s \in Has(p) : isOpen'[s] = isOpen[s] - 1
    BY <1>1, <1>2, <1>5
  <2>2. \A s \in Has(p) : isSync'[s] = IF isSync[s] > 0 THEN isSync[s] - 1 ELSE isSync[s]
    BY <1>1, <1>2 DEF SyncAfterRelease
  <2>3. QED
    BY <2>1, <2>2 DEF Releases
<1>9. GivesBack(Top(p), Has(p), isOpen, isOpen', isSync')
  <2>1. HasClosed(c[Len(c)]) /\ Len(c) > 1
    BY <1>1, <1>2
  <2>2. GivesBack(c[Len(c)], Has(p), isOpen, isOpen', isSync')
    BY <1>2, <1>5, <1>8, <2>1, ReleasedIs
  <2>3. QED
    BY <1>2, <2>2
<1>10. /\ locked'[r] = {} /\ locked'[a] = Has(p) \ OpenOnce(isOpen, Has(p))
       /\ \A x \in Regions : x # a /\ x # r => locked'[x] = locked[x]
  <2>1. locked \in [Regions -> SUBSET (1..allocated)]
    BY <1>2 DEF TypeOK
  <2> HIDE DEF r, a
  <2>2. QED
    BY <1>1, <1>2, <1>4, <1>6, <2>1
<1>11. QED
  BY <1>1, <1>4, <1>6, <1>7, <1>8, <1>9, <1>10 DEF GivesBack

\* A synchronous call returns.
LEMMA EndSyncInv ==
  ASSUME Inv, NEW p \in Regions, EndSync(p) PROVE Inv'
<1> DEFINE c == chain[p]
           r == Top(p).region
           a == Caller(p)
<1> PICK f : f = Top(p)
  OBVIOUS
<1> PICK n : n = Len(c)
  OBVIOUS
<1> PICK d : d = [i \in 1..(n-1) |-> IF i = n - 1 THEN [c[i] EXCEPT !.target = None] ELSE c[i]]
  OBVIOUS
<1>1. /\ c # << >> /\ n > 1 /\ HasClosed(f)
      /\ a \in Regions /\ a # r /\ locked[a] = {}
      /\ Releases(Has(p), isOpen, isSync, isOpen', isSync')
      /\ GivesBack(f, Has(p), isOpen, isOpen', isSync')
      /\ locked'[r] = {} /\ locked'[a] = f.held
      /\ \A x \in Regions : x # a /\ x # r => locked'[x] = locked[x]
  BY EndSyncIs
<1>2. /\ isSync' = [s \in Sessions |-> SyncAfterRelease(s, Has(p))]
      /\ isOpen' = [s \in Sessions |->
                     IF s \in Has(p) /\ isOpen[s] > 0 THEN isOpen[s] - 1 ELSE isOpen[s]]
      /\ freed' = freed \union {s \in OpenOnce(isOpen, Has(p)) : ~isSubmitted[s]}
      /\ locked' = [locked EXCEPT ![r] = {}, ![a] = Has(p) \ OpenOnce(isOpen, Has(p))]
      /\ chain' = [chain EXCEPT ![p] = d]
      /\ UNCHANGED <<allocated, callee, isSubmitted, pending, serving>>
  BY DEF EndSync, Has, Close, Closed, OpenOnce, Caller
<1>3. /\ TypeOK /\ c \in Seq(Frames) /\ n \in Nat /\ f = c[n] /\ r \in Regions
      /\ Has(p) \subseteq 1..allocated /\ 1..allocated \subseteq Sessions /\ Has(p) = locked[r]
      /\ f \in Frames
  <2>1. TypeOK
    BY DEF Inv
  <2>2. /\ c \in Seq(Frames) /\ Top(p) = c[n] /\ r \in Regions
        /\ Has(p) \subseteq 1..allocated /\ 1..allocated \subseteq Sessions /\ Top(p) \in Frames
    BY <1>1, <2>1, TopIs
  <2>3. n \in Nat /\ Has(p) = locked[r]
    BY <2>2 DEF Has
  <2> HIDE DEF c, r
  <2>4. QED
    BY <2>1, <2>2, <2>3
<1>4. /\ Stack(c, callee, Has(p), isOpen, isSync) /\ \A x \in Has(p) : isOpen[x] > 0
  BY <1>1, HasOpen
<1>5. /\ f.held = Has(p) \ OpenOnce(isOpen, Has(p)) /\ f.held \subseteq Has(p)
  BY <1>1 DEF GivesBack
<1>6. isOpen \in [Sessions -> Nat] /\ isSync \in [Sessions -> Nat]
      /\ locked \in [Regions -> SUBSET (1..allocated)] /\ freed \subseteq 1..allocated
  BY <1>3 DEF TypeOK
<1>7. /\ d \in Seq(Frames) /\ Pops(c, d) /\ Len(d) = n - 1 /\ d # << >>
      /\ \A i \in 1..(n-1) : d[i].region = c[i].region /\ d[i].held = c[i].held
  <2> HIDE DEF c
  <2>1. \A i \in 1..(n-1) : c[i] \in Frames
    <3>1. 1..(n-1) \subseteq 1..Len(c)
      BY <1>3
    <3>2. QED
      BY <1>3, <3>1
  <2>2. \A i \in 1..(n-1) :
          /\ [c[i] EXCEPT !.target = None] \in Frames
          /\ [c[i] EXCEPT !.target = None].target = None
          /\ [c[i] EXCEPT !.target = None].region = c[i].region
          /\ [c[i] EXCEPT !.target = None].held = c[i].held
          /\ [c[i] EXCEPT !.target = None].open = c[i].open
          /\ [c[i] EXCEPT !.target = None].sync = c[i].sync
          /\ [c[i] EXCEPT !.target = None].opened = c[i].opened
    BY <2>1 DEF Frames
  <2>3. \A i \in 1..(n-1) : d[i] \in Frames
    BY <2>1, <2>2
  <2>4. n - 1 \in Nat /\ n - 1 \in 1..(n-1)
    BY <1>1, <1>3
  <2>5. d \in Seq(Frames) /\ Len(d) = n - 1
    <3>1. d \in [1..(n-1) -> Frames]
      BY <2>3
    <3>2. QED
      BY <2>4, <3>1
  <2>6. \A i \in 1..(n-1) : d[i].region = c[i].region /\ d[i].held = c[i].held
    BY <2>2
  <2>7. d # << >>
    BY <1>1, <1>3, <2>5
  <2>8. /\ d[n-1].region = c[n-1].region /\ d[n-1].held = c[n-1].held
        /\ d[n-1].open = c[n-1].open /\ d[n-1].sync = c[n-1].sync
        /\ d[n-1].opened = c[n-1].opened /\ d[n-1].target = None
    <3>1. d[n-1] = [c[n-1] EXCEPT !.target = None]
      BY <2>4
    <3>2. QED
      BY <2>2, <2>4, <3>1
  <2>9. \A i \in 1..(n-2) : d[i] = c[i]
    BY <1>1, <1>3
  <2>10. Pops(c, d)
    BY <2>5, <2>8, <2>9 DEF Pops
  <2>11. QED
    BY <2>5, <2>6, <2>7, <2>10
<1>8. /\ chain' \in [Regions -> Seq(Frames)] /\ chain'[p] = d
      /\ \A q \in Regions : q # p => chain'[q] = chain[q]
  BY <1>2, <1>3, <1>7 DEF TypeOK
<1>9. chain'[p] # << >> /\ Top(p)'.region = a
  <2>1. Top(p)' = d[n-1] /\ n - 1 \in 1..(n-1)
    <3>1. n - 1 \in 1..(n-1)
      BY <1>1, <1>3
    <3>2. Top(p)' = chain'[p][Len(chain'[p])]
      BY DEF Top
    <3>3. chain'[p][Len(chain'[p])] = d[n-1]
      BY <1>7, <1>8
    <3>4. QED
      BY <3>1, <3>2, <3>3
  <2>2. d[n-1].region = c[n-1].region
    BY <1>7, <2>1
  <2>3. QED
    BY <1>7, <1>8, <2>1, <2>2 DEF Caller
<1>10. Has(p)' = f.held
  BY <1>1, <1>9 DEF Has
<1>11. /\ isOpen' \in [Sessions -> Nat] /\ isSync' \in [Sessions -> Nat]
       /\ \A x \in Sessions : x \notin Has(p) => isOpen'[x] = isOpen[x] /\ isSync'[x] = isSync[x]
       /\ \A x \in Has(p) : isOpen'[x] = isOpen[x] - 1
  <2>1. \A x \in Sessions : SyncAfterRelease(x, Has(p)) \in Nat
    BY <1>6 DEF SyncAfterRelease
  <2>2. isSync' \in [Sessions -> Nat]
    BY <1>2, <2>1
  <2>3. isOpen' \in [Sessions -> Nat]
    BY <1>2, <1>6
  <2>4. \A x \in Sessions : x \notin Has(p) => isOpen'[x] = isOpen[x] /\ isSync'[x] = isSync[x]
    BY <1>2, <1>6 DEF SyncAfterRelease
  <2>5. QED
    BY <1>1, <2>2, <2>3, <2>4 DEF Releases
<1>12. TypeOK'
  <2>1. locked' \in [Regions -> SUBSET (1..allocated)]
    <3>1. Has(p) \ OpenOnce(isOpen, Has(p)) \subseteq 1..allocated
      BY <1>3
    <3> HIDE DEF r, a
    <3>2. QED
      BY <1>1, <1>2, <1>3, <1>6, <3>1
  <2>2. freed' \subseteq 1..allocated
    BY <1>2, <1>3, <1>6 DEF OpenOnce
  <2>3. QED
    BY <1>2, <1>3, <1>8, <1>11, <2>1, <2>2 DEF TypeOK
<1>13. Lists'
  <2>1. \A x \in Regions : x # r => f.held \cap locked[x] = {}
    <3>1. \A x \in Regions : x # r => locked[r] \cap locked[x] = {}
      BY <1>3 DEF Inv, Lists
    <3>2. f.held \subseteq locked[r]
      BY <1>3, <1>5
    <3> HIDE DEF r
    <3>3. QED
      BY <3>1, <3>2
  <2>2. \A x, y \in Regions : x # y => locked'[x] \cap locked'[y] = {}
    <3> HIDE DEF r, a
    <3>1. QED
      BY <1>1, <2>1 DEF Inv, Lists
  <2>3. ASSUME NEW x \in Regions, locked'[x] # {}
        PROVE  \E q \in Regions : chain'[q] # << >> /\ Top(q)'.region = x
    <3>1. CASE x = a
      BY <1>9, <3>1
    <3>2. CASE x # a
      <4>1. x # r /\ locked[x] # {}
        BY <1>1, <2>3, <3>2
      <4>2. PICK q \in Regions : chain[q] # << >> /\ Top(q).region = x
        BY <4>1 DEF Inv, Lists
      <4>3. q # p /\ chain'[q] = chain[q] /\ Top(q)' = Top(q)
        BY <1>8, <4>1, <4>2 DEF Top
      <4>4. QED
        BY <4>2, <4>3
    <3>3. QED
      BY <3>1, <3>2
  <2>4. QED
    BY <2>2, <2>3 DEF Lists
<1>14. Opened'
  <2>1. ASSUME NEW x \in Sessions, isOpen'[x] > 0
        PROVE  x \notin freed' /\ \E q \in Regions : x \in locked'[q]
    <3>1. isOpen[x] > 0 /\ x \notin OpenOnce(isOpen, Has(p))
      <4>1. isOpen[x] \in Nat
        BY <1>6
      <4>2. CASE x \in Has(p)
        <5>1. isOpen'[x] = isOpen[x] - 1
          BY <1>11, <4>2
        <5>2. QED
          BY <2>1, <4>1, <5>1 DEF OpenOnce
      <4>3. CASE x \notin Has(p)
        BY <1>11, <2>1, <4>3 DEF OpenOnce
      <4>4. QED
        BY <4>2, <4>3
    <3>2. PICK q \in Regions : x \in locked[q] /\ x \notin freed
      BY <3>1 DEF Inv, Opened
    <3>3. x \notin freed'
      BY <1>2, <3>1, <3>2
    <3>4. CASE q = r
      BY <1>1, <1>3, <1>5, <3>1, <3>2, <3>3, <3>4
    <3>5. CASE q # r
      BY <1>1, <3>2, <3>3, <3>5
    <3>6. QED
      BY <3>4, <3>5
  <2>2. ASSUME NEW x \in Sessions, x > allocated PROVE isOpen'[x] = 0 /\ isSync'[x] = 0
    <3>1. isOpen[x] = 0 /\ isSync[x] = 0
      BY <2>2 DEF Inv, Opened
    <3>2. x \notin Has(p)
      BY <1>4, <3>1
    <3>3. QED
      BY <1>11, <3>1, <3>2
  <2>3. \A x \in 1..allocated' : callee'[x] \in Regions
    BY <1>2 DEF Inv, Opened
  <2>4. QED
    BY <1>2, <2>1, <2>2, <2>3 DEF Opened
<1>15. Stack(chain'[p], callee', Has(p)', isOpen', isSync')
  <2>1. HasClosed(c[Len(c)]) /\ Len(c) > 1
    BY <1>1, <1>3
  <2>2. Stack(d, callee, c[Len(c)].held, isOpen', isSync')
    BY <1>1, <1>3, <1>4, <1>6, <1>7, <2>1, PopStack
  <2>3. QED
    BY <1>2, <1>3, <1>8, <1>10, <2>2
<1>16. Shortens(p)
  <2>1. 1 <= n - 1 /\ n - 1 <= n
    BY <1>1, <1>3
  <2>2. QED
    BY <1>7, <1>8, <2>1 DEF Shortens
<1>17. Within(p)
  <2>1. \A x \in 1..allocated :
          /\ callee'[x] = callee[x]
          /\ x \notin Has(p) => isOpen'[x] = isOpen[x] /\ isSync'[x] = isSync[x]
    BY <1>2, <1>3, <1>11
  <2>2. ASSUME NEW q \in Regions, q # p, chain[q] # << >>
        PROVE  locked'[Top(q).region] = locked[Top(q).region]
    <3>1. Top(q).region # r /\ Top(q).region \in Regions
      BY <1>1, <2>2, ApartLists, TopIs DEF Inv
    <3>2. Len(chain[q]) \in 1..Len(chain[q]) /\ Top(q) = chain[q][Len(chain[q])]
      BY <2>2, TopIs DEF Inv
    <3>3. n - 1 \in 1..Len(c) /\ a = c[n-1].region
      BY <1>1, <1>3 DEF Caller
    <3>4. Top(q).region # a
      BY <2>2, <3>2, <3>3 DEF Inv, Apart
    <3>5. QED
      BY <1>1, <3>1, <3>4
  <2>3. QED
    BY <1>8, <2>1, <2>2 DEF Within
<1>18. QED
  BY <1>1, <1>2, <1>12, <1>13, <1>14, <1>15, <1>16, <1>17, StepKept

\* Every step preserves the invariant.
LEMMA NextInv == Inv /\ [Next]_vars => Inv'
<1> SUFFICES ASSUME Inv, [Next]_vars PROVE Inv'
  OBVIOUS
<1>1. CASE Next
  <2>1. PICK p \in Regions : Code(p) \/ Processor(p)
    BY <1>1 DEF Next
  <2>2. CASE \E r \in Regions : OpenArgument(p, r)
    BY <2>2, OpenArgumentInv
  <2>3. CASE CloseArgument(p)
    BY <2>3, CloseArgumentInv
  <2>4. CASE AsyncCall(p)
    BY <2>4, AsyncCallInv
  <2>5. CASE SyncCall(p)
    BY <2>5, SyncCallInv
  <2>6. CASE BeginSync(p)
    BY <2>6, BeginSyncInv
  <2>7. CASE EndSync(p)
    BY <2>7, EndSyncInv
  <2>8. CASE Serve(p)
    BY <2>8, ServeInv
  <2>9. CASE BeginAsync(p)
    BY <2>9, BeginAsyncInv
  <2>10. CASE EndAsync(p)
    BY <2>10, EndAsyncInv
  <2>11. CASE EndSession(p)
    BY <2>11, EndSessionInv
  <2>12. QED
    BY <2>1, <2>2, <2>3, <2>4, <2>5, <2>6, <2>7, <2>8, <2>9, <2>10, <2>11
       DEF Code, Processor
<1>2. CASE UNCHANGED vars
  <2>1. UNCHANGED <<allocated, freed, callee, isOpen, isSync, isSubmitted, pending>>
        /\ UNCHANGED <<locked, serving, chain>>
    BY <1>2 DEF vars, sessionVars
  <2>2. TypeOK' /\ Lists' /\ Opened' /\ Apart'
    <3>1. TypeOK'
      BY <2>1 DEF Inv, TypeOK
    <3>2. Lists'
      BY <2>1 DEF Inv, Lists, Top
    <3>3. Opened' /\ Apart'
      BY <2>1 DEF Inv, Opened, Apart
    <3>4. QED
      BY <3>1, <3>2, <3>3
  <2>3. ASSUME NEW q \in Regions PROVE ChainOK(q)'
    <3>1. Has(q)' = Has(q)
      BY <2>1 DEF Has, Top
    <3>2. Spares(q)
      BY <2>1, <3>1 DEF Spares
    <3>3. QED
      BY <3>2, SparedChain
  <2>4. QED
    BY <2>2, <2>3 DEF Inv
<1>3. QED
  BY <1>1, <1>2

\* The inductive invariant holds in every behaviour of the lock passing.
THEOREM SpecInv == Spec => []Inv
<1>1. QED
  BY InitInv, NextInv, PTL DEF Spec

-----------------------------------------------------------------------------
(***************************************************************************)
(* What follows from the invariant.                                        *)
(***************************************************************************)

\* What the top frame of a chain knows of its callers and callees.
LEMMA TopKnows ==
  ASSUME Inv, NEW p \in Regions, chain[p] # << >>
  PROVE  LET c == chain[p]  n == Len(chain[p])
         IN  /\ n \in Nat /\ n \in 1..n /\ Top(p) = c[n]
             /\ OwnDoings(c, callee, n) /\ OnePerCallee(callee, Has(p))
             /\ SyncIsCallers(c, callee, Has(p), isSync, n)
<1> DEFINE c == chain[p]
           n == Len(c)
<1>1. /\ c \in Seq(Frames) /\ n \in 1..n /\ n \in Nat /\ Top(p) = c[n]
  BY TopIs DEF Inv
<1>2. FrameOK(c, callee, Has(p), isOpen, isSync, n)
  BY <1>1, HasOpen DEF Stack
<1>3. /\ OwnDoings(c, callee, n) /\ OnePerCallee(callee, Has(p))
      /\ SyncIsCallers(c, callee, Has(p), isSync, n)
  BY <1>2 DEF FrameOK, ListAt, SyncAt
<1>4. QED
  BY <1>1, <1>3

\* The variables stay in their domains: is_open and is_synchronized are never
\* decreased below 0.
THEOREM LocksTypeOK == Spec => []TypeOK
<1>1. Inv => TypeOK
  BY DEF Inv
<1>2. QED
  BY <1>1, SpecInv, PTL

\* The code of a region is executed by one chain of calls at a time.
THEOREM LocksOneChainPerRegion == Spec => []OneChainPerRegion
<1>1. Inv => OneChainPerRegion
  BY DEF Inv, Apart, OneChainPerRegion, Members
<1>2. QED
  BY <1>1, SpecInv, PTL

\* The regions marked as synchronized are exactly those that wait for the one
\* whose code runs: callbacks are recognized, and nothing else is taken for one.
THEOREM LocksCallbacksRecognized == Spec => []CallbacksRecognized
<1>1. Inv => CallbacksRecognized
  <2> SUFFICES ASSUME Inv, NEW p \in Regions, chain[p] # << >>
               PROVE  {callee[s] : s \in {x \in Has(p) : isSync[x] > 0}} = Callers(p)
    BY DEF CallbacksRecognized, Has
  <2>1. SyncIsCallers(chain[p], callee, Has(p), isSync, Len(chain[p]))
    BY TopKnows
  <2>2. ASSUME NEW r \in {callee[s] : s \in {x \in Has(p) : isSync[x] > 0}}
        PROVE  r \in Callers(p)
    <3>1. PICK s \in {x \in Has(p) : isSync[x] > 0} : r = callee[s]
      BY <2>2
    <3>2. PICK j \in 1..(Len(chain[p])-1) : callee[s] = chain[p][j].region
      BY <2>1, <3>1 DEF SyncIsCallers
    <3>3. QED
      BY <3>1, <3>2 DEF Callers
  <2>3. ASSUME NEW r \in Callers(p)
        PROVE  r \in {callee[s] : s \in {x \in Has(p) : isSync[x] > 0}}
    <3>1. PICK j \in 1..(Len(chain[p])-1) : r = chain[p][j].region
      BY <2>3 DEF Callers
    <3>2. PICK s \in Has(p) : isSync[s] > 0 /\ callee[s] = chain[p][j].region
      BY <2>1, <3>1 DEF SyncIsCallers
    <3>3. QED
      BY <3>1, <3>2
  <2>4. QED
    BY <2>2, <2>3
<1>2. QED
  BY <1>1, SpecInv, PTL

\* A session is open exactly as long as it is in the list of the region whose code
\* runs in some chain, and it is not freed before.
THEOREM LocksOpenIsLocked == Spec => []OpenIsLocked
<1>1. Inv => OpenIsLocked
  <2> SUFFICES ASSUME Inv PROVE OpenIsLocked
    OBVIOUS
  <2>1. \A s \in Sessions : isOpen[s] > 0 => s \notin freed /\ \E r \in Regions : s \in locked[r]
    BY DEF Inv, Opened
  <2>2. ASSUME NEW r \in Regions, NEW s \in Sessions, s \in locked[r]
        PROVE  isOpen[s] > 0 /\ \E p \in Regions : chain[p] # << >> /\ Top(p).region = r
    <3>1. PICK p \in Regions : chain[p] # << >> /\ Top(p).region = r
      BY <2>2 DEF Inv, Lists
    <3>2. s \in Has(p)
      BY <2>2, <3>1 DEF Has
    <3>3. isOpen[s] > 0
      BY <3>1, <3>2, HasOpen
    <3>4. QED
      BY <3>1, <3>3
  <2>3. QED
    BY <2>1, <2>2 DEF OpenIsLocked
<1>2. QED
  BY <1>1, SpecInv, PTL

\* No chain waits for itself, neither for a region that waits for the call nor for
\* one it has locked by another session.
THEOREM LocksNoSelfWait == Spec => []NoSelfWait
<1>1. Inv => NoSelfWait
  <2> SUFFICES ASSUME Inv, NEW p \in Regions, chain[p] # << >>, Top(p).target # None,
                      isSync[Top(p).target] = 0
               PROVE  /\ callee[Top(p).target] \notin Members(p)
                      /\ \A x \in Has(p) \ {Top(p).target} : callee[x] # callee[Top(p).target]
    BY DEF NoSelfWait, Has
  <2> PICK t : t = Top(p).target
    OBVIOUS
  <2> DEFINE c == chain[p]
             n == Len(c)
  <2>1. /\ n \in Nat /\ n \in 1..n /\ Top(p) = c[n] /\ OwnDoings(c, callee, n)
        /\ OnePerCallee(callee, Has(p)) /\ SyncIsCallers(c, callee, Has(p), isSync, n)
    BY TopKnows
  <2>2. t \in Has(p) /\ c[n].opened[t] > 0 /\ t \in Sessions
    BY <2>1, HasOpen, TopIs DEF Inv
  <2>3. \A x \in Has(p) \ {t} : callee[x] # callee[t]
    BY <2>1, <2>2 DEF OnePerCallee
  <2>4. callee[t] # c[n].region
    BY <2>1, <2>2 DEF OwnDoings
  <2>5. ASSUME NEW j \in 1..n, callee[t] = c[j].region PROVE FALSE
    <3>1. j \in 1..(n-1)
      BY <2>1, <2>4, <2>5
    <3>2. PICK x \in Has(p) : isSync[x] > 0 /\ callee[x] = c[j].region
      BY <2>1, <3>1 DEF SyncIsCallers
    <3>3. x = t
      BY <2>2, <2>3, <2>5, <3>2
    <3>4. isSync[t] > 0 /\ isSync[t] = 0
      BY <3>2, <3>3
    <3>5. QED
      BY <3>4
  <2>6. QED
    BY <2>3, <2>5 DEF Members
<1>2. QED
  BY <1>1, SpecInv, PTL

\* A synchronous call returns with the locks of its caller as they were.
THEOREM LocksCallsReturnLocks == Spec => CallsReturnLocks
<1>1. ASSUME Inv, NEW p \in Regions, EndSync(p) PROVE ReturnsLocks(p)
  <2>1. GivesBack(Top(p), Has(p), isOpen, isOpen', isSync') /\ locked'[Caller(p)] = Top(p).held
    BY <1>1, EndSyncIs
  <2>2. QED
    BY <2>1 DEF ReturnsLocks, GivesBack, Caller
<1>2. Inv /\ [Next]_vars => [\A p \in Regions : EndSync(p) => ReturnsLocks(p)]_vars
  BY <1>1
<1>3. QED
  BY <1>2, SpecInv, PTL DEF Spec, CallsReturnLocks
=============================================================================
