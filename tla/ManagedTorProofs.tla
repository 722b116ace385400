-------------------------- MODULE ManagedTorProofs --------------------------
(***************************************************************************)
(* Proofs about ManagedTor for every set of apps, every set of ports and   *)
(* every number of Tor processes: what a start and an exit leave behind,   *)
(* whose Tor an app talks to, and that a click comes back.                 *)
(***************************************************************************)
EXTENDS ManagedTor, SequenceTheorems, TLAPS

----------------------------------------------------------------------------
(* The inductive invariant.                                                *)

Own(a, t) == tor[t].app = a

\* The child that no failed start of the app has left.
Mine(a, t) == Own(a, t) /\ ~ tor[t].left

InUse(a) == runtime[a] # NoTor \/ ui[a] \in Starting

\* An app has a Tor only when its window is there and nobody waits, and that
\* Tor is one whose start has not failed.
Owned == \A a \in App : runtime[a] # NoTor =>
    ui[a] = "idle" /\ Mine(a, runtime[a])

\* Besides those that failed starts have left an app has one process at most,
\* none when it has no Tor and waits for none, and none alive after its window
\* is closed.
OneMine == \A a \in App :
    /\ \A s, t \in Process : Mine(a, s) /\ Mine(a, t) => s = t
    /\ ui[a] = "idle" /\ runtime[a] = NoTor => \A t \in Process : ~ Mine(a, t)
    /\ ui[a] = "closed" => \A t \in Process : Mine(a, t) => ~ Alive(t)

\* A Tor in use has its directory and the ports that were chosen for it.
Housed == \A a \in App : InUse(a) =>
    \A t \in Process : Mine(a, t) /\ Alive(t) =>
        tor[t].home /\ tor[t].socks = ports[a].socks /\ tor[t].control = ports[a].control

Listens(t, p) == Up(t) /\ p \in {tor[t].socks, tor[t].control}

\* No port has two listeners.
Apart ==
    /\ \A t \in Process, p \in foreign : ~ Listens(t, p)
    /\ \A s, t \in Process, p \in Port : Listens(s, p) /\ Listens(t, p) => s = t

IInv == TypeOK /\ Owned /\ OneMine /\ Housed /\ Apart

----------------------------------------------------------------------------
(* Tor processes and sequences of them.                                    *)

\* What the system sees of a process does not change, nor whose it is.
Like(x, y) ==
    /\ x.app = y.app /\ x.socks = y.socks /\ x.control = y.control
    /\ x.state = y.state /\ x.left = y.left

LEMMA NewTor ==
    ASSUME NEW a \in App, NEW p \in Ports
    PROVE  /\ Tor(a, p) \in Tors
           /\ Tor(a, p).app = a /\ Tor(a, p).state = "starting"
           /\ Tor(a, p).home /\ ~ Tor(a, p).left
           /\ Tor(a, p).socks = p.socks /\ Tor(a, p).control = p.control
  BY DEF Tors, Tor, Ports

LiveTors == [app : App, socks : Port, control : Port, home : BOOLEAN, left : BOOLEAN,
             state : {"starting", "up", "ready"}]

DeadTors == [app : App, socks : {0}, control : {0}, home : {FALSE}, left : BOOLEAN,
             state : {"dead"}]

LEMMA TwoKinds == Tors = LiveTors \cup DeadTors
  BY DEF Tors, LiveTors, DeadTors

LEMMA EndedTor ==
    ASSUME NEW x \in Tors
    PROVE  /\ Ended(x) \in Tors
           /\ Ended(x).app = x.app /\ Ended(x).state = "dead"
           /\ Ended(x).left = x.left
  <1>1. CASE x \in LiveTors
    BY <1>1, TwoKinds DEF LiveTors, DeadTors, Ended
  <1>2. CASE x \in DeadTors
    BY <1>2, TwoKinds DEF DeadTors, Ended
  <1>. QED
    BY <1>1, <1>2, TwoKinds

\* Its directory is removed.
LEMMA HomelessTor ==
    ASSUME NEW x \in Tors
    PROVE  [x EXCEPT !.home = FALSE] \in Tors /\ Like([x EXCEPT !.home = FALSE], x)
  <1>1. CASE x \in LiveTors
    BY <1>1, TwoKinds DEF LiveTors, Like
  <1>2. CASE x \in DeadTors
    BY <1>2, TwoKinds DEF DeadTors, Like
  <1>. QED
    BY <1>1, <1>2, TwoKinds

\* Its start fails.
LEMMA LeftTor ==
    ASSUME NEW x \in Tors
    PROVE  LET y == [x EXCEPT !.left = TRUE]
           IN  /\ y \in Tors /\ y.left
               /\ y.app = x.app /\ y.state = x.state /\ y.home = x.home
               /\ y.socks = x.socks /\ y.control = x.control
  <1>1. CASE x \in LiveTors
    BY <1>1, TwoKinds DEF LiveTors
  <1>2. CASE x \in DeadTors
    BY <1>2, TwoKinds DEF DeadTors
  <1>. QED
    BY <1>1, <1>2, TwoKinds

\* It binds its ports, or is connected.
LEMMA MovedTor ==
    ASSUME NEW x \in Tors, x.state # "dead", NEW s \in {"up", "ready"}
    PROVE  LET y == [x EXCEPT !.state = s]
           IN  /\ y \in Tors /\ y.state = s
               /\ y.app = x.app /\ y.left = x.left /\ y.home = x.home
               /\ y.socks = x.socks /\ y.control = x.control
  <1>1. x \in LiveTors
    BY TwoKinds DEF DeadTors
  <1>. QED
    BY <1>1, TwoKinds DEF LiveTors

LEMMA Removed ==
    ASSUME tor \in Seq(Tors), NEW a \in App
    PROVE  /\ Homeless(a) \in Seq(Tors) /\ Len(Homeless(a)) = Len(tor)
           /\ \A t \in Process : Like(Homeless(a)[t], tor[t])
           /\ \A t \in Process : tor[t].app # a => Homeless(a)[t] = tor[t]
  <1>. DEFINE new(t) == IF DirOf(tor[t].app) = DirOf(a) THEN [tor[t] EXCEPT !.home = FALSE]
                        ELSE tor[t]
  <1>1. Len(tor) \in Nat /\ \A t \in 1..Len(tor) : tor[t] \in Tors
    OBVIOUS
  <1>2. \A t \in 1..Len(tor) : new(t) \in Tors /\ Like(new(t), tor[t])
    BY <1>1, HomelessTor DEF Like
  <1>3. \A t \in 1..Len(tor) : tor[t].app # a => new(t) = tor[t]
    BY DEF DirOf
  <1>4. Homeless(a) = [t \in 1..Len(tor) |-> new(t)]
    BY DEF Homeless, Process
  <1>. HIDE DEF new
  <1>. QED
    BY <1>1, <1>2, <1>3, <1>4 DEF Process

LEMMA Changed ==
    ASSUME tor \in Seq(Tors), NEW t \in Process, NEW x \in Tors,
           tor' = [tor EXCEPT ![t] = x]
    PROVE  /\ tor' \in Seq(Tors) /\ Len(tor') = Len(tor)
           /\ tor'[t] = x
           /\ \A s \in Process : s # t => tor'[s] = tor[s]
  BY ExceptSeq DEF Process

LEMMA InitInv == Init => IInv
  <1>. SUFFICES ASSUME Init PROVE IInv
    OBVIOUS
  <1>1. tor \in Seq(Tors) /\ Len(tor) = 0 /\ Process = {}
    BY EmptySeq DEF Init, Process
  <1>2. TypeOK
    BY <1>1, ManagedAssumption DEF Init, TypeOK, NoTor
  <1>. QED
    BY <1>1, <1>2 DEF Init, IInv, Owned, OneMine, Housed, InUse, Apart, Starting, NoTor

----------------------------------------------------------------------------
(* What the steps have in common.                                          *)

\* Nobody begins to listen.
LEMMA ApartKept ==
    ASSUME Apart, foreign' = foreign,
           \A t \in Process' : Up(t)' =>
               /\ t \in Process /\ Up(t)
               /\ tor'[t].socks = tor[t].socks /\ tor'[t].control = tor[t].control
    PROVE  Apart'
  BY DEF Apart, Listens

\* No process is spawned, none that was left is taken back, and none comes
\* back to life.
Fewer ==
    /\ Process' = Process
    /\ \A t \in Process :
          /\ tor'[t].app = tor[t].app
          /\ tor[t].left => tor'[t].left
          /\ Alive(t)' => Alive(t)

LEMMA OneMineKept ==
    ASSUME OneMine, Fewer,
           \A b \in App :
               /\ ui'[b] = "idle" /\ runtime'[b] = NoTor =>
                     \/ ui[b] = "idle" /\ runtime[b] = NoTor
                     \/ \A t \in Process : ~ Mine(b, t)'
               /\ ui'[b] = "closed" =>
                     \/ ui[b] = "closed"
                     \/ \A t \in Process : Mine(b, t)' => ~ Alive(t)'
    PROVE  OneMine'
  BY DEF OneMine, Fewer, Mine, Own

\* Nobody but who starts one gets a Tor, and its ports stay.
LEMMA HousedKept ==
    ASSUME Housed, Fewer,
           \A b \in App : InUse(b)' => InUse(b) /\ ports'[b] = ports[b],
           \A b \in App, t \in Process : InUse(b)' /\ Mine(b, t)' /\ Alive(t)' =>
               /\ tor[t].home => tor'[t].home
               /\ tor'[t].socks = tor[t].socks /\ tor'[t].control = tor[t].control
    PROVE  Housed'
  <1>. SUFFICES ASSUME NEW b \in App, InUse(b)', NEW t \in Process', Mine(b, t)', Alive(t)'
                PROVE  /\ tor'[t].home
                       /\ tor'[t].socks = ports'[b].socks
                       /\ tor'[t].control = ports'[b].control
    BY DEF Housed
  <1>1. t \in Process /\ Mine(b, t) /\ Alive(t)
    BY DEF Fewer, Mine, Own
  <1>. QED
    BY <1>1 DEF Housed

LEMMA SameTor ==
    ASSUME tor' = tor
    PROVE  /\ Fewer
           /\ \A t \in Process' : Up(t)' => t \in Process /\ Up(t)
  BY DEF Fewer, Process, Alive, Up

\* The UI thread of an app waits for something else.
LEMMA Waits ==
    ASSUME IInv, NEW a \in App, NEW next \in Starting, ui[a] \in Starting,
           Goes(a, next), UNCHANGED <<ports, tor, runtime, foreign>>
    PROVE  IInv'
  <1>1. ui' = [ui EXCEPT ![a] = next] /\ ui'[a] \in Starting
    BY DEF IInv, TypeOK, Goes
  <1>2. TypeOK'
    BY <1>1 DEF IInv, TypeOK, Process
  <1>3. Owned'
    BY <1>1 DEF IInv, TypeOK, Owned, Starting, Mine, Own
  <1>4. OneMine'
    BY <1>1, OneMineKept, SameTor DEF IInv, TypeOK, Starting
  <1>5. Housed'
    BY <1>1, HousedKept, SameTor DEF IInv, TypeOK, InUse
  <1>6. Apart'
    BY ApartKept, SameTor DEF IInv
  <1>. QED
    BY <1>2, <1>3, <1>4, <1>5, <1>6 DEF IInv

\* A start fails after the spawn.
LEMMA Failed ==
    ASSUME IInv, NEW a \in App, ui[a] \in Starting, Fail(a)
    PROVE  IInv'
  <1>. DEFINE new(t) == IF t \in Child(a) THEN [tor[t] EXCEPT !.left = TRUE] ELSE tor[t]
  <1>1. /\ ui' = [ui EXCEPT ![a] = "idle"] /\ runtime' = runtime /\ foreign' = foreign
        /\ ports' = [ports EXCEPT ![a] = NoPorts]
        /\ runtime[a] = NoTor
    BY DEF IInv, Owned, Starting, Fail, Goes
  <1>2. Len(tor) \in Nat /\ \A t \in 1..Len(tor) : tor[t] \in Tors
    BY DEF IInv, TypeOK
  <1>3. \A t \in 1..Len(tor) :
           /\ new(t) \in Tors /\ new(t).app = tor[t].app
           /\ new(t).socks = tor[t].socks /\ new(t).control = tor[t].control
           /\ new(t).state = tor[t].state /\ new(t).home = tor[t].home
           /\ tor[t].left => new(t).left
           /\ tor[t].app = a => new(t).left
           /\ tor[t].app # a => new(t) = tor[t]
    BY <1>2, LeftTor DEF Child, Process
  <1>4. tor' = [t \in 1..Len(tor) |-> new(t)]
    BY DEF Fail, Process
  <1>. HIDE DEF new
  <1>5. tor' \in Seq(Tors) /\ Len(tor') = Len(tor) /\ Process' = Process
    BY <1>2, <1>3, <1>4 DEF Process
  <1>6. \A t \in Process : tor'[t] = new(t)
    BY <1>4 DEF Process
  <1>7. Fewer
    BY <1>3, <1>5, <1>6 DEF Fewer, Alive, Process
  <1>8. TypeOK'
    <2>1. \A b \in App : runtime'[b] # NoTor =>
             runtime'[b] \in Process' /\ tor'[runtime'[b]].app = b
      BY <1>1, <1>3, <1>5, <1>6 DEF IInv, TypeOK, Process
    <2>. QED
      BY <1>1, <1>5, <2>1 DEF IInv, TypeOK
  <1>9. Owned'
    <2>1. \A b \in App : runtime[b] # NoTor => b # a /\ runtime[b] \in Process
      BY <1>1 DEF IInv, TypeOK
    <2>2. \A b \in App : runtime[b] # NoTor => Mine(b, runtime[b])' /\ ui'[b] = "idle"
      BY <2>1, <1>1, <1>3, <1>6 DEF IInv, TypeOK, Owned, Mine, Own, Process
    <2>. QED
      BY <1>1, <2>2 DEF Owned
  <1>10. OneMine'
    <2>1. \A t \in Process : ~ Mine(a, t)'
      BY <1>3, <1>6 DEF Mine, Own, Process
    <2>2. \A b \in App \ {a} : ui'[b] = ui[b] /\ runtime'[b] = runtime[b]
      BY <1>1 DEF IInv, TypeOK
    <2>3. ui'[a] = "idle"
      BY <1>1 DEF IInv, TypeOK
    <2>. QED
      BY <1>7, <2>1, <2>2, <2>3, OneMineKept DEF IInv
  <1>11. Housed'
    <2>1. \A b \in App : InUse(b)' => InUse(b) /\ ports'[b] = ports[b]
      BY <1>1 DEF IInv, TypeOK, InUse, Starting
    <2>. QED
      BY <1>3, <1>6, <1>7, <2>1, HousedKept DEF IInv, Process
  <1>12. Apart'
    BY <1>1, <1>3, <1>5, <1>6, ApartKept DEF IInv, Up, Process
  <1>. QED
    BY <1>8, <1>9, <1>10, <1>11, <1>12 DEF IInv

\* A start succeeds: the Tor it hands over is the one it has spawned.
LEMMA Adopted ==
    ASSUME IInv, NEW a \in App, ui[a] \in Starting, Adopt(a)
    PROVE  IInv'
  <1>1. PICK t \in Child(a) : runtime' = [runtime EXCEPT ![a] = t]
    BY DEF Adopt
  <1>2. t \in Process /\ Mine(a, t) /\ t \in 1..MaxTor
    BY ManagedAssumption DEF Child, Process, IInv, TypeOK, Mine, Own
  <1>3. /\ ui' = [ui EXCEPT ![a] = "idle"]
        /\ UNCHANGED <<ports, tor, foreign>>
    BY DEF Adopt, Goes
  <1>4. TypeOK'
    BY <1>1, <1>2, <1>3 DEF IInv, TypeOK, Process, Mine, Own
  <1>5. Owned'
    BY <1>1, <1>2, <1>3 DEF IInv, TypeOK, Owned, Mine, Own
  <1>6. runtime'[a] # NoTor
    BY <1>1, <1>2, ManagedAssumption DEF NoTor, IInv, TypeOK
  <1>7. OneMine'
    BY <1>1, <1>3, <1>6, OneMineKept, SameTor DEF IInv, TypeOK
  <1>8. Housed'
    BY <1>1, <1>3, HousedKept, SameTor DEF IInv, TypeOK, InUse
  <1>9. Apart'
    BY <1>3, ApartKept, SameTor DEF IInv
  <1>. QED
    BY <1>4, <1>5, <1>7, <1>8, <1>9 DEF IInv

\* A directory is removed, where no Tor is in use that lives in it.
LEMMA Wiped ==
    ASSUME IInv, NEW a \in App, ui[a] = "idle", runtime[a] = NoTor, tor' = Homeless(a),
           UNCHANGED <<ui, ports, runtime, foreign>>
    PROVE  IInv'
  <1>1. /\ tor' \in Seq(Tors) /\ Len(tor') = Len(tor)
        /\ \A t \in Process : Like(tor'[t], tor[t])
        /\ \A t \in Process : tor[t].app # a => tor'[t] = tor[t]
    BY Removed DEF IInv, TypeOK
  <1>2. Process' = Process
    BY <1>1 DEF Process
  <1>3. Fewer
    BY <1>1, <1>2 DEF Fewer, Like, Alive
  <1>4. TypeOK'
    BY <1>1, <1>2 DEF IInv, TypeOK, Like
  <1>5. Owned'
    BY <1>1 DEF IInv, TypeOK, Owned, Mine, Own, Like
  <1>6. OneMine'
    BY <1>3, OneMineKept DEF IInv
  <1>7. Housed'
    <2>1. \A b \in App, t \in Process : InUse(b)' /\ Mine(b, t)' => tor'[t] = tor[t]
      BY <1>1 DEF InUse, Mine, Own, Like, Starting
    <2>2. \A b \in App : InUse(b)' => InUse(b)
      BY DEF InUse
    <2>. QED
      BY <1>3, <2>1, <2>2, HousedKept DEF IInv
  <1>8. Apart'
    BY <1>1, <1>2, ApartKept DEF IInv, Up, Like
  <1>. QED
    BY <1>4, <1>5, <1>6, <1>7, <1>8 DEF IInv

----------------------------------------------------------------------------
(* One lemma for every action with steps of its own.                       *)

LEMMA StartFailsStep ==
    ASSUME IInv, NEW a \in App, StartFails(a)
    PROVE  IInv'
  <1>1. CASE tor' = tor
    BY <1>1 DEF StartFails, IInv, TypeOK, Owned, OneMine, Housed, InUse, Apart, Listens, Mine,
                Own, Alive, Up, Process
  <1>2. CASE tor' = Homeless(a)
    BY <1>2, Wiped DEF StartFails, Needed
  <1>. QED
    BY <1>1, <1>2 DEF StartFails

LEMMA StartStep ==
    ASSUME IInv, NEW a \in App, Start(a)
    PROVE  IInv'
  <1>0. PICK n \in Nat : n = Len(tor) + 1
    BY DEF IInv, TypeOK
  <1>1. PICK p \in Ports : /\ ports' = [ports EXCEPT ![a] = p]
                           /\ tor' = Append(Homeless(a), Tor(a, p))
    BY DEF Start
  <1>2. /\ Homeless(a) \in Seq(Tors) /\ Len(Homeless(a)) = Len(tor)
        /\ \A t \in Process : Like(Homeless(a)[t], tor[t])
        /\ \A t \in Process : tor[t].app # a => Homeless(a)[t] = tor[t]
    BY Removed DEF IInv, TypeOK
  <1>3. /\ Len(tor) \in Nat
        /\ tor' \in Seq(Tors) /\ Len(tor') = n /\ tor'[n] = Tor(a, p)
        /\ \A t \in 1..Len(tor) : tor'[t] = Homeless(a)[t]
    BY <1>0, <1>1, <1>2, NewTor DEF IInv, TypeOK
  <1>4. Process' = Process \cup {n} /\ n \notin Process
    BY <1>0, <1>3 DEF Process
  <1>5. /\ \A t \in Process : Like(tor'[t], tor[t])
        /\ \A t \in Process : tor[t].app # a => tor'[t] = tor[t]
    BY <1>2, <1>3 DEF Process
  <1>6. /\ ui' = [ui EXCEPT ![a] = "socks"] /\ runtime' = runtime /\ foreign' = foreign
        /\ runtime[a] = NoTor /\ ui[a] = "idle"
    BY DEF Start, Goes, Needed
  <1>7. /\ ui'[a] = "socks" /\ ports'[a] = p
        /\ \A b \in App \ {a} : ui'[b] = ui[b] /\ ports'[b] = ports[b]
    BY <1>1, <1>6 DEF IInv, TypeOK
  <1>8. TypeOK'
    <2>1. Len(tor') <= MaxTor
      BY <1>0, <1>3, ManagedAssumption DEF Start
    <2>2. \A b \in App : runtime'[b] # NoTor =>
             runtime'[b] \in Process' /\ tor'[runtime'[b]].app = b
      BY <1>4, <1>5, <1>6 DEF IInv, TypeOK, Like
    <2>3. ports' \in [App -> Ports \cup {NoPorts}]
      BY <1>1 DEF IInv, TypeOK
    <2>4. ui' \in [App -> Starting \cup {"idle", "closed", "killed"}]
      BY <1>6 DEF IInv, TypeOK, Starting
    <2>. QED
      BY <1>3, <1>6, <2>1, <2>2, <2>3, <2>4 DEF IInv, TypeOK
  <1>9. Owned'
    BY <1>5, <1>6, <1>7 DEF IInv, TypeOK, Owned, Mine, Own, Like
  <1>10. \A t \in Process : ~ Mine(a, t)'
    BY <1>5, <1>6 DEF IInv, OneMine, Mine, Own, Like
  <1>11. /\ Mine(a, n)' /\ \A b \in App \ {a} : ~ Mine(b, n)'
         /\ tor'[n].home /\ ~ Up(n)'
         /\ tor'[n].socks = p.socks /\ tor'[n].control = p.control
    BY <1>3, NewTor DEF Mine, Own, Up
  <1>12. \A b \in App \ {a}, t \in Process : Mine(b, t)' => Mine(b, t) /\ tor'[t] = tor[t]
    BY <1>5 DEF Mine, Own, Like
  <1>13. OneMine'
    <2>1. ASSUME NEW b \in App
          PROVE  /\ \A s, t \in Process' : Mine(b, s)' /\ Mine(b, t)' => s = t
                 /\ ui'[b] = "idle" /\ runtime'[b] = NoTor => \A t \in Process' : ~ Mine(b, t)'
                 /\ ui'[b] = "closed" => \A t \in Process' : Mine(b, t)' => ~ Alive(t)'
      <3>1. CASE b = a
        BY <3>1, <1>4, <1>7, <1>10
      <3>2. CASE b # a
        <4>1. \A t \in Process' : Mine(b, t)' => t \in Process /\ Mine(b, t) /\ (Alive(t)' => Alive(t))
          BY <3>2, <1>4, <1>11, <1>12 DEF Alive
        <4>. QED
          BY <3>2, <4>1, <1>6, <1>7 DEF IInv, OneMine
      <3>. QED
        BY <3>1, <3>2
    <2>. QED
      BY <2>1 DEF OneMine
  <1>14. Housed'
    <2>1. ASSUME NEW b \in App, InUse(b)', NEW t \in Process', Mine(b, t)', Alive(t)'
          PROVE  /\ tor'[t].home
                 /\ tor'[t].socks = ports'[b].socks
                 /\ tor'[t].control = ports'[b].control
      <3>1. CASE b = a
        BY <3>1, <2>1, <1>4, <1>7, <1>10, <1>11
      <3>2. CASE b # a
        <4>1. t \in Process /\ Mine(b, t) /\ tor'[t] = tor[t]
          BY <3>2, <2>1, <1>4, <1>11, <1>12
        <4>2. InUse(b) /\ Alive(t) /\ ports'[b] = ports[b]
          BY <3>2, <2>1, <4>1, <1>6, <1>7 DEF InUse, Alive
        <4>. QED
          BY <4>1, <4>2 DEF IInv, Housed
      <3>. QED
        BY <3>1, <3>2
    <2>. QED
      BY <2>1 DEF Housed
  <1>15. Apart'
    <2>1. \A t \in Process' : Up(t)' =>
             /\ t \in Process /\ Up(t)
             /\ tor'[t].socks = tor[t].socks /\ tor'[t].control = tor[t].control
      BY <1>4, <1>5, <1>11 DEF Up, Like
    <2>. QED
      BY <1>6, <2>1, ApartKept DEF IInv
  <1>. QED
    BY <1>8, <1>9, <1>13, <1>14, <1>15 DEF IInv

LEMMA CloseStep ==
    ASSUME IInv, NEW a \in App, Close(a)
    PROVE  IInv'
  <1>1. /\ ui' = [ui EXCEPT ![a] = "closed"] /\ runtime' = [runtime EXCEPT ![a] = NoTor]
        /\ ports' = [ports EXCEPT ![a] = NoPorts] /\ foreign' = foreign
        /\ ui[a] = "idle"
    BY DEF Close, Goes
  <1>2. /\ tor' \in Seq(Tors) /\ Len(tor') = Len(tor)
        /\ \A t \in Process : tor[t].app # a => tor'[t] = tor[t]
        /\ \A t \in Process : \/ Like(tor'[t], tor[t])
                              \/ /\ tor'[t].app = tor[t].app /\ tor'[t].state = "dead"
                                 /\ tor'[t].left = tor[t].left
        /\ runtime[a] # NoTor => tor'[runtime[a]].state = "dead"
    <2>1. CASE runtime[a] = NoTor
      BY <2>1 DEF Close, IInv, TypeOK, Like
    <2>2. CASE runtime[a] # NoTor
      <3>. DEFINE r == runtime[a]
      <3>1. /\ Homeless(a) \in Seq(Tors) /\ Len(Homeless(a)) = Len(tor)
            /\ \A t \in Process : Like(Homeless(a)[t], tor[t])
            /\ \A t \in Process : tor[t].app # a => Homeless(a)[t] = tor[t]
        BY Removed DEF IInv, TypeOK
      <3>2. r \in Process /\ tor[r].app = a
        BY <2>2 DEF IInv, TypeOK
      <3>. DEFINE x == Ended(Homeless(a)[r])
      <3>3. tor' = [Homeless(a) EXCEPT ![r] = x]
        BY <2>2 DEF Close
      <3>4. Homeless(a)[r] \in Tors
        BY <3>1, <3>2 DEF Process
      <3>5. x \in Tors /\ x.app = tor[r].app /\ x.state = "dead" /\ x.left = tor[r].left
        BY <3>1, <3>2, <3>4, EndedTor DEF Like
      <3>. HIDE DEF x
      <3>6. r \in 1..Len(Homeless(a))
        BY <3>1, <3>2 DEF Process
      <3>7. /\ tor' \in Seq(Tors) /\ Len(tor') = Len(tor) /\ tor'[r] = x
            /\ \A t \in Process : t # r => tor'[t] = Homeless(a)[t]
        BY <3>1, <3>3, <3>5, <3>6, ExceptSeq DEF Process
      <3>. HIDE DEF r
      <3>8. /\ \A t \in Process : tor[t].app # a => tor'[t] = tor[t]
            /\ \A t \in Process : \/ Like(tor'[t], tor[t])
                                  \/ /\ tor'[t].app = tor[t].app /\ tor'[t].state = "dead"
                                     /\ tor'[t].left = tor[t].left
        BY <3>1, <3>2, <3>5, <3>7
      <3>. QED
        BY <3>5, <3>7, <3>8 DEF r
    <2>. QED
      BY <2>1, <2>2
  <1>3. Process' = Process
    BY <1>2 DEF Process
  <1>4. Fewer
    BY <1>2, <1>3 DEF Fewer, Like, Alive
  <1>5. \A b \in App \ {a} : ui'[b] = ui[b] /\ runtime'[b] = runtime[b] /\ ports'[b] = ports[b]
    BY <1>1 DEF IInv, TypeOK
  <1>6. ui'[a] = "closed" /\ runtime'[a] = NoTor
    BY <1>1 DEF IInv, TypeOK
  <1>7. TypeOK'
    <2>1. /\ ui' \in [App -> Starting \cup {"idle", "closed", "killed"}]
          /\ runtime' \in [App -> 0..MaxTor]
          /\ ports' \in [App -> Ports \cup {NoPorts}]
      BY <1>1, ManagedAssumption DEF IInv, TypeOK, NoTor
    <2>2. \A b \in App : runtime'[b] # NoTor =>
             runtime'[b] \in Process' /\ tor'[runtime'[b]].app = b
      BY <1>2, <1>3, <1>5, <1>6 DEF IInv, TypeOK
    <2>. QED
      BY <1>1, <1>2, <2>1, <2>2 DEF IInv, TypeOK
  <1>8. Owned'
    BY <1>2, <1>5, <1>6 DEF IInv, TypeOK, Owned, Mine, Own
  <1>9. OneMine'
    <2>1. ASSUME NEW t \in Process, Mine(a, t)'
          PROVE  ~ Alive(t)'
      <3>1. Mine(a, t)
        BY <2>1, <1>4 DEF Fewer, Mine, Own
      <3>2. runtime[a] # NoTor
        BY <3>1, <1>1 DEF IInv, OneMine
      <3>3. t = runtime[a]
        BY <3>1, <3>2 DEF IInv, TypeOK, OneMine, Owned
      <3>. QED
        BY <3>2, <3>3, <1>2 DEF Alive
    <2>. QED
      BY <1>4, <1>5, <1>6, <2>1, OneMineKept DEF IInv
  <1>10. Housed'
    <2>1. \A b \in App : InUse(b)' => b # a
      BY <1>6 DEF InUse, Starting
    <2>2. \A b \in App : InUse(b)' => InUse(b) /\ ports'[b] = ports[b]
      BY <2>1, <1>5 DEF InUse
    <2>3. \A b \in App, t \in Process : InUse(b)' /\ Mine(b, t)' => tor'[t] = tor[t]
      BY <2>1, <1>2, <1>4 DEF Fewer, Mine, Own
    <2>. QED
      BY <1>4, <2>2, <2>3, HousedKept DEF IInv
  <1>11. Apart'
    BY <1>1, <1>2, <1>3, ApartKept DEF IInv, Up, Like
  <1>. QED
    BY <1>7, <1>8, <1>9, <1>10, <1>11 DEF IInv

LEMMA KillStep ==
    ASSUME IInv, NEW a \in App, Kill(a)
    PROVE  IInv'
  <1>1. /\ ui' = [ui EXCEPT ![a] = "killed"] /\ runtime' = [runtime EXCEPT ![a] = NoTor]
        /\ ports' = [ports EXCEPT ![a] = NoPorts] /\ UNCHANGED <<tor, foreign>>
    BY DEF Kill, Goes
  <1>2. TypeOK'
    BY <1>1, ManagedAssumption DEF IInv, TypeOK, Process, NoTor
  <1>3. Owned'
    BY <1>1 DEF IInv, TypeOK, Owned, Mine, Own
  <1>4. OneMine'
    BY <1>1, OneMineKept, SameTor DEF IInv, TypeOK
  <1>5. Housed'
    BY <1>1, HousedKept, SameTor DEF IInv, TypeOK, InUse, Starting
  <1>6. Apart'
    BY <1>1, ApartKept, SameTor DEF IInv
  <1>. QED
    BY <1>2, <1>3, <1>4, <1>5, <1>6 DEF IInv

\* A process is changed, but not by what its parent does.
LEMMA TorChanges ==
    ASSUME IInv, NEW t \in Process, NEW x \in Tors, tor[t].state # "dead",
           tor' = [tor EXCEPT ![t] = x], UNCHANGED <<ui, ports, runtime, foreign>>,
           x.app = tor[t].app, x.left = tor[t].left,
           x.state # "dead" =>
               x.home = tor[t].home /\ x.socks = tor[t].socks /\ x.control = tor[t].control
    PROVE  /\ TypeOK' /\ Owned' /\ OneMine' /\ Housed'
           /\ Process' = Process /\ tor'[t] = x /\ \A s \in Process : s # t => tor'[s] = tor[s]
  <1>1. /\ tor' \in Seq(Tors) /\ Len(tor') = Len(tor) /\ tor'[t] = x
        /\ \A s \in Process : s # t => tor'[s] = tor[s]
    BY Changed DEF IInv, TypeOK
  <1>2. Process' = Process
    BY <1>1 DEF Process
  <1>3. Fewer
    BY <1>1, <1>2 DEF Fewer, Alive
  <1>4. TypeOK'
    BY <1>1, <1>2, <1>3 DEF IInv, TypeOK, Fewer
  <1>5. Owned'
    BY <1>1 DEF IInv, TypeOK, Owned, Mine, Own
  <1>6. OneMine'
    BY <1>3, OneMineKept DEF IInv
  <1>7. Housed'
    <2>1. \A b \in App : InUse(b)' => InUse(b)
      BY DEF InUse
    <2>2. \A s \in Process : Alive(s)' =>
             /\ tor[s].home => tor'[s].home
             /\ tor'[s].socks = tor[s].socks /\ tor'[s].control = tor[s].control
      BY <1>1 DEF Alive
    <2>. QED
      BY <1>3, <2>1, <2>2, HousedKept DEF IInv
  <1>. QED
    BY <1>1, <1>2, <1>4, <1>5, <1>6, <1>7

LEMMA TorStepInv ==
    ASSUME IInv, NEW t \in Process, TorStep(t)
    PROVE  IInv'
  <1>1. tor[t] \in Tors
    BY DEF IInv, TypeOK, Process
  <1>2. CASE TorBinds(t)
    <2>. DEFINE x == [tor[t] EXCEPT !.state = "up"]
    <2>1. /\ tor[t].state = "starting" /\ CanBind(t)
          /\ tor' = [tor EXCEPT ![t] = x] /\ UNCHANGED <<ui, ports, runtime, foreign>>
      BY <1>2 DEF TorBinds, Becomes
    <2>2. /\ x \in Tors /\ x.app = tor[t].app /\ x.left = tor[t].left /\ x.home = tor[t].home
          /\ x.socks = tor[t].socks /\ x.control = tor[t].control
      BY <1>1, <2>1, MovedTor
    <2>. HIDE DEF x
    <2>3. /\ TypeOK' /\ Owned' /\ OneMine' /\ Housed'
          /\ Process' = Process /\ tor'[t] = x /\ \A s \in Process : s # t => tor'[s] = tor[s]
      BY <2>1, <2>2, TorChanges
    <2>4. \A s \in Process \ {t}, p \in Port : Listens(s, p)' <=> Listens(s, p)
      BY <2>3 DEF Listens, Up
    <2>5. \A p : Listens(t, p)' => p \in {tor[t].socks, tor[t].control}
      BY <2>2, <2>3 DEF Listens
    <2>6. \A p : Listens(t, p)' =>
             p \notin foreign /\ \A s \in Process : ~ Listens(s, p)
      BY <2>1, <2>5 DEF CanBind, Taken, At, Listens
    <2>7. foreign \subseteq Port
      BY DEF IInv, TypeOK
    <2>8. Apart'
      <3>1. \A s \in Process', p \in foreign' : ~ Listens(s, p)'
        BY <2>1, <2>3, <2>4, <2>6, <2>7 DEF IInv, Apart
      <3>2. \A r, s \in Process', p \in Port : Listens(r, p)' /\ Listens(s, p)' => r = s
        BY <2>3, <2>4, <2>6 DEF IInv, Apart
      <3>. QED
        BY <3>1, <3>2 DEF Apart
    <2>. QED
      BY <2>3, <2>8 DEF IInv
  <1>3. CASE TorIsReady(t)
    <2>. DEFINE x == [tor[t] EXCEPT !.state = "ready"]
    <2>1. /\ tor[t].state = "up"
          /\ tor' = [tor EXCEPT ![t] = x] /\ UNCHANGED <<ui, ports, runtime, foreign>>
      BY <1>3 DEF TorIsReady, Becomes
    <2>2. /\ x \in Tors /\ x.app = tor[t].app /\ x.left = tor[t].left /\ x.home = tor[t].home
          /\ x.socks = tor[t].socks /\ x.control = tor[t].control
      BY <1>1, <2>1, MovedTor
    <2>. HIDE DEF x
    <2>3. /\ TypeOK' /\ Owned' /\ OneMine' /\ Housed'
          /\ Process' = Process /\ tor'[t] = x /\ \A s \in Process : s # t => tor'[s] = tor[s]
      BY <2>1, <2>2, TorChanges
    <2>4. Apart'
      BY <2>1, <2>2, <2>3, ApartKept DEF IInv, Up
    <2>. QED
      BY <2>3, <2>4 DEF IInv
  <1>4. CASE TorDies(t)
    <2>. DEFINE x == Ended(tor[t])
    <2>1. /\ tor[t].state # "dead"
          /\ tor' = [tor EXCEPT ![t] = x] /\ UNCHANGED <<ui, ports, runtime, foreign>>
      BY <1>4 DEF TorDies
    <2>2. x \in Tors /\ x.app = tor[t].app /\ x.state = "dead" /\ x.left = tor[t].left
      BY <1>1, EndedTor
    <2>. HIDE DEF x
    <2>3. /\ TypeOK' /\ Owned' /\ OneMine' /\ Housed'
          /\ Process' = Process /\ tor'[t] = x /\ \A s \in Process : s # t => tor'[s] = tor[s]
      BY <2>1, <2>2, TorChanges
    <2>4. Apart'
      BY <2>1, <2>2, <2>3, ApartKept DEF IInv, Up
    <2>. QED
      BY <2>3, <2>4 DEF IInv
  <1>. QED
    BY <1>2, <1>3, <1>4 DEF TorStep

LEMMA ForeignListensStep ==
    ASSUME IInv, NEW p \in Squatted, ForeignListens(p)
    PROVE  IInv'
  <1>1. foreign' = foreign \cup {p} /\ UNCHANGED <<ui, ports, tor, runtime>>
    BY DEF ForeignListens
  <1>2. TypeOK'
    BY <1>1, ManagedAssumption DEF IInv, TypeOK, Process
  <1>3. Owned' /\ OneMine' /\ Housed'
    BY <1>1 DEF IInv, Owned, OneMine, Housed, InUse, Mine, Own, Alive, Process
  <1>4. \A t \in Process : ~ Listens(t, p)
    BY DEF ForeignListens, Taken, At, Listens
  <1>5. Apart'
    BY <1>1, <1>4 DEF IInv, Apart, Listens, Up, Process
  <1>. QED
    BY <1>2, <1>3, <1>5 DEF IInv

LEMMA UiThreadStep ==
    ASSUME IInv, NEW a \in App,
           \/ UiThread(a) \/ BootstrapRefused(a)
           \/ Succeed(a) \/ ForeignAnswers(a) \/ BootstrapFails(a)
    PROVE  IInv'
  <1>1. CASE SocksUp(a)
    BY <1>1, Waits DEF SocksUp, Starting
  <1>2. CASE ControlUp(a)
    BY <1>2, Waits DEF ControlUp, Starting
  <1>3. CASE SocksLate(a) \/ ControlLate(a) \/ BootstrapRefused(a) \/ BootstrapFails(a)
    BY <1>3, Failed DEF SocksLate, ControlLate, BootstrapRefused, BootstrapFails, Starting
  <1>4. CASE Succeed(a) \/ ForeignAnswers(a)
    BY <1>4, Adopted DEF Succeed, ForeignAnswers, Starting
  <1>. QED
    BY <1>1, <1>2, <1>3, <1>4 DEF UiThread

LEMMA NextInv == IInv /\ [Next]_vars => IInv'
  <1>. SUFFICES ASSUME IInv, [Next]_vars PROVE IInv'
    OBVIOUS
  <1>1. CASE UNCHANGED vars
    BY <1>1 DEF vars, IInv, TypeOK, Owned, OneMine, Housed, InUse, Apart, Listens, Mine, Own,
                Alive, Up, Process
  <1>2. ASSUME NEW a \in App, AppStep(a)
        PROVE  IInv'
    BY <1>2, StartStep, StartFailsStep, UiThreadStep, CloseStep, KillStep DEF AppStep
  <1>3. ASSUME NEW t \in Process, TorStep(t)
        PROVE  IInv'
    BY <1>3, TorStepInv
  <1>4. ASSUME NEW p \in Squatted, ForeignListens(p)
        PROVE  IInv'
    BY <1>4, ForeignListensStep
  <1>. QED
    BY <1>1, <1>2, <1>3, <1>4 DEF Next

\* The inductive invariant, for every number of apps, ports and processes.
THEOREM Invariance == Spec => []IInv
  BY InitInv, NextInv, PTL DEF Spec

----------------------------------------------------------------------------
(* The properties.                                                         *)

\* Every reachable state has its type, and an app's TorRuntime holds a process
\* that the app has spawned itself (start_managed_tor).
THEOREM TypeCorrect == Spec => []TypeOK
  BY Invariance, PTL DEF IInv

\* The Drop of TorRuntime leaves nothing of an app but the Tors of its failed
\* starts, whatever its Tor, the other apps and other programs do.
THEOREM ExitIsClean == Spec => []CleanExit
  <1>1. IInv => CleanExit
    BY DEF IInv, OneMine, CleanExit, Mine, Own
  <1>. QED
    BY <1>1, Invariance, PTL

\* The early return of ensure_managed_tor keeps an app at one Tor, besides
\* those of its failed starts.
THEOREM AtMostOneTor == Spec => []OneTor
  <1>1. IInv => OneTor
    BY DEF IInv, OneMine, OneTor, Mine, Own
  <1>. QED
    BY <1>1, Invariance, PTL

\* The remove_dir_all of a start and of a Drop, which nothing but the name of
\* the directory directs, never meets a Tor that an app uses or waits for.
THEOREM DirIsKept == Spec => []DirKept
  <1>1. IInv => DirKept
    BY DEF IInv, Housed, InUse, DirKept, Mine, Own
  <1>. QED
    BY <1>1, Invariance, PTL

\* The ports of an app's Tor lead to that Tor and to nobody else while it is
\* up (reserve_local_port gives them back before Tor binds them).
THEOREM OwnTorIsMet == Spec => []OwnTorAnswers
  <1>1. ASSUME IInv, NEW a \in App, runtime[a] # NoTor, Up(runtime[a])
        PROVE  /\ tor[runtime[a]].socks = ports[a].socks
               /\ tor[runtime[a]].control = ports[a].control
               /\ At(ports[a].socks) = {runtime[a]} /\ At(ports[a].control) = {runtime[a]}
               /\ {ports[a].socks, ports[a].control} \cap foreign = {}
    <2>. DEFINE t == runtime[a]
    <2>1. t \in Process /\ Mine(a, t) /\ Alive(t)
      BY <1>1 DEF IInv, TypeOK, Owned, Up, Alive
    <2>2. tor[t].socks = ports[a].socks /\ tor[t].control = ports[a].control
      BY <1>1, <2>1 DEF IInv, Housed, InUse
    <2>3. tor[t] \in Tors
      BY <1>1, <2>1 DEF IInv, TypeOK, Process
    <2>4. ports[a].socks \in Port /\ ports[a].control \in Port
      BY <2>2, <2>3, <1>1 DEF Tors, Up
    <2>. HIDE DEF t
    <2>5. Listens(t, ports[a].socks) /\ Listens(t, ports[a].control)
      BY <1>1, <2>2 DEF Listens, t
    <2>6. \A p \in Port : At(p) = {s \in Process : Listens(s, p)}
      BY DEF At, Listens
    <2>7. At(ports[a].socks) = {t} /\ At(ports[a].control) = {t}
      BY <1>1, <2>1, <2>4, <2>5, <2>6 DEF IInv, Apart
    <2>8. {ports[a].socks, ports[a].control} \cap foreign = {}
      BY <1>1, <2>1, <2>5 DEF IInv, Apart
    <2>. QED
      BY <2>2, <2>7, <2>8 DEF t
  <1>2. IInv => OwnTorAnswers
    BY <1>1 DEF OwnTorAnswers
  <1>. QED
    BY <1>2, Invariance, PTL

\* Who hands over a Tor in a step, and whose answer he has had.
LEMMA HandsOver ==
    ASSUME IInv, [Next]_vars, NEW a \in App, runtime[a] = NoTor, runtime'[a] # NoTor
    PROVE  Succeed(a) \/ ForeignAnswers(a)
  <1>1. ASSUME NEW b \in App, Adopt(b)
        PROVE  a = b
    BY <1>1 DEF Adopt, IInv, TypeOK
  <1>2. ASSUME NEW b \in App, AppStep(b)
        PROVE  Succeed(a) \/ ForeignAnswers(a)
    <2>1. CASE Succeed(b) \/ ForeignAnswers(b)
      BY <2>1, <1>1 DEF Succeed, ForeignAnswers
    <2>2. CASE Close(b) \/ Kill(b)
      BY <2>2 DEF Close, Kill, IInv, TypeOK
    <2>3. CASE Start(b) \/ StartFails(b) \/ SocksUp(b) \/ SocksLate(b) \/ ControlUp(b)
               \/ ControlLate(b) \/ BootstrapRefused(b) \/ BootstrapFails(b)
      BY <2>3 DEF Start, StartFails, SocksUp, SocksLate, ControlUp, ControlLate,
                  BootstrapRefused, BootstrapFails, Fail
    <2>. QED
      BY <1>2, <2>1, <2>2, <2>3 DEF AppStep, UiThread
  <1>3. \/ UNCHANGED vars
        \/ \E t \in Process : TorStep(t)
        \/ \E p \in Squatted : ForeignListens(p)
        => runtime' = runtime
    BY DEF vars, TorStep, TorBinds, TorIsReady, TorDies, Becomes, ForeignListens
  <1>. QED
    BY <1>2, <1>3 DEF Next

\* wait_for_bootstrap asks a port, not its child, and anybody may answer; still
\* no app is handed a Tor that is up and not yet connected: who answered is
\* that Tor itself, or it is not up.
THEOREM SuccessMeansReady == Spec => ReadyAtSuccess
  <1>1. ASSUME IInv, [Next]_vars, NEW a \in App, runtime[a] = NoTor, runtime'[a] # NoTor,
               Up(runtime'[a])
        PROVE  tor[runtime'[a]].state = "ready"
    <2>1. Succeed(a) \/ ForeignAnswers(a)
      BY <1>1, HandsOver
    <2>2. PICK t \in Child(a) : runtime' = [runtime EXCEPT ![a] = t]
      BY <2>1 DEF Succeed, ForeignAnswers, Adopt
    <2>3. runtime'[a] = t /\ t \in Process /\ Mine(a, t) /\ Up(t) /\ Alive(t)
      BY <1>1, <2>2 DEF IInv, TypeOK, Child, Mine, Own, Up, Alive
    <2>4. ui[a] \in Starting
      BY <2>1 DEF Succeed, ForeignAnswers, Starting
    <2>5. tor[t].control = ports[a].control
      BY <1>1, <2>3, <2>4 DEF IInv, Housed, InUse
    <2>6. Listens(t, ports[a].control) /\ ports[a].control \in Port
      <3>1. tor[t] \in Tors
        BY <1>1, <2>3 DEF IInv, TypeOK, Process
      <3>. QED
        BY <2>3, <2>5, <3>1 DEF Listens, Up, Tors
    <2>7. ports[a].control \notin foreign
      BY <1>1, <2>3, <2>6 DEF IInv, Apart
    <2>8. PICK s \in Process : Listens(s, ports[a].control) /\ tor[s].state = "ready"
      BY <2>1, <2>7 DEF ForeignAnswers, Succeed, Answers, At, Listens
    <2>9. s = t
      BY <1>1, <2>3, <2>6, <2>8 DEF IInv, Apart
    <2>. QED
      BY <2>3, <2>8, <2>9
  <1>2. IInv /\ [Next]_vars =>
          \A a \in App : LET t == runtime'[a]
                         IN  runtime[a] = NoTor /\ t # NoTor /\ Up(t) => tor[t].state = "ready"
    BY <1>1
  <1>. QED
    BY <1>2, Invariance, PTL DEF Spec, ReadyAtSuccess

----------------------------------------------------------------------------
(* Liveness: a click comes back.  The steps of a start are the places of   *)
(* `ui`, one behind the other; what has to be shown is that the thread can *)
(* take a step at each of them.  TLAPS does not reason about ENABLED, so   *)
(* where the steps of a start can be taken is written down (AtPort,        *)
(* Refused), and that they can be there is a premise.                      *)

\* Somebody holds the port that the bootstrap asks.
Held(a) == ui[a] = "bootstrap" /\ Taken(ports[a].control)

\* No other thread makes the UI thread go back.
LEMMA WaitSteps ==
    ASSUME IInv, [Next]_vars, NEW a \in App
    PROVE  /\ ui[a] = "socks" => ui'[a] \in {"socks", "control"} \/ ui'[a] \notin Starting
           /\ ui[a] = "control" => ui'[a] \in {"control", "bootstrap"} \/ ui'[a] \notin Starting
           /\ ui[a] = "bootstrap" => ui'[a] = "bootstrap" \/ ui'[a] \notin Starting
  <1>1. ASSUME NEW b \in App, AppStep(b), b # a
        PROVE  ui'[a] = ui[a]
    BY <1>1 DEF AppStep, Start, StartFails, UiThread, SocksUp, SocksLate, ControlUp,
        ControlLate, Succeed, BootstrapFails, BootstrapRefused, ForeignAnswers, Close, Kill,
        Fail, Adopt, Goes, IInv, TypeOK
  <1>2. CASE AppStep(a)
    <2>1. CASE StartFails(a)
      BY <2>1 DEF StartFails
    <2>2. CASE Start(a) \/ SocksUp(a) \/ ControlUp(a)
      BY <2>2 DEF Start, Needed, SocksUp, ControlUp, Goes, IInv, TypeOK, Starting
    <2>3. CASE SocksLate(a) \/ ControlLate(a) \/ Succeed(a) \/ BootstrapFails(a)
               \/ BootstrapRefused(a) \/ ForeignAnswers(a) \/ Close(a) \/ Kill(a)
      BY <2>3 DEF SocksLate, ControlLate, Succeed, BootstrapFails, BootstrapRefused,
          ForeignAnswers, Close, Kill, Fail, Adopt, Goes, IInv, TypeOK, Starting
    <2>. QED
      BY <1>2, <2>1, <2>2, <2>3 DEF AppStep, UiThread
  <1>3. CASE \/ UNCHANGED vars
             \/ \E t \in Process : TorStep(t)
             \/ \E p \in Squatted : ForeignListens(p)
    BY <1>3 DEF vars, TorStep, TorBinds, TorIsReady, TorDies, Becomes, ForeignListens
  <1>. QED
    BY <1>1, <1>2, <1>3 DEF Next

\* Each step of a start brings it nearer to its end.
LEMMA WaitGoesOn ==
    ASSUME IInv, NEW a \in App
    PROVE  /\ UiThread(a) /\ ui[a] = "socks" => ui'[a] = "control" \/ ui'[a] \notin Starting
           /\ UiThread(a) /\ ui[a] = "control" => ui'[a] = "bootstrap" \/ ui'[a] \notin Starting
           /\ BootstrapRefused(a) => ui'[a] \notin Starting
  BY DEF UiThread, SocksUp, SocksLate, ControlUp, ControlLate, BootstrapRefused,
      Fail, Goes, IInv, TypeOK, Starting

LEMMA OneClickReturns ==
    ASSUME NEW a \in App
    PROVE  Spec /\ Fairness(a) /\ []UiGuardEnables(a) =>
              (ui[a] \in Starting ~> ui[a] \notin Starting \/ []Held(a))
  <1>1. IInv /\ [Next]_vars =>
           /\ ui[a] = "socks" =>
                 (ui[a] = "socks")' \/ (ui[a] = "control")' \/ (ui[a] \notin Starting)'
           /\ ui[a] = "control" =>
                 (ui[a] = "control")' \/ (ui[a] = "bootstrap")' \/ (ui[a] \notin Starting)'
           /\ ui[a] = "bootstrap" => (ui[a] = "bootstrap")' \/ (ui[a] \notin Starting)'
    BY WaitSteps
  <1>2. IInv /\ <<UiThread(a)>>_vars =>
           /\ ui[a] = "socks" => (ui[a] = "control")' \/ (ui[a] \notin Starting)'
           /\ ui[a] = "control" => (ui[a] = "bootstrap")' \/ (ui[a] \notin Starting)'
    BY WaitGoesOn
  <1>3. IInv /\ <<BootstrapRefused(a)>>_vars => (ui[a] \notin Starting)'
    BY WaitGoesOn
  <1>4. ui[a] \in Starting => ui[a] = "socks" \/ ui[a] = "control" \/ ui[a] = "bootstrap"
    BY DEF Starting
  <1>5. UiGuardEnables(a) =>
           /\ ui[a] = "socks" \/ ui[a] = "control" => ENABLED <<UiThread(a)>>_vars
           /\ ui[a] = "bootstrap" => Held(a) \/ ENABLED <<BootstrapRefused(a)>>_vars
    BY DEF UiGuardEnables, AtPort, Refused, Held
  <1>. QED
    BY <1>1, <1>2, <1>3, <1>4, <1>5, Invariance, PTL DEF Spec, Fairness

\* Every click on a button comes back, for any number of apps that take each
\* other's ports, of Tors that die and of programs that listen: unless somebody
\* holds the control port for ever and lets the thread wait (wait_for_bootstrap
\* has a time limit, a read of a connection has none).
THEOREM ClicksReturn == FairSpec /\ []GuardsEnable => ClickReturns
  <1>. SUFFICES ASSUME NEW a \in App
                PROVE  FairSpec /\ []GuardsEnable =>
                          (ui[a] \in Starting ~> ui[a] \notin Starting \/ []Held(a))
    BY DEF ClickReturns, Held
  <1>1. FairSpec => Spec /\ Fairness(a)
    BY DEF FairSpec
  <1>2. GuardsEnable => UiGuardEnables(a)
    BY DEF GuardsEnable
  <1>3. []GuardsEnable => []UiGuardEnables(a)
    BY <1>2, PTL
  <1>. QED
    BY <1>1, <1>3, OneClickReturns
=============================================================================
