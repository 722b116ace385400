----------------------------- MODULE LobbyProofs -----------------------------
(***************************************************************************)
(* Proofs about Lobby: for every set of apps and any number of clicks, who *)
(* joins meets the inviter, a host has one guest, the header of a chat     *)
(* names its partner, and a click to host or to join is answered.          *)
(***************************************************************************)
EXTENDS Lobby, TLAPS

----------------------------------------------------------------------------
(* The inductive invariant.                                                *)

\* A thread that no click has spawned has done nothing.
Unborn == \A t \in Thread : t > clicks => step[t] = "unborn" /\ invite[t] = Nobody

\* What a thread is and has at each step.
Roles == \A t \in Thread :
    /\ step[t] # "unborn" => t <= clicks
    /\ step[t] \in {"bind", "publish", "listen"} => invite[t] = Nobody
    /\ step[t] = "dial" => invite[t] # Nobody
    /\ step[t] \in {"unborn", "bind", "publish", "listen", "dial"} =>
          partner[t] = Nobody /\ ~ receiving[t]
    /\ step[t] = "greet" => ~ receiving[t] /\ (invite[t] = Nobody => partner[t] # Nobody)
    /\ receiving[t] => partner[t] # Nobody

\* Whoever stands in a line has not been accepted.
Waiting == \A h \in Thread : \A i \in 1..Len(line[h]) :
    step[line[h][i]] = "greet" /\ invite[line[h][i]] # Nobody /\ partner[line[h][i]] = Nobody

\* A joiner stands in one line, once.
OnceInLine == \A g, h \in Thread : \A i \in 1..Len(line[g]), k \in 1..Len(line[h]) :
    line[g][i] = line[h][k] => g = h /\ i = k

\* A socket has two ends.
Mutual == \A t \in Thread : partner[t] # Nobody => partner[partner[t]] = t

\* A Connected event on its way names the other end.
EventsTrue == \A t \in Thread : \A i \in 1..Len(events[t]) :
    events[t][i].kind = "Connected" => partner[t] # Nobody /\ events[t][i].who = partner[t]

Net == Unborn /\ Roles /\ Waiting /\ OnceInLine /\ Mutual /\ MeetsInviter

IInv == TypeOK /\ Net /\ EventsTrue /\ HeaderIsPartner

----------------------------------------------------------------------------
(* Sequences, threads and events.                                          *)

Events == [kind : Kinds, who : Thread]

LEMMA AppendFacts ==
    ASSUME NEW S, NEW s \in Seq(S), NEW x \in S
    PROVE  /\ Append(s, x) \in Seq(S)
           /\ Len(Append(s, x)) = Len(s) + 1
           /\ \A i \in 1..Len(s) : Append(s, x)[i] = s[i]
           /\ Append(s, x)[Len(s) + 1] = x
  OBVIOUS

LEMMA TailFacts ==
    ASSUME NEW S, NEW s \in Seq(S), s # <<>>
    PROVE  /\ Head(s) \in S /\ Tail(s) \in Seq(S)
           /\ Head(s) = s[1] /\ 1 \in 1..Len(s)
           /\ Len(Tail(s)) = Len(s) - 1
           /\ \A i \in 1..Len(Tail(s)) : Tail(s)[i] = s[i + 1] /\ i + 1 \in 1..Len(s)
  OBVIOUS

LEMMA Threads == Nobody \notin Thread /\ \A t \in Thread : t \in Nat
  BY LobbyAssumption DEF Thread, Nobody

LEMMA ClicksTypes == TypeOK => clicks \in Nat
  BY DEF TypeOK, clicks

LEMMA EventTypes == \A k \in Kinds, t \in Thread : Event(k, t) \in Events
  BY DEF Event, Events

\* What Emit does to types, and to the truth of what is reported.
LEMMA EmitKeeps ==
    ASSUME TypeOK, EventsTrue, NEW t \in Thread, NEW e \in Events, Emit(t, e),
           partner' = partner,
           e.kind = "Connected" => partner[t] # Nobody /\ e.who = partner[t]
    PROVE  events' \in [Thread -> Seq(Events)] /\ EventsTrue'
  <1>0. events \in [Thread -> Seq(Events)]
    BY DEF TypeOK, Events
  <1>1. CASE Held(t)
    <2>1. events' = [events EXCEPT ![t] = Append(@, e)]
      BY <1>1 DEF Emit
    <2>2. events[t] \in Seq(Events)
      BY <1>0
    <2>3. events' \in [Thread -> Seq(Events)] /\ events'[t] = Append(events[t], e)
      BY <1>0, <2>1, <2>2, AppendFacts
    <2>4. ASSUME NEW s \in Thread, NEW i \in 1..Len(events'[s]), events'[s][i].kind = "Connected"
          PROVE  partner[s] # Nobody /\ events'[s][i].who = partner[s]
      <3>1. CASE s = t
        <4>1. i \in 1..(Len(events[t]) + 1)
          BY <2>2, <2>3, <2>4, <3>1, AppendFacts
        <4>2. CASE i = Len(events[t]) + 1
          BY <2>2, <2>3, <2>4, <3>1, <4>2, AppendFacts
        <4>3. CASE i \in 1..Len(events[t])
          <5>1. events'[s][i] = events[t][i]
            BY <2>2, <2>3, <3>1, <4>3, AppendFacts
          <5>. QED
            BY <2>4, <3>1, <4>3, <5>1 DEF EventsTrue
        <4>4. Len(events[t]) \in Nat
          BY <2>2
        <4>. QED
          BY <4>1, <4>2, <4>3, <4>4
      <3>2. CASE s # t
        <4>1. events'[s] = events[s]
          BY <1>0, <2>1, <3>2
        <4>. QED
          BY <2>4, <4>1 DEF EventsTrue
      <3>. QED
        BY <3>1, <3>2
    <2>. QED
      BY <2>3, <2>4 DEF EventsTrue
  <1>2. CASE ~ Held(t)
    <2>1. events' = events
      BY <1>2 DEF Emit
    <2>. QED
      BY <1>0, <2>1 DEF EventsTrue
  <1>. QED
    BY <1>1, <1>2

LEMMA InitInv == Init => IInv
  <1>. SUFFICES ASSUME Init PROVE IInv
    OBVIOUS
  <1>1. clicks = 0 /\ owner \in Seq(App)
    BY DEF Init, clicks
  <1>2. 0 <= MaxThreads
    BY LobbyAssumption
  <1>3. TypeOK
    BY <1>1, <1>2 DEF Init, TypeOK, HostSteps, JoinSteps
  <1>4. Net
    BY DEF Init, Net, Unborn, Roles, Waiting, OnceInLine, Mutual, MeetsInviter, Nobody
  <1>5. EventsTrue /\ HeaderIsPartner
    BY DEF Init, EventsTrue, HeaderIsPartner
  <1>. QED
    BY <1>3, <1>4, <1>5 DEF IInv

----------------------------------------------------------------------------
(* The UI thread.                                                          *)

\* A click gives the next thread to its app and forgets the one before.
LEMMA ConnectKeeps ==
    ASSUME IInv, NEW a \in App, clicks < MaxThreads, Connect(a, clicks + 1),
           partner' = partner, peer' = peer,
           status' = [status EXCEPT ![a] = "other"]
    PROVE  /\ clicks + 1 \in Thread /\ clicks' = clicks + 1
           /\ owner' \in Seq(App) /\ clicks' <= MaxThreads
           /\ connection' \in [App -> Thread \cup {Nobody}]
           /\ events' \in [Thread -> Seq(Events)]
           /\ status' \in [App -> {"waiting", "connected", "closed", "error", "other"}]
           /\ EventsTrue' /\ HeaderIsPartner'
  <1>1. TypeOK /\ clicks \in Nat
    BY ClicksTypes DEF IInv
  <1>2. clicks + 1 \in Thread
    BY <1>1, LobbyAssumption DEF Thread
  <1>3. /\ owner' = Append(owner, a)
        /\ connection' = [connection EXCEPT ![a] = clicks + 1]
        /\ events' = [s \in Thread |-> IF s = connection[a] THEN <<>> ELSE events[s]]
    BY DEF Connect
  <1>4. owner' \in Seq(App) /\ Len(owner') = Len(owner) + 1
    BY <1>1, <1>3, AppendFacts DEF TypeOK
  <1>5. clicks' = clicks + 1 /\ clicks' <= MaxThreads
    BY <1>1, <1>4, LobbyAssumption DEF clicks
  <1>6. connection' \in [App -> Thread \cup {Nobody}]
    BY <1>1, <1>2, <1>3 DEF TypeOK
  <1>7. events' \in [Thread -> Seq(Events)]
    <2>1. \A s \in Thread : events[s] \in Seq(Events)
      BY <1>1 DEF TypeOK, Events
    <2>2. <<>> \in Seq(Events)
      OBVIOUS
    <2>. QED
      BY <1>3, <2>1, <2>2
  <1>8. status' \in [App -> {"waiting", "connected", "closed", "error", "other"}]
    BY <1>1 DEF TypeOK
  <1>9. EventsTrue'
    <2>1. SUFFICES ASSUME NEW s \in Thread, NEW i \in 1..Len(events'[s]),
                          events'[s][i].kind = "Connected"
                   PROVE  partner[s] # Nobody /\ events'[s][i].who = partner[s]
      BY DEF EventsTrue
    <2>2. s # connection[a]
      BY <1>3, <2>1
    <2>3. events'[s] = events[s]
      BY <1>3, <2>2
    <2>. QED
      BY <2>1, <2>3 DEF IInv, EventsTrue
  <1>10. HeaderIsPartner'
    <2>1. SUFFICES ASSUME NEW b \in App, status'[b] = "connected"
                   PROVE  /\ connection'[b] # Nobody /\ peer[b] # Nobody
                          /\ partner[connection'[b]] = peer[b]
      BY DEF HeaderIsPartner
    <2>2. b # a /\ status'[b] = status[b]
      BY <1>1, <2>1 DEF TypeOK
    <2>3. connection'[b] = connection[b]
      BY <1>1, <1>3, <2>2 DEF TypeOK
    <2>. QED
      BY <2>1, <2>2, <2>3 DEF IInv, HeaderIsPartner
  <1>. QED
    BY <1>2, <1>4, <1>5, <1>6, <1>7, <1>8, <1>9, <1>10

\* A new thread joins the others, with no socket and in no line.
LEMMA SpawnKeepsNet ==
    ASSUME IInv, clicks + 1 \in Thread, clicks' = clicks + 1,
           NEW first \in {"bind", "dial"}, NEW h \in Thread \cup {Nobody},
           step' = [step EXCEPT ![clicks + 1] = first],
           invite' = [invite EXCEPT ![clicks + 1] = h],
           first = "dial" <=> h # Nobody,
           UNCHANGED <<receiving, partner, line>>
    PROVE  Net'
  <1>0. TypeOK /\ Net /\ clicks \in Nat
    BY ClicksTypes DEF IInv
  <1>1. step[clicks + 1] = "unborn" /\ invite[clicks + 1] = Nobody
    BY <1>0 DEF Net, Unborn
  <1>2. \A t \in Thread : t # clicks + 1 => step'[t] = step[t] /\ invite'[t] = invite[t]
    BY <1>0 DEF TypeOK
  <1>3. step'[clicks + 1] = first /\ invite'[clicks + 1] = h
    BY <1>0 DEF TypeOK
  <1>4. Unborn'
    BY <1>0, <1>2, <1>3, Threads DEF Net, Unborn
  <1>5. Roles'
    <2>1. SUFFICES ASSUME NEW t \in Thread PROVE Roles!(t)'
      BY DEF Roles
    <2>2. CASE t = clicks + 1
      BY <1>0, <1>1, <1>3, <2>2 DEF Net, Roles
    <2>3. CASE t # clicks + 1
      BY <1>0, <1>2, <2>3, Threads DEF Net, Roles
    <2>. QED
      BY <2>2, <2>3
  <1>6. \A g \in Thread : \A i \in 1..Len(line[g]) :
            line[g][i] \in Thread /\ line[g][i] # clicks + 1
    BY <1>0, <1>1 DEF Net, Waiting, TypeOK
  <1>7. Waiting'
    BY <1>0, <1>2, <1>6 DEF Net, Waiting
  <1>8. OnceInLine' /\ Mutual'
    BY <1>0 DEF Net, OnceInLine, Mutual
  <1>9. MeetsInviter'
    <2>1. SUFFICES ASSUME NEW t \in Thread, IsJoin(t)', receiving[t] PROVE Genuine(t)'
      BY DEF MeetsInviter
    <2>2. t # clicks + 1
      BY <1>0, <1>1, <2>1 DEF Net, Roles
    <2>3. IsJoin(t)
      BY <1>0, <1>2, <2>1, <2>2, Threads DEF IsJoin
    <2>. QED
      BY <1>0, <1>2, <2>1, <2>2, <2>3 DEF Net, MeetsInviter, Genuine
  <1>. QED
    BY <1>4, <1>5, <1>7, <1>8, <1>9 DEF Net

LEMMA StartHostInv ==
    ASSUME IInv, NEW a \in App, NEW tor \in BOOLEAN, StartHost(a, tor)
    PROVE  IInv'
  <1>1. /\ clicks < MaxThreads /\ Connect(a, clicks + 1)
        /\ onion' = [onion EXCEPT ![clicks + 1] = tor]
        /\ step' = [step EXCEPT ![clicks + 1] = "bind"]
        /\ current' = [current EXCEPT ![a] = Nobody]
        /\ status' = [status EXCEPT ![a] = "other"]
        /\ UNCHANGED <<receiving, invite, partner, line, peer>>
    BY DEF StartHost
  <1>2. TypeOK /\ Net /\ clicks \in Nat
    BY ClicksTypes DEF IInv
  <1>3. /\ clicks + 1 \in Thread /\ clicks' = clicks + 1
        /\ owner' \in Seq(App) /\ clicks' <= MaxThreads
        /\ connection' \in [App -> Thread \cup {Nobody}]
        /\ events' \in [Thread -> Seq(Events)]
        /\ status' \in [App -> {"waiting", "connected", "closed", "error", "other"}]
        /\ EventsTrue' /\ HeaderIsPartner'
    BY <1>1, ConnectKeeps
  <1>4. onion' \in [Thread -> BOOLEAN]
    BY <1>1, <1>2 DEF TypeOK
  <1>5. TypeOK'
    BY <1>1, <1>2, <1>3, <1>4 DEF TypeOK, HostSteps, Events
  <1>6. invite' = [invite EXCEPT ![clicks + 1] = Nobody]
    BY <1>1, <1>2, <1>3 DEF Net, Unborn, TypeOK
  <1>7. Net'
    BY <1>1, <1>3, <1>6, SpawnKeepsNet
  <1>. QED
    BY <1>3, <1>5, <1>7 DEF IInv

LEMMA StartJoinInv ==
    ASSUME IInv, NEW a \in App, NEW h \in Thread, StartJoin(a, h)
    PROVE  IInv'
  <1>1. /\ clicks < MaxThreads /\ Connect(a, clicks + 1)
        /\ invite' = [invite EXCEPT ![clicks + 1] = h]
        /\ step' = [step EXCEPT ![clicks + 1] = "dial"]
        /\ status' = [status EXCEPT ![a] = "other"]
        /\ UNCHANGED <<onion, receiving, partner, line, peer, current>>
    BY DEF StartJoin
  <1>2. TypeOK
    BY DEF IInv
  <1>3. /\ clicks + 1 \in Thread /\ clicks' = clicks + 1
        /\ owner' \in Seq(App) /\ clicks' <= MaxThreads
        /\ connection' \in [App -> Thread \cup {Nobody}]
        /\ events' \in [Thread -> Seq(Events)]
        /\ status' \in [App -> {"waiting", "connected", "closed", "error", "other"}]
        /\ EventsTrue' /\ HeaderIsPartner'
    BY <1>1, ConnectKeeps
  <1>4. TypeOK'
    BY <1>1, <1>2, <1>3 DEF TypeOK, JoinSteps, Events
  <1>5. Net'
    BY <1>1, <1>3, Threads, SpawnKeepsNet
  <1>. QED
    BY <1>3, <1>4, <1>5 DEF IInv

\* Nothing that Net speaks of has changed.
LEMMA NetKept ==
    Net /\ UNCHANGED <<owner, step, receiving, invite, partner, line>> => Net'
  <1>. SUFFICES ASSUME Net, UNCHANGED <<owner, step, receiving, invite, partner, line>>
                PROVE  Net'
    OBVIOUS
  <1>1. clicks' = clicks
    BY DEF clicks
  <1>. QED
    BY <1>1 DEF Net, Unborn, Roles, Waiting, OnceInLine, Mutual, MeetsInviter, IsJoin, Genuine

LEMMA TorFailsInv ==
    ASSUME IInv, NEW a \in App, TorFails(a)
    PROVE  IInv'
  <1>1. /\ status' = [status EXCEPT ![a] = "other"]
        /\ UNCHANGED <<owner, onion, receiving, invite, partner, line, step, events,
                       connection, peer, current>>
    BY DEF TorFails, net
  <1>2. TypeOK'
    BY <1>1 DEF IInv, TypeOK, clicks
  <1>3. HeaderIsPartner' /\ EventsTrue'
    BY <1>1 DEF IInv, TypeOK, HeaderIsPartner, EventsTrue
  <1>. QED
    BY <1>1, <1>2, <1>3, NetKept DEF IInv

LEMMA DrainInv ==
    ASSUME IInv, NEW a \in App, Drain(a)
    PROVE  IInv'
  <1>. DEFINE t == connection[a]
              event == Head(events[t])
  <1>0. TypeOK
    BY DEF IInv
  <1>1. /\ t # Nobody /\ events[t] # <<>>
        /\ events' = [events EXCEPT ![t] = Tail(@)]
        /\ UNCHANGED <<owner, onion, receiving, invite, partner, line, step, connection>>
    BY DEF Drain, net
  <1>2. t \in Thread /\ events[t] \in Seq(Events)
    BY <1>0, <1>1 DEF TypeOK, Events
  <1>3. /\ event \in Events /\ Tail(events[t]) \in Seq(Events)
        /\ event = events[t][1] /\ 1 \in 1..Len(events[t])
        /\ \A i \in 1..Len(Tail(events[t])) :
              Tail(events[t])[i] = events[t][i + 1] /\ i + 1 \in 1..Len(events[t])
    BY <1>1, <1>2, TailFacts
  <1>4. \/ /\ status' = [status EXCEPT ![a] = "waiting"]
           /\ current' = [current EXCEPT ![a] = event.who] /\ peer' = peer
        \/ /\ event.kind = "Connected"
           /\ status' = [status EXCEPT ![a] = "connected"]
           /\ peer' = [peer EXCEPT ![a] = event.who] /\ current' = current
        \/ /\ status' = [status EXCEPT ![a] = "closed"]
           /\ peer' = [peer EXCEPT ![a] = Nobody] /\ current' = current
        \/ /\ status' = [status EXCEPT ![a] = "error"]
           /\ UNCHANGED <<peer, current>>
    BY DEF Drain
  <1>5. event.who \in Thread
    BY <1>3 DEF Events
  <1>6. TypeOK'
    <2>1. events' \in [Thread -> Seq(Events)]
      BY <1>0, <1>1, <1>2, <1>3 DEF TypeOK, Events
    <2>2. /\ status' \in [App -> {"waiting", "connected", "closed", "error", "other"}]
          /\ peer' \in [App -> Thread \cup {Nobody}]
          /\ current' \in [App -> Thread \cup {Nobody}]
      BY <1>0, <1>4, <1>5 DEF TypeOK
    <2>. QED
      BY <1>0, <1>1, <2>1, <2>2 DEF TypeOK, clicks, Events
  <1>7. EventsTrue'
    <2>1. SUFFICES ASSUME NEW s \in Thread, NEW i \in 1..Len(events'[s]),
                          events'[s][i].kind = "Connected"
                   PROVE  partner[s] # Nobody /\ events'[s][i].who = partner[s]
      BY <1>1 DEF EventsTrue
    <2>2. CASE s = t
      <3>1. events'[s] = Tail(events[t])
        BY <1>0, <1>1, <1>2, <2>2 DEF TypeOK
      <3>2. events'[s][i] = events[t][i + 1] /\ i + 1 \in 1..Len(events[t])
        BY <1>3, <2>1, <3>1
      <3>. QED
        BY <1>2, <2>1, <2>2, <3>2 DEF IInv, EventsTrue
    <2>3. CASE s # t
      <3>1. events'[s] = events[s]
        BY <1>0, <1>1, <2>3 DEF TypeOK
      <3>. QED
        BY <2>1, <3>1 DEF IInv, EventsTrue
    <2>. QED
      BY <2>2, <2>3
  <1>8. HeaderIsPartner'
    <2>1. SUFFICES ASSUME NEW b \in App, status'[b] = "connected"
                   PROVE  /\ connection[b] # Nobody /\ peer'[b] # Nobody
                          /\ partner[connection[b]] = peer'[b]
      BY <1>1 DEF HeaderIsPartner
    <2>2. CASE b # a
      <3>1. status'[b] = status[b] /\ peer'[b] = peer[b]
        BY <1>0, <1>4, <2>2 DEF TypeOK
      <3>. QED
        BY <2>1, <3>1 DEF IInv, HeaderIsPartner
    <2>3. CASE b = a
      <3>1. event.kind = "Connected" /\ peer'[b] = event.who
        BY <1>0, <1>4, <2>1, <2>3 DEF TypeOK
      <3>2. partner[t] # Nobody /\ event.who = partner[t]
        BY <1>2, <1>3, <3>1 DEF IInv, EventsTrue
      <3>. QED
        BY <1>1, <2>3, <3>1, <3>2
    <2>. QED
      BY <2>2, <2>3
  <1>9. Net'
    BY <1>1, NetKept DEF IInv
  <1>. QED
    BY <1>6, <1>7, <1>8, <1>9 DEF IInv

----------------------------------------------------------------------------
(* The network threads.                                                    *)

\* Who is elsewhere, has been accepted or is refused stands in no line.
LEMMA NotInLine ==
    ASSUME IInv, NEW t \in Thread,
           step[t] # "greet" \/ partner[t] # Nobody \/ ~ InLine(t)
    PROVE  \A h \in Thread : \A i \in 1..Len(line[h]) : line[h][i] # t
  <1>1. SUFFICES ASSUME NEW h \in Thread, NEW i \in 1..Len(line[h]), line[h][i] = t PROVE FALSE
    OBVIOUS
  <1>2. step[t] = "greet" /\ partner[t] = Nobody
    BY <1>1 DEF IInv, Net, Waiting
  <1>3. line[h] \in Seq(Thread)
    BY DEF IInv, TypeOK
  <1>4. t \in ToSet(line[h])
    BY <1>1, <1>3 DEF ToSet
  <1>. QED
    BY <1>2, <1>4 DEF InLine

\* A thread that ends leaves its line to nobody.
LEMMA EndKeepsNet ==
    ASSUME IInv, NEW t \in Thread, step[t] # "unborn",
           \A h \in Thread : \A i \in 1..Len(line[h]) : line[h][i] # t,
           step' = [step EXCEPT ![t] = "over"],
           line' = [line EXCEPT ![t] = <<>>],
           UNCHANGED <<owner, receiving, invite, partner>>
    PROVE  /\ step' \in [Thread -> HostSteps \cup JoinSteps \cup {"unborn", "over"}]
           /\ line' \in [Thread -> Seq(Thread)]
           /\ Net'
  <1>0. TypeOK /\ Net /\ clicks' = clicks
    BY DEF IInv, clicks
  <1>1. \A s \in Thread : step'[s] = IF s = t THEN "over" ELSE step[s]
    BY <1>0 DEF TypeOK
  <1>2. \A s \in Thread : line'[s] = IF s = t THEN <<>> ELSE line[s]
    BY <1>0 DEF TypeOK
  <1>3. /\ step' \in [Thread -> HostSteps \cup JoinSteps \cup {"unborn", "over"}]
        /\ line' \in [Thread -> Seq(Thread)]
    <2>1. <<>> \in Seq(Thread)
      OBVIOUS
    <2>. QED
      BY <1>0, <2>1 DEF TypeOK
  <1>4. Unborn' /\ Roles'
    <2>1. t <= clicks
      BY <1>0 DEF Net, Roles
    <2>2. clicks \in Nat /\ t \in Nat
      BY <1>0, ClicksTypes, Threads
    <2>3. Unborn'
      BY <1>0, <1>1, <2>1, <2>2 DEF Net, Unborn
    <2>4. Roles'
      BY <1>0, <1>1, <2>1 DEF Net, Roles
    <2>. QED
      BY <2>3, <2>4
  <1>5. \A h \in Thread : \A i \in 1..Len(line'[h]) :
            i \in 1..Len(line[h]) /\ line'[h][i] = line[h][i] /\ line[h][i] \in Thread
    <2>1. Len(<<>>) = 0 /\ 1..0 = {}
      OBVIOUS
    <2>. QED
      BY <1>0, <1>2, <2>1 DEF TypeOK
  <1>6. Waiting'
    BY <1>0, <1>1, <1>5 DEF Net, Waiting
  <1>7. OnceInLine'
    BY <1>0, <1>5 DEF Net, OnceInLine
  <1>8. Mutual' /\ MeetsInviter'
    BY <1>0 DEF Net, Mutual, MeetsInviter, IsJoin, Genuine
  <1>. QED
    BY <1>3, <1>4, <1>6, <1>7, <1>8 DEF Net

LEMMA FailInv ==
    ASSUME IInv, NEW t \in Thread, Fail(t), step[t] # "unborn",
           step[t] # "greet" \/ partner[t] # Nobody \/ ~ InLine(t)
    PROVE  IInv'
  <1>1. /\ step' = [step EXCEPT ![t] = "over"]
        /\ line' = [line EXCEPT ![t] = <<>>]
        /\ Emit(t, Event("Error", t))
        /\ UNCHANGED <<owner, onion, receiving, invite, partner, connection, status, peer, current>>
    BY DEF Fail, view
  <1>2. /\ step' \in [Thread -> HostSteps \cup JoinSteps \cup {"unborn", "over"}]
        /\ line' \in [Thread -> Seq(Thread)]
        /\ Net'
    BY <1>1, NotInLine, EndKeepsNet
  <1>3. events' \in [Thread -> Seq(Events)] /\ EventsTrue'
    <2>1. Event("Error", t) \in Events /\ Event("Error", t).kind = "Error"
      BY EventTypes DEF Kinds, Event
    <2>. QED
      BY <1>1, <2>1, EmitKeeps DEF IInv
  <1>4. TypeOK'
    BY <1>1, <1>2, <1>3 DEF IInv, TypeOK, clicks, Events
  <1>5. HeaderIsPartner'
    BY <1>1 DEF IInv, HeaderIsPartner
  <1>. QED
    BY <1>2, <1>3, <1>4, <1>5 DEF IInv

LEMMA FailuresInv ==
    ASSUME IInv, NEW t \in Thread,
           \/ BindFails(t) \/ PublishFails(t) \/ DialFails(t) \/ GreetFails(t)
           \/ LineReset(t) \/ WriteFails(t)
    PROVE  IInv'
  BY FailInv DEF BindFails, PublishFails, DialFails, GreetFails, LineReset, WriteFails

LEMMA LeaveInv ==
    ASSUME IInv, NEW t \in Thread, Leave(t)
    PROVE  IInv'
  <1>1. /\ step[t] = "chat"
        /\ step' = [step EXCEPT ![t] = "over"]
        /\ line' = [line EXCEPT ![t] = <<>>]
        /\ UNCHANGED <<owner, onion, receiving, invite, partner, events, connection,
                       status, peer, current>>
    BY DEF Leave, view
  <1>2. /\ step' \in [Thread -> HostSteps \cup JoinSteps \cup {"unborn", "over"}]
        /\ line' \in [Thread -> Seq(Thread)]
        /\ Net'
    BY <1>1, NotInLine, EndKeepsNet
  <1>3. TypeOK'
    BY <1>1, <1>2 DEF IInv, TypeOK, clicks
  <1>4. HeaderIsPartner' /\ EventsTrue'
    BY <1>1 DEF IInv, HeaderIsPartner, EventsTrue
  <1>. QED
    BY <1>2, <1>3, <1>4 DEF IInv

\* A host goes on to its next step before it has a socket.
LEMMA NextStepKeepsNet ==
    ASSUME IInv, NEW t \in Thread, NEW next \in {"publish", "listen"},
           step[t] \in {"bind", "publish"}, step' = [step EXCEPT ![t] = next],
           UNCHANGED <<owner, receiving, invite, partner, line>>
    PROVE  Net'
  <1>0. TypeOK /\ Net /\ clicks' = clicks
    BY DEF IInv, clicks
  <1>1. \A s \in Thread : step'[s] = IF s = t THEN next ELSE step[s]
    BY <1>0 DEF TypeOK
  <1>2. t <= clicks /\ invite[t] = Nobody /\ partner[t] = Nobody /\ ~ receiving[t]
    BY <1>0 DEF Net, Roles
  <1>3. Unborn'
    <2>1. clicks \in Nat /\ t \in Nat
      BY <1>0, ClicksTypes, Threads
    <2>. QED
      BY <1>0, <1>1, <1>2, <2>1 DEF Net, Unborn
  <1>4. Roles'
    BY <1>0, <1>1, <1>2 DEF Net, Roles
  <1>5. Waiting'
    <2>1. \A h \in Thread : \A i \in 1..Len(line[h]) : line[h][i] \in Thread
      BY <1>0 DEF TypeOK
    <2>. QED
      BY <1>0, <1>1, <1>2, <2>1 DEF Net, Waiting
  <1>6. OnceInLine' /\ Mutual' /\ MeetsInviter'
    BY <1>0 DEF Net, OnceInLine, Mutual, MeetsInviter, IsJoin, Genuine
  <1>. QED
    BY <1>3, <1>4, <1>5, <1>6 DEF Net

LEMMA BindInv ==
    ASSUME IInv, NEW t \in Thread, Bind(t)
    PROVE  IInv'
  <1>1. /\ step[t] = "bind" /\ step' = [step EXCEPT ![t] = "publish"]
        /\ UNCHANGED <<owner, onion, receiving, invite, partner, line, events, connection,
                       status, peer, current>>
    BY DEF Bind, net, view
  <1>2. Net'
    BY <1>1, NextStepKeepsNet
  <1>3. TypeOK'
    BY <1>1 DEF IInv, TypeOK, clicks, HostSteps
  <1>4. HeaderIsPartner' /\ EventsTrue'
    BY <1>1 DEF IInv, HeaderIsPartner, EventsTrue
  <1>. QED
    BY <1>2, <1>3, <1>4 DEF IInv

LEMMA PublishInv ==
    ASSUME IInv, NEW t \in Thread, Publish(t)
    PROVE  IInv'
  <1>1. /\ step[t] = "publish" /\ step' = [step EXCEPT ![t] = "listen"]
        /\ Emit(t, Event("InviteCreated", t))
        /\ UNCHANGED <<owner, onion, receiving, invite, partner, line, connection,
                       status, peer, current>>
    BY DEF Publish, net, view
  <1>2. Net'
    BY <1>1, NextStepKeepsNet
  <1>3. events' \in [Thread -> Seq(Events)] /\ EventsTrue'
    <2>1. Event("InviteCreated", t) \in Events /\ Event("InviteCreated", t).kind = "InviteCreated"
      BY EventTypes DEF Kinds, Event
    <2>. QED
      BY <1>1, <2>1, EmitKeeps DEF IInv
  <1>4. TypeOK'
    BY <1>1, <1>3 DEF IInv, TypeOK, clicks, HostSteps, Events
  <1>5. HeaderIsPartner'
    BY <1>1 DEF IInv, HeaderIsPartner
  <1>. QED
    BY <1>2, <1>3, <1>4, <1>5 DEF IInv

LEMMA DialInv ==
    ASSUME IInv, NEW j \in Thread, Dial(j)
    PROVE  IInv'
  <1>1. /\ step[j] = "dial" /\ step' = [step EXCEPT ![j] = "greet"]
        /\ UNCHANGED <<owner, onion, receiving, invite, partner, events, connection,
                       status, peer, current>>
    BY DEF Dial, view
  <1>2. PICK h \in Thread : line' = [line EXCEPT ![h] = Append(@, j)]
    BY DEF Dial
  <1>0. TypeOK /\ Net /\ clicks' = clicks
    BY <1>1 DEF IInv, clicks
  <1>3. line[h] \in Seq(Thread)
    BY <1>0 DEF TypeOK
  <1>4. /\ line'[h] \in Seq(Thread) /\ Len(line'[h]) = Len(line[h]) + 1 /\ Len(line[h]) \in Nat
        /\ \A i \in 1..Len(line[h]) : line'[h][i] = line[h][i]
        /\ line'[h][Len(line[h]) + 1] = j
    BY <1>0, <1>2, <1>3, AppendFacts DEF TypeOK
  <1>5. \A g \in Thread : g # h => line'[g] = line[g]
    BY <1>0, <1>2 DEF TypeOK
  <1>6. TypeOK'
    <2>1. line' \in [Thread -> Seq(Thread)]
      BY <1>0, <1>2, <1>4 DEF TypeOK
    <2>. QED
      BY <1>0, <1>1, <2>1 DEF TypeOK, JoinSteps
  <1>7. \A s \in Thread : step'[s] = IF s = j THEN "greet" ELSE step[s]
    BY <1>0, <1>1 DEF TypeOK
  <1>8. j <= clicks /\ invite[j] # Nobody /\ partner[j] = Nobody /\ ~ receiving[j]
    BY <1>0, <1>1 DEF Net, Roles
  <1>9. Unborn'
    <2>1. clicks \in Nat /\ j \in Nat
      BY <1>0, ClicksTypes, Threads
    <2>. QED
      BY <1>0, <1>1, <1>7, <1>8, <2>1 DEF Net, Unborn
  <1>10. Roles'
    BY <1>0, <1>1, <1>7, <1>8 DEF Net, Roles
  <1>11. \A g \in Thread : \A i \in 1..Len(line'[g]) :
            \/ i \in 1..Len(line[g]) /\ line'[g][i] = line[g][i] /\ line[g][i] # j
               /\ line[g][i] \in Thread
            \/ g = h /\ i = Len(line[h]) + 1 /\ line'[g][i] = j
    <2>1. SUFFICES ASSUME NEW g \in Thread, NEW i \in 1..Len(line'[g])
                   PROVE  \/ i \in 1..Len(line[g]) /\ line'[g][i] = line[g][i]
                          \/ g = h /\ i = Len(line[h]) + 1 /\ line'[g][i] = j
      <3>1. \A g \in Thread : \A i \in 1..Len(line[g]) : line[g][i] # j
        BY <1>1, NotInLine
      <3>2. \A g \in Thread : \A i \in 1..Len(line[g]) : line[g][i] \in Thread
        BY <1>0 DEF TypeOK
      <3>. QED
        BY <3>1, <3>2
    <2>2. CASE g = h
      BY <1>4, <2>2
    <2>3. CASE g # h
      BY <1>5, <2>3
    <2>. QED
      BY <2>2, <2>3
  <1>12. Waiting'
    BY <1>0, <1>1, <1>7, <1>8, <1>11 DEF Net, Waiting
  <1>13. OnceInLine'
    <2>1. SUFFICES ASSUME NEW f \in Thread, NEW g \in Thread, NEW i \in 1..Len(line'[f]),
                          NEW k \in 1..Len(line'[g]), line'[f][i] = line'[g][k]
                   PROVE  f = g /\ i = k
      BY DEF OnceInLine
    <2>2. CASE line'[f][i] = j
      <3>1. f = h /\ i = Len(line[h]) + 1
        BY <1>11, <2>2
      <3>2. g = h /\ k = Len(line[h]) + 1
        BY <1>11, <2>1, <2>2
      <3>. QED
        BY <3>1, <3>2
    <2>3. CASE line'[f][i] # j
      <3>1. i \in 1..Len(line[f]) /\ line'[f][i] = line[f][i]
        BY <1>11, <2>3
      <3>2. k \in 1..Len(line[g]) /\ line'[g][k] = line[g][k]
        BY <1>11, <2>1, <2>3
      <3>3. line[f][i] = line[g][k]
        BY <2>1, <3>1, <3>2
      <3>. QED
        BY <1>0, <3>1, <3>2, <3>3 DEF Net, OnceInLine
    <2>. QED
      BY <2>2, <2>3
  <1>14. Mutual' /\ MeetsInviter'
    BY <1>0, <1>1 DEF Net, Mutual, MeetsInviter, IsJoin, Genuine
  <1>15. HeaderIsPartner' /\ EventsTrue'
    BY <1>1 DEF IInv, HeaderIsPartner, EventsTrue
  <1>. QED
    BY <1>6, <1>9, <1>10, <1>12, <1>13, <1>14, <1>15 DEF IInv, Net

LEMMA AcceptInv ==
    ASSUME IInv, NEW h \in Thread, Accept(h)
    PROVE  IInv'
  <1>. DEFINE j == Head(line[h])
  <1>0. TypeOK /\ Net
    BY DEF IInv
  <1>1. /\ step[h] = "listen" /\ line[h] # <<>>
        /\ partner' = [partner EXCEPT ![h] = j, ![j] = h]
        /\ line' = [line EXCEPT ![h] = Tail(@)]
        /\ step' = [step EXCEPT ![h] = "greet"]
        /\ UNCHANGED <<owner, onion, receiving, invite, events, connection, status, peer, current>>
    BY DEF Accept, view
  <1>2. line[h] \in Seq(Thread)
    BY <1>0 DEF TypeOK
  <1>3. /\ j \in Thread /\ Tail(line[h]) \in Seq(Thread)
        /\ j = line[h][1] /\ 1 \in 1..Len(line[h])
        /\ \A i \in 1..Len(Tail(line[h])) :
              Tail(line[h])[i] = line[h][i + 1] /\ i + 1 \in 1..Len(line[h])
    BY <1>1, <1>2, TailFacts
  <1>4. /\ step[j] = "greet" /\ invite[j] # Nobody /\ partner[j] = Nobody /\ ~ receiving[j]
        /\ invite[h] = Nobody /\ partner[h] = Nobody /\ ~ receiving[h] /\ h <= clicks
    BY <1>0, <1>1, <1>3 DEF Net, Waiting, Roles
  <1>5. h # j /\ h # Nobody /\ j # Nobody
    BY <1>3, <1>4, Threads
  <1>6. /\ partner'[h] = j /\ partner'[j] = h
        /\ \A t \in Thread : t # h /\ t # j => partner'[t] = partner[t]
        /\ \A t \in Thread : step'[t] = IF t = h THEN "greet" ELSE step[t]
        /\ clicks' = clicks
    BY <1>0, <1>1, <1>3, <1>5 DEF TypeOK, clicks
  <1>7. TypeOK'
    <2>1. partner' \in [Thread -> Thread \cup {Nobody}]
      BY <1>0, <1>1, <1>3 DEF TypeOK
    <2>2. line' \in [Thread -> Seq(Thread)]
      BY <1>0, <1>1, <1>3 DEF TypeOK
    <2>. QED
      BY <1>0, <1>1, <1>6, <2>1, <2>2 DEF TypeOK, HostSteps, clicks
  <1>8. Unborn'
    <2>1. clicks \in Nat /\ h \in Nat
      BY <1>0, ClicksTypes, Threads
    <2>. QED
      BY <1>0, <1>1, <1>4, <1>6, <2>1 DEF Net, Unborn
  <1>9. Roles'
    <2>1. SUFFICES ASSUME NEW t \in Thread PROVE Roles!(t)'
      BY DEF Roles
    <2>2. CASE t = h
      BY <1>1, <1>4, <1>5, <1>6, <2>2
    <2>3. CASE t = j
      BY <1>0, <1>1, <1>4, <1>5, <1>6, <2>3 DEF Net, Roles
    <2>4. CASE t # h /\ t # j
      BY ZenonT(40), <1>0, <1>1, <1>6, <2>4 DEF Net, Roles
    <2>. QED
      BY <2>2, <2>3, <2>4
  \* Where an entry of a line was before.
  <1>. DEFINE Was(g, i) == IF g = h THEN i + 1 ELSE i
  <1>10. \A g \in Thread : \A i \in 1..Len(line'[g]) :
            /\ Was(g, i) \in 1..Len(line[g]) /\ line'[g][i] = line[g][Was(g, i)]
            /\ line'[g][i] \in Thread /\ line'[g][i] # j
    <2>1. SUFFICES ASSUME NEW g \in Thread, NEW i \in 1..Len(line'[g])
                   PROVE  /\ Was(g, i) \in 1..Len(line[g]) /\ line'[g][i] = line[g][Was(g, i)]
                          /\ line'[g][i] \in Thread /\ line'[g][i] # j
      OBVIOUS
    <2>2. Was(g, i) \in 1..Len(line[g]) /\ line'[g][i] = line[g][Was(g, i)]
      <3>1. CASE g = h
        <4>1. line'[g] = Tail(line[h])
          BY <1>0, <1>1, <3>1 DEF TypeOK
        <4>. QED
          BY <1>3, <3>1, <4>1
      <3>2. CASE g # h
        <4>1. line'[g] = line[g]
          BY <1>0, <1>1, <3>2 DEF TypeOK
        <4>. QED
          BY <3>2, <4>1
      <3>. QED
        BY <3>1, <3>2
    <2>3. line'[g] \in Seq(Thread)
      BY <1>7 DEF TypeOK
    <2>4. line'[g][i] \in Thread
      BY <2>3
    <2>5. line'[g][i] # j
      <3>1. SUFFICES ASSUME line[g][Was(g, i)] = line[h][1] PROVE FALSE
        BY <1>3, <2>2
      <3>2. g = h /\ Was(g, i) = 1
        BY <1>0, <1>3, <2>2, <3>1 DEF Net, OnceInLine
      <3>. QED
        BY <3>2
    <2>. QED
      BY <2>2, <2>4, <2>5
  <1>11. Waiting'
    <2>1. SUFFICES ASSUME NEW g \in Thread, NEW i \in 1..Len(line'[g])
                   PROVE  /\ step'[line'[g][i]] = "greet" /\ invite'[line'[g][i]] # Nobody
                          /\ partner'[line'[g][i]] = Nobody
      BY DEF Waiting
    <2>. DEFINE s == line'[g][i]
    <2>2. s \in Thread /\ s # j /\ s = line[g][Was(g, i)] /\ Was(g, i) \in 1..Len(line[g])
      BY <1>10, <2>1
    <2>3. step[s] = "greet" /\ invite[s] # Nobody /\ partner[s] = Nobody
      BY <1>0, <2>2 DEF Net, Waiting
    <2>. QED
      BY <1>1, <1>4, <1>6, <2>2, <2>3
  <1>12. OnceInLine'
    <2>1. SUFFICES ASSUME NEW f \in Thread, NEW g \in Thread, NEW i \in 1..Len(line'[f]),
                          NEW k \in 1..Len(line'[g]), line'[f][i] = line'[g][k]
                   PROVE  f = g /\ i = k
      BY DEF OnceInLine
    <2>2. f = g /\ Was(f, i) = Was(g, k)
      <3>1. /\ Was(f, i) \in 1..Len(line[f]) /\ Was(g, k) \in 1..Len(line[g])
            /\ line[f][Was(f, i)] = line[g][Was(g, k)]
        BY <1>10, <2>1
      <3>. HIDE DEF Was
      <3>. QED
        BY <1>0, <3>1 DEF Net, OnceInLine
    <2>. QED
      BY <2>2
  <1>13. Mutual'
    <2>1. SUFFICES ASSUME NEW t \in Thread, partner'[t] # Nobody
                   PROVE  partner'[partner'[t]] = t
      BY DEF Mutual
    <2>2. CASE t = h \/ t = j
      BY <1>6, <2>2
    <2>3. CASE t # h /\ t # j
      <3>1. partner'[t] = partner[t] /\ partner[t] \in Thread /\ partner[partner[t]] = t
        BY <1>0, <1>6, <2>1, <2>3 DEF Net, Mutual, TypeOK
      <3>2. partner[t] # h /\ partner[t] # j
        BY <1>4, <3>1, Threads
      <3>. QED
        BY <1>6, <3>1, <3>2
    <2>. QED
      BY <2>2, <2>3
  <1>14. MeetsInviter'
    <2>1. SUFFICES ASSUME NEW t \in Thread, IsJoin(t)', receiving'[t] PROVE Genuine(t)'
      BY DEF MeetsInviter
    <2>2. t # h /\ t # j /\ IsJoin(t) /\ receiving[t]
      BY <1>1, <1>4, <1>6, <2>1 DEF IsJoin
    <2>3. partner[t] = invite[t]
      BY <1>0, <2>2 DEF Net, MeetsInviter, Genuine
    <2>. QED
      BY <1>1, <1>6, <2>2, <2>3 DEF Genuine
  <1>15. EventsTrue'
    <2>1. SUFFICES ASSUME NEW t \in Thread, NEW i \in 1..Len(events[t]),
                          events[t][i].kind = "Connected"
                   PROVE  partner'[t] # Nobody /\ events[t][i].who = partner'[t]
      BY <1>1 DEF EventsTrue
    <2>2. partner[t] # Nobody /\ events[t][i].who = partner[t]
      BY <2>1 DEF IInv, EventsTrue
    <2>. QED
      BY <1>4, <1>6, <2>2
  <1>16. HeaderIsPartner'
    <2>1. SUFFICES ASSUME NEW a \in App, status[a] = "connected"
                   PROVE  /\ connection[a] # Nobody /\ peer[a] # Nobody
                          /\ partner'[connection[a]] = peer[a]
      BY <1>1 DEF HeaderIsPartner
    <2>2. connection[a] # Nobody /\ peer[a] # Nobody /\ partner[connection[a]] = peer[a]
      BY <2>1 DEF IInv, HeaderIsPartner
    <2>3. connection[a] \in Thread
      BY <1>0, <2>2 DEF TypeOK
    <2>. QED
      BY <1>4, <1>6, <2>2, <2>3
  <1>. QED
    BY <1>7, <1>8, <1>9, <1>11, <1>12, <1>13, <1>14, <1>15, <1>16 DEF IInv, Net

LEMMA EstablishedInv ==
    ASSUME IInv, NEW t \in Thread, HostMeets(t) \/ JoinMeets(t)
    PROVE  IInv'
  <1>0. TypeOK /\ Net
    BY DEF IInv
  <1>1. /\ step[t] = "greet"
        /\ step' = [step EXCEPT ![t] = "chat"]
        /\ receiving' = [receiving EXCEPT ![t] = TRUE]
        /\ Emit(t, Event("Connected", partner[t]))
        /\ UNCHANGED <<owner, onion, invite, partner, line, connection, status, peer, current>>
        /\ clicks' = clicks
    BY DEF HostMeets, JoinMeets, Established, view, clicks
  <1>2. partner[t] # Nobody /\ partner[t] \in Thread /\ t <= clicks
    <2>1. partner[t] # Nobody
      BY <1>0, <1>1 DEF HostMeets, JoinMeets, IsHost, Net, Roles
    <2>. QED
      BY <1>0, <1>1, <2>1 DEF TypeOK, Net, Roles
  <1>3. IsJoin(t) => Genuine(t)
    BY DEF HostMeets, JoinMeets, IsHost, IsJoin
  <1>4. \A s \in Thread : /\ step'[s] = IF s = t THEN "chat" ELSE step[s]
                          /\ receiving'[s] = IF s = t THEN TRUE ELSE receiving[s]
    BY <1>0, <1>1 DEF TypeOK
  <1>5. events' \in [Thread -> Seq(Events)] /\ EventsTrue'
    <2>1. /\ Event("Connected", partner[t]) \in Events
          /\ Event("Connected", partner[t]).who = partner[t]
      BY <1>2, EventTypes DEF Kinds, Event
    <2>. QED
      BY <1>1, <1>2, <2>1, EmitKeeps DEF IInv
  <1>6. TypeOK'
    <2>1. receiving' \in [Thread -> BOOLEAN]
      BY <1>0, <1>1 DEF TypeOK
    <2>. QED
      BY <1>0, <1>1, <1>5, <2>1 DEF TypeOK, HostSteps, Events
  <1>7. Unborn'
    <2>1. clicks \in Nat /\ t \in Nat
      BY <1>0, ClicksTypes, Threads
    <2>. QED
      BY <1>0, <1>1, <1>2, <1>4, <2>1 DEF Net, Unborn
  <1>8. Roles'
    <2>1. SUFFICES ASSUME NEW s \in Thread PROVE Roles!(s)'
      BY DEF Roles
    <2>2. CASE s = t
      <3>1. step'[s] = "chat" /\ s <= clicks' /\ partner'[s] # Nobody
        BY <1>1, <1>2, <1>4, <2>2
      <3>. QED
        BY <3>1
    <2>3. CASE s # t
      BY <1>0, <1>1, <1>4, <2>3 DEF Net, Roles
    <2>. QED
      BY <2>2, <2>3
  <1>9. Waiting'
    <2>1. \A h \in Thread : \A i \in 1..Len(line[h]) : line[h][i] # t
      BY <1>2, NotInLine
    <2>2. \A h \in Thread : \A i \in 1..Len(line[h]) : line[h][i] \in Thread
      BY <1>0 DEF TypeOK
    <2>. QED
      BY <1>0, <1>1, <1>4, <2>1, <2>2 DEF Net, Waiting
  <1>10. OnceInLine' /\ Mutual'
    BY <1>0, <1>1 DEF Net, OnceInLine, Mutual
  <1>11. MeetsInviter'
    BY <1>0, <1>1, <1>3, <1>4 DEF Net, MeetsInviter, IsJoin, Genuine
  <1>12. HeaderIsPartner'
    BY <1>1 DEF IInv, HeaderIsPartner
  <1>. QED
    BY <1>5, <1>6, <1>7, <1>8, <1>9, <1>10, <1>11, <1>12 DEF IInv, Net

LEMMA ReceiveEndsInv ==
    ASSUME IInv, NEW t \in Thread, ReceiveEnds(t)
    PROVE  IInv'
  <1>0. TypeOK /\ Net
    BY DEF IInv
  <1>1. /\ receiving' = [receiving EXCEPT ![t] = FALSE]
        /\ Emit(t, Event("Disconnected", t))
        /\ UNCHANGED <<owner, onion, step, invite, partner, line, connection, status, peer, current>>
        /\ clicks' = clicks
    BY DEF ReceiveEnds, view, clicks
  <1>2. \A s \in Thread : receiving'[s] => receiving[s]
    BY <1>0, <1>1 DEF TypeOK
  <1>3. events' \in [Thread -> Seq(Events)] /\ EventsTrue'
    <2>1. Event("Disconnected", t) \in Events /\ Event("Disconnected", t).kind = "Disconnected"
      BY EventTypes DEF Kinds, Event
    <2>. QED
      BY <1>1, <2>1, EmitKeeps DEF IInv
  <1>4. TypeOK'
    <2>1. receiving' \in [Thread -> BOOLEAN]
      BY <1>0, <1>1 DEF TypeOK
    <2>. QED
      BY <1>0, <1>1, <1>3, <2>1 DEF TypeOK, Events
  <1>5. Unborn' /\ Waiting' /\ OnceInLine' /\ Mutual'
    BY <1>0, <1>1 DEF Net, Unborn, Waiting, OnceInLine, Mutual
  <1>6. Roles'
    BY <1>0, <1>1, <1>2 DEF Net, Roles
  <1>7. MeetsInviter'
    BY <1>0, <1>1, <1>2 DEF Net, MeetsInviter, IsJoin, Genuine
  <1>8. HeaderIsPartner'
    BY <1>1 DEF IInv, HeaderIsPartner
  <1>. QED
    BY <1>3, <1>4, <1>5, <1>6, <1>7, <1>8 DEF IInv, Net

----------------------------------------------------------------------------
(* The theorems.                                                           *)

\* Every step of the UI and of a network thread keeps the invariant.
THEOREM Invariance == Spec => []IInv
  <1>1. ASSUME IInv, [Next]_vars PROVE IInv'
    <2>1. CASE \E a \in App : Click(a) \/ Drain(a)
      BY <1>1, <2>1, StartHostInv, StartJoinInv, TorFailsInv, DrainInv DEF Click
    <2>2. CASE \E t \in Thread :
                  HostThread(t) \/ JoinThread(t) \/ Leave(t) \/ ReceiveEnds(t) \/ WriteFails(t)
      BY <1>1, <2>2, BindInv, PublishInv, AcceptInv, EstablishedInv, DialInv, FailuresInv,
         LeaveInv, ReceiveEndsInv DEF HostThread, JoinThread
    <2>3. CASE UNCHANGED vars
      <3>1. UNCHANGED <<owner, onion, receiving, invite, partner, line, step, events,
                        connection, status, peer, current>>
        BY <2>3 DEF vars, net, view
      <3>2. TypeOK' /\ EventsTrue' /\ HeaderIsPartner'
        BY <1>1, <3>1 DEF IInv, TypeOK, clicks, EventsTrue, HeaderIsPartner
      <3>. QED
        BY <1>1, <3>1, <3>2, NetKept DEF IInv
    <2>. QED
      BY <1>1, <2>1, <2>2, <2>3 DEF Next
  <1>. QED
    BY <1>1, InitInv, PTL DEF Spec

\* Type correctness of FaunaApp, its threads and their events.
THEOREM TypeCorrect == Spec => []TypeOK
  <1>1. IInv => TypeOK
    BY DEF IInv
  <1>. QED
    BY <1>1, Invariance, PTL

\* join_network's check of the host's identity: with old invites, reused
\* addresses and abandoned host threads, who joins meets the inviter.
THEOREM JoinersMeetTheInviter == Spec => []MeetsInviter
  <1>1. IInv => MeetsInviter
    BY DEF IInv, Net
  <1>. QED
    BY <1>1, Invariance, PTL

\* host_network accepts once: of all who stand in its line one is its guest.
THEOREM HostsHaveOneGuest == Spec => []OneGuest
  <1>1. IInv => OneGuest
    <2>1. SUFFICES ASSUME IInv, NEW i \in Thread, NEW j \in Thread,
                          receiving[i], receiving[j], partner[i] = partner[j]
                   PROVE  i = j
      BY DEF OneGuest
    <2>2. partner[i] # Nobody /\ partner[j] # Nobody
      BY <2>1 DEF IInv, Net, Roles
    <2>3. partner[partner[i]] = i /\ partner[partner[j]] = j
      BY <2>1, <2>2 DEF IInv, Net, Mutual
    <2>. QED
      BY <2>1, <2>3
  <1>. QED
    BY <1>1, Invariance, PTL

\* The status line, peer_name and connection of FaunaApp belong together while
\* a session is up, whatever has been clicked before.
THEOREM HeadersNamePartners == Spec => []HeaderIsPartner
  <1>1. IInv => HeaderIsPartner
    BY DEF IInv
  <1>. QED
    BY <1>1, Invariance, PTL

----------------------------------------------------------------------------
(* Liveness: a click on "Sohbet Baslat" ends with an invite or an error.   *)
(* The host thread goes from bind to publish to what it reports, and the   *)
(* UI handles that first.  TLAPS does not reason about ENABLED: the guards *)
(* of the two threads are written down, and that they are is a premise.    *)

\* A connection is a thread of the app that has it.
Connected == \A a \in App : connection[a] # Nobody =>
    connection[a] <= clicks /\ owner[connection[a]] = a

\* A host thread reports nothing before it listens.
NothingToSay == \A t \in Thread :
    step[t] \in {"unborn", "bind", "publish"} => events[t] = <<>>

Calm == Connected /\ NothingToSay

ThreadStep(t) ==
    HostThread(t) \/ JoinThread(t) \/ Leave(t) \/ ReceiveEnds(t) \/ WriteFails(t)

\* A thread reports an event, or nothing: to its own channel, and to nobody if
\* its handle has been replaced.
Reports(t) ==
    \/ events' = events
    \/ \E e \in Events : events' = [events EXCEPT ![t] = Append(@, e)]

LEMMA ThreadReports ==
    ASSUME IInv, NEW t \in Thread, ThreadStep(t)
    PROVE  /\ Reports(t)
           /\ \A s \in Thread : s # t => step'[s] = step[s]
           /\ UNCHANGED <<owner, connection, status, current>>
  <1>0. step \in [Thread -> HostSteps \cup JoinSteps \cup {"unborn", "over"}]
    BY DEF IInv, TypeOK
  <1>1. ASSUME NEW e \in Events, Emit(t, e) PROVE Reports(t)
    BY <1>1 DEF Emit, Reports
  <1>2. /\ \A k \in Kinds : Event(k, t) \in Events
        /\ partner[t] # Nobody => Event("Connected", partner[t]) \in Events
    BY EventTypes DEF Kinds, IInv, TypeOK
  <1>3. CASE Fail(t)
    BY <1>0, <1>1, <1>2, <1>3 DEF Fail, view, Kinds
  <1>4. CASE Established(t) /\ partner[t] # Nobody
    BY <1>0, <1>1, <1>2, <1>4 DEF Established, view, Kinds
  <1>5. CASE Publish(t)
    BY <1>0, <1>1, <1>2, <1>5 DEF Publish, net, view, Kinds
  <1>6. CASE ReceiveEnds(t)
    BY <1>0, <1>1, <1>2, <1>6 DEF ReceiveEnds, view, Kinds
  <1>7. CASE Bind(t) \/ Dial(t) \/ Accept(t) \/ Leave(t)
    BY <1>0, <1>7 DEF Bind, Dial, Accept, Leave, net, view, Reports
  <1>8. HostMeets(t) \/ JoinMeets(t) => Established(t) /\ partner[t] # Nobody
    BY DEF HostMeets, JoinMeets, IsHost, IInv, Net, Roles
  <1>. QED
    BY <1>3, <1>4, <1>5, <1>6, <1>7, <1>8
       DEF ThreadStep, HostThread, JoinThread, BindFails, PublishFails, DialFails,
           GreetFails, LineReset, WriteFails

\* The three ways of t at the start of a host thread.
LEMMA HostBegins ==
    ASSUME IInv, NEW t \in Thread, ThreadStep(t), step[t] \in {"unborn", "bind", "publish"}
    PROVE  \/ Bind(t)
           \/ step[t] = "publish" /\ Publish(t)
           \/ step[t] # "unborn" /\ Fail(t)
  <1>1. ~ receiving[t] /\ (invite[t] = Nobody \/ step[t] = "unborn")
    BY DEF IInv, Net, Roles
  <1>. QED
    BY <1>1 DEF ThreadStep, HostThread, JoinThread, BindFails, PublishFails, DialFails,
        GreetFails, LineReset, WriteFails, Leave, ReceiveEnds, Accept, HostMeets, JoinMeets,
        Dial, Publish, Bind

LEMMA ClickKeeps ==
    ASSUME IInv, Calm, NEW b \in App, Click(b)
    PROVE  /\ Calm'
           /\ \A a \in App : a # b => connection'[a] = connection[a]
           /\ \A t \in Thread : step[t] # "unborn" =>
                 /\ step'[t] = step[t]
                 /\ t # connection[b] => events'[t] = events[t]
                 /\ connection'[b] = t => connection[b] = t
  <1>0. TypeOK /\ Net /\ clicks \in Nat
    BY ClicksTypes DEF IInv
  <1>1. CASE TorFails(b)
    BY <1>0, <1>1 DEF TorFails, net, Calm, Connected, NothingToSay, clicks
  <1>2. ASSUME NEW n, n = clicks + 1, clicks < MaxThreads, Connect(b, n),
               step' = [step EXCEPT ![n] = "bind"] \/ step' = [step EXCEPT ![n] = "dial"]
        PROVE  /\ Calm'
               /\ \A a \in App : a # b => connection'[a] = connection[a]
               /\ \A t \in Thread : step[t] # "unborn" =>
                     /\ step'[t] = step[t]
                     /\ t # connection[b] => events'[t] = events[t]
                     /\ connection'[b] = t => connection[b] = t
    <2>1. n \in Thread /\ n > clicks /\ n # Nobody /\ step[n] = "unborn"
      BY <1>0, <1>2, LobbyAssumption DEF Net, Unborn, Thread, Nobody
    <2>2. /\ clicks' = clicks + 1
          /\ owner'[n] = b /\ \A i \in 1..clicks : owner'[i] = owner[i]
      BY <1>0, <1>2, AppendFacts DEF Connect, clicks, TypeOK
    <2>3. /\ connection' = [connection EXCEPT ![b] = n]
          /\ \A s \in Thread : events'[s] = IF s = connection[b] THEN <<>> ELSE events[s]
      BY <1>2 DEF Connect
    <2>4. Connected'
      <3>1. SUFFICES ASSUME NEW a \in App, connection'[a] # Nobody
                     PROVE  connection'[a] <= clicks' /\ owner'[connection'[a]] = a
        BY DEF Connected
      <3>2. CASE a = b
        BY <1>0, <1>2, <2>2, <2>3, <3>2 DEF TypeOK
      <3>3. CASE a # b
        <4>1. connection'[a] = connection[a] /\ connection[a] \in Thread
          BY <1>0, <2>3, <3>1, <3>3 DEF TypeOK
        <4>2. connection[a] <= clicks /\ owner[connection[a]] = a /\ connection[a] \in 1..clicks
          BY <1>0, <3>1, <4>1 DEF Calm, Connected, Thread
        <4>. QED
          BY <1>0, <2>2, <4>1, <4>2
      <3>. QED
        BY <3>2, <3>3
    <2>5. NothingToSay'
      <3>1. \A t \in Thread : t # n => step'[t] = step[t]
        BY <1>0, <1>2 DEF TypeOK
      <3>. QED
        BY <2>1, <2>3, <3>1 DEF Calm, NothingToSay
    <2>6. \A t \in Thread : step[t] # "unborn" => t # n /\ step'[t] = step[t]
      BY <1>0, <1>2, <2>1 DEF TypeOK
    <2>. QED
      BY <1>0, <2>3, <2>4, <2>5, <2>6 DEF Calm, TypeOK
  <1>3. ASSUME NEW tor \in BOOLEAN, StartHost(b, tor)
        PROVE  /\ clicks < MaxThreads /\ Connect(b, clicks + 1)
               /\ step' = [step EXCEPT ![clicks + 1] = "bind"]
    BY <1>3 DEF StartHost
  <1>4. ASSUME NEW h \in Thread, StartJoin(b, h)
        PROVE  /\ clicks < MaxThreads /\ Connect(b, clicks + 1)
               /\ step' = [step EXCEPT ![clicks + 1] = "dial"]
    BY <1>4 DEF StartJoin
  <1>. QED
    BY <1>1, <1>2, <1>3, <1>4 DEF Click

LEMMA DrainKeeps ==
    ASSUME IInv, Calm, NEW b \in App, Drain(b)
    PROVE  /\ Calm'
           /\ UNCHANGED <<owner, step, connection>>
           /\ connection[b] # Nobody /\ events[connection[b]] # <<>>
           /\ \A t \in Thread : t # connection[b] => events'[t] = events[t]
  <1>1. /\ UNCHANGED <<owner, step, connection>>
        /\ connection[b] # Nobody /\ events[connection[b]] # <<>>
        /\ events' = [events EXCEPT ![connection[b]] = Tail(@)]
    BY DEF Drain, net
  <1>2. \A t \in Thread : t # connection[b] => events'[t] = events[t]
    BY <1>1 DEF IInv, TypeOK
  <1>3. connection[b] \in Thread
    BY <1>1 DEF IInv, TypeOK
  <1>4. step[connection[b]] \notin {"unborn", "bind", "publish"}
    BY <1>1, <1>3 DEF Calm, NothingToSay
  <1>5. Calm'
    BY <1>1, <1>2, <1>4 DEF Calm, Connected, NothingToSay, clicks
  <1>. QED
    BY <1>1, <1>2, <1>5

LEMMA CalmStep == IInv /\ Calm /\ [Next]_vars => Calm'
  <1>. SUFFICES ASSUME IInv, Calm, [Next]_vars PROVE Calm'
    OBVIOUS
  <1>1. ASSUME NEW t \in Thread, ThreadStep(t) PROVE Calm'
    <2>1. Connected'
      BY <1>1, ThreadReports DEF Calm, Connected, clicks
    <2>2. ASSUME NEW s \in Thread, step'[s] \in {"unborn", "bind", "publish"}
          PROVE  events'[s] = <<>>
      <3>1. CASE s # t
        <4>1. step'[s] = step[s] /\ events'[s] = events[s]
          BY <1>1, <3>1, ThreadReports DEF Reports, IInv, TypeOK
        <4>. QED
          BY <2>2, <4>1 DEF Calm, NothingToSay
      <3>2. CASE s = t /\ step[t] \in {"unborn", "bind", "publish"}
        <4>1. Bind(t)
          BY <1>1, <2>2, <3>2, HostBegins DEF Publish, Fail, IInv, TypeOK
        <4>. QED
          BY <3>2, <4>1 DEF Bind, Calm, NothingToSay
      <3>3. CASE s = t /\ step[t] \notin {"unborn", "bind", "publish"}
        BY <1>1, <2>2, <3>3 DEF ThreadStep, HostThread, JoinThread, Bind, BindFails, Publish,
           PublishFails, Accept, HostMeets, Dial, DialFails, JoinMeets, GreetFails, LineReset,
           Leave, ReceiveEnds, WriteFails, Fail, Established, IInv, TypeOK
      <3>. QED
        BY <3>1, <3>2, <3>3
    <2>. QED
      BY <2>1, <2>2 DEF Calm, NothingToSay
  <1>2. CASE UNCHANGED vars
    BY <1>2 DEF vars, net, view, Calm, Connected, NothingToSay, clicks
  <1>. QED
    BY <1>1, <1>2, ClickKeeps, DrainKeeps DEF Next, ThreadStep

LEMMA CalmAlways == Spec => []Calm
  <1>1. Init => Calm
    BY DEF Init, Calm, Connected, NothingToSay
  <1>. QED
    BY <1>1, CalmStep, Invariance, PTL DEF Spec

Dialing(j) == step[j] = "dial"

\* What a thread does to the lines: it accepts, it dials, it drops its own, or
\* it leaves them and the sockets alone.
Drops(t) ==
    /\ step' = [step EXCEPT ![t] = "over"]
    /\ line' = [line EXCEPT ![t] = <<>>]
    /\ UNCHANGED <<owner, invite, partner>>

Keeps(t) ==
    /\ \E s \in {"publish", "listen", "chat", "over"} : step' = [step EXCEPT ![t] = s]
    /\ UNCHANGED <<owner, invite, partner, line>>

LEMMA LineSteps ==
    ASSUME NEW t \in Thread, ThreadStep(t)
    PROVE  \/ Accept(t)
           \/ Dial(t)
           \/ Drops(t)
           \/ Keeps(t) /\ ~ Dialing(t)
           \/ UNCHANGED <<step, owner, invite, partner, line>> /\ receiving[t]
  <1>1. Fail(t) \/ Leave(t) => Drops(t)
    BY DEF Fail, Leave, Drops
  <1>2. Bind(t) \/ Publish(t) => Keeps(t) /\ ~ Dialing(t)
    BY DEF Bind, Publish, Keeps, net, Dialing
  <1>3. HostMeets(t) \/ JoinMeets(t) => Keeps(t) /\ ~ Dialing(t)
    BY DEF HostMeets, JoinMeets, Established, Keeps, Dialing
  <1>4. ReceiveEnds(t) => UNCHANGED <<step, owner, invite, partner, line>> /\ receiving[t]
    BY DEF ReceiveEnds
  <1>. QED
    BY <1>1, <1>2, <1>3, <1>4
       DEF ThreadStep, HostThread, JoinThread, BindFails, PublishFails, DialFails,
           GreetFails, LineReset, WriteFails

\* An invite that is about has been published.
Shown == \A j \in Thread : invite[j] # Nobody =>
    step[invite[j]] \notin {"unborn", "bind", "publish"}

\* Nobody stands in the line of a host that waits for Tor.
Reached == \A h \in Thread : line[h] # <<>> => step[h] \notin {"unborn", "bind"} /\ ~ AwaitsTor(h)

Public == Shown /\ Reached

LEMMA PublicStep == IInv /\ Public /\ [Next]_vars => Public'
  <1>. SUFFICES ASSUME IInv, Public, [Next]_vars PROVE Public'
    OBVIOUS
  <1>0. TypeOK /\ Roles /\ Unborn /\ clicks \in Nat
    BY ClicksTypes DEF IInv, Net
  <1>1. ASSUME NEW t \in Thread, ThreadStep(t) PROVE Public'
    <2>1. invite' = invite /\ onion' = onion
      BY <1>1 DEF ThreadStep, HostThread, JoinThread, Bind, BindFails, Publish, PublishFails,
         Accept, HostMeets, Dial, DialFails, JoinMeets, GreetFails, LineReset, Leave,
         ReceiveEnds, WriteFails, Fail, Established, net
    <2>2. /\ \A s \in Thread : s # t => step'[s] = step[s]
          /\ step'[t] \in {"unborn", "bind", "publish"} =>
                step'[t] = step[t] \/ (step[t] = "bind" /\ step'[t] = "publish")
      BY <1>0, <1>1 DEF ThreadStep, HostThread, JoinThread, Bind, BindFails, Publish,
         PublishFails, Accept, HostMeets, Dial, DialFails, JoinMeets, GreetFails, LineReset,
         Leave, ReceiveEnds, WriteFails, Fail, Established, TypeOK
    <2>3. Shown'
      BY <1>0, <2>1, <2>2 DEF Public, Shown, TypeOK
    <2>4. ASSUME NEW h \in Thread, line[h] # <<>>
          PROVE  step'[h] \notin {"unborn", "bind"} /\ ~ AwaitsTor(h)'
      BY <2>1, <2>2, <2>4 DEF Public, Reached, AwaitsTor
    <2>5. ASSUME NEW h \in Thread, line'[h] # <<>>, line[h] = <<>>
          PROVE  step'[h] \notin {"unborn", "bind"} /\ ~ AwaitsTor(h)'
      <3>1. Dial(t)
        <4>1. Accept(t) => \A g \in Thread : g # t => line'[g] = line[g]
          BY <1>0 DEF Accept, TypeOK
        <4>2. Accept(t) => line[t] # <<>>
          BY DEF Accept
        <4>3. Drops(t) => line'[h] = line[h] \/ line'[h] = <<>>
          BY <1>0 DEF Drops, TypeOK
        <4>. QED
          BY <1>1, <2>5, <4>1, <4>2, <4>3, LineSteps DEF Keeps
      <3>2. PICK g \in Thread : /\ Bound(g) /\ SameAddress(g, invite[t])
                                /\ line' = [line EXCEPT ![g] = Append(@, t)]
        BY <3>1 DEF Dial
      <3>3. h = g
        BY <1>0, <2>5, <3>2 DEF TypeOK
      <3>4. step[h] \in {"publish", "listen", "greet", "chat"}
        BY <3>2, <3>3 DEF Bound, HostSteps
      <3>5. step'[h] = step[h]
        BY <2>2, <3>1, <3>4 DEF Dial
      <3>6. step[h] = "publish" => ~ onion[h]
        <4>1. invite[t] # Nobody
          BY <1>0, <3>1 DEF Dial, Roles
        <4>. QED
          BY <3>2, <3>3, <4>1 DEF SameAddress, Public, Shown
      <3>. QED
        BY <2>1, <3>4, <3>5, <3>6 DEF AwaitsTor
    <2>. QED
      BY <2>3, <2>4, <2>5 DEF Public, Reached
  <1>2. ASSUME NEW a \in App, Click(a) PROVE Public'
    <2>1. CASE TorFails(a)
      BY <2>1 DEF TorFails, net, Public, Shown, Reached, AwaitsTor
    <2>2. ASSUME clicks < MaxThreads
          PROVE  clicks + 1 \in Thread /\ step[clicks + 1] = "unborn" /\ invite[clicks + 1] = Nobody
      BY <1>0, <2>2, LobbyAssumption DEF Thread, Unborn
    <2>3. ASSUME NEW tor \in BOOLEAN, StartHost(a, tor) PROVE Public'
      <3>1. /\ clicks < MaxThreads /\ line' = line /\ invite' = invite
            /\ \A s \in Thread : s # clicks + 1 => step'[s] = step[s] /\ onion'[s] = onion[s]
        BY <1>0, <2>3 DEF StartHost, TypeOK
      <3>2. Shown'
        BY <1>0, <2>2, <3>1 DEF Public, Shown, TypeOK
      <3>3. Reached'
        BY <2>2, <3>1 DEF Public, Reached, AwaitsTor
      <3>. QED
        BY <3>2, <3>3 DEF Public
    <2>4. ASSUME NEW h \in Thread, StartJoin(a, h) PROVE Public'
      <3>1. /\ clicks < MaxThreads /\ Created(h) /\ UNCHANGED <<line, onion>>
            /\ \A s \in Thread : s # clicks + 1 => step'[s] = step[s] /\ invite'[s] = invite[s]
        BY <1>0, <2>4 DEF StartJoin, TypeOK
      <3>2. invite'[clicks + 1] = h /\ h # clicks + 1
        BY <1>0, <2>2, <2>4, <3>1, Threads DEF StartJoin, TypeOK, Created, IsHost
      <3>3. step[h] \notin {"unborn", "bind", "publish"}
        BY <1>0, <3>1 DEF Created, Roles
      <3>4. Shown'
        BY ZenonT(40), <1>0, <2>2, <3>1, <3>2, <3>3 DEF Public, Shown, TypeOK
      <3>5. Reached'
        BY <2>2, <3>1 DEF Public, Reached, AwaitsTor
      <3>. QED
        BY <3>4, <3>5 DEF Public
    <2>. QED
      BY <1>2, <2>1, <2>3, <2>4 DEF Click
  <1>3. (\E a \in App : Drain(a)) \/ UNCHANGED vars => Public'
    BY DEF Drain, vars, net, Public, Shown, Reached, AwaitsTor
  <1>. QED
    BY <1>1, <1>2, <1>3 DEF Next, ThreadStep

LEMMA PublicAlways == Spec => []Public
  <1>1. Init => Public
    BY DEF Init, Public, Shown, Reached
  <1>. QED
    BY <1>1, PublicStep, Invariance, PTL DEF Spec

\* Whether a thread goes by Tor is settled when it is spawned.
LEMMA TorStays ==
    ASSUME IInv, Public, [Next]_vars, NEW t \in Thread
    PROVE  /\ step[t] # "unborn" => onion'[t] = onion[t]
           /\ Dialing(t) /\ Dialing(t)' => AwaitsProxy(t)' = AwaitsProxy(t)
  <1>0. TypeOK /\ Roles /\ Unborn /\ clicks \in Nat
    BY ClicksTypes DEF IInv, Net
  <1>1. clicks < MaxThreads => clicks + 1 \in Thread /\ step[clicks + 1] = "unborn"
    BY <1>0, LobbyAssumption DEF Thread, Unborn
  <1>2. ASSUME NEW s \in Thread, step[s] # "unborn" PROVE onion'[s] = onion[s] /\ invite'[s] = invite[s]
    BY <1>0, <1>1, <1>2 DEF Next, Click, StartHost, StartJoin, TorFails, Drain,
       HostThread, JoinThread, Bind, BindFails, Publish, PublishFails,
       Accept, HostMeets, Dial, DialFails, JoinMeets, GreetFails, LineReset, Leave,
       ReceiveEnds, WriteFails, Fail, Established, net, vars, TypeOK
  <1>3. ASSUME Dialing(t) PROVE invite[t] \in Thread /\ step[invite[t]] # "unborn"
    BY <1>0, <1>3 DEF Dialing, Roles, TypeOK, Public, Shown
  <1>. QED
    BY <1>2, <1>3 DEF AwaitsProxy, Dialing

\* A click of app a on its way: its thread t is still the app's, and is at
\* `bind`, at `publish`, or has reported.
Begun(a, t, where) == connection[a] = t /\ step[t] = where

Reported(a, t) ==
    /\ connection[a] = t /\ events[t] # <<>>
    /\ events[t][1].kind \in {"InviteCreated", "Error"} /\ events[t][1].who = t

Ended(a, t) == connection[a] # t \/ current[a] = t \/ status[a] = "error"

\* Nobody but t brings its start further, and nobody hides what it reports.
LEMMA StartSteps ==
    ASSUME IInv, Calm, [Next]_vars, NEW a \in App, NEW t \in Thread
    PROVE  /\ Begun(a, t, "bind") =>
                 \/ Begun(a, t, "bind")' \/ Begun(a, t, "publish")'
                 \/ Reported(a, t)' \/ Ended(a, t)'
           /\ Begun(a, t, "publish") =>
                 Begun(a, t, "publish")' \/ Reported(a, t)' \/ Ended(a, t)'
           /\ Reported(a, t) => Reported(a, t)' \/ Ended(a, t)'
  <1>0. /\ t # Nobody /\ events \in [Thread -> Seq(Events)]
        /\ step \in [Thread -> HostSteps \cup JoinSteps \cup {"unborn", "over"}]
    BY Threads DEF IInv, TypeOK, Events
  <1>. SUFFICES ASSUME connection[a] = t, ~ Ended(a, t)',
                       Begun(a, t, "bind") \/ Begun(a, t, "publish") \/ Reported(a, t)
                PROVE  /\ Begun(a, t, "bind") =>
                            Begun(a, t, "bind")' \/ Begun(a, t, "publish")' \/ Reported(a, t)'
                       /\ Begun(a, t, "publish") => Begun(a, t, "publish")' \/ Reported(a, t)'
                       /\ Reported(a, t) => Reported(a, t)'
    BY DEF Begun, Reported
  <1>1. connection'[a] = t
    BY DEF Ended
  <1>2. step[t] # "unborn"
    BY <1>0 DEF Begun, Reported, Calm, NothingToSay
  <1>3. CASE step'[t] = step[t] /\ events'[t] = events[t]
    BY <1>1, <1>3 DEF Begun, Reported
  <1>4. ASSUME NEW b \in App, Click(b) PROVE step'[t] = step[t] /\ events'[t] = events[t]
    <2>1. CASE b # a
      <3>1. connection[b] # t
        BY <1>0, <2>1 DEF Calm, Connected
      <3>. QED
        BY <1>2, <1>4, <3>1, ClickKeeps
    <2>2. CASE b = a
      \* A click of a itself either fails before it spawns a thread, or
      \* replaces t.
      <3>1. CASE TorFails(a)
        BY <3>1 DEF TorFails
      <3>2. CASE Connect(a, clicks + 1)
        <4>1. connection'[a] = clicks + 1
          BY <3>2 DEF Connect, IInv, TypeOK
        <4>2. t <= clicks /\ clicks \in Nat /\ t \in Nat
          BY <1>0, ClicksTypes, LobbyAssumption DEF Calm, Connected, IInv, Thread
        <4>. QED
          BY <1>1, <4>1, <4>2
      <3>. QED
        BY <1>4, <2>2, <3>1, <3>2 DEF Click, StartHost, StartJoin
    <2>. QED
      BY <2>1, <2>2
  <1>5. ASSUME NEW b \in App, Drain(b)
        PROVE  (step'[t] = step[t] /\ events'[t] = events[t]) \/ Ended(a, t)'
    <2>1. CASE b # a
      <3>1. connection[b] # t
        BY <1>0, <2>1 DEF Calm, Connected
      <3>. QED
        BY <1>5, <3>1, DrainKeeps
    <2>2. CASE b = a
      <3>1. Reported(a, t)
        BY <1>5, <2>2, DrainKeeps DEF Begun, Calm, NothingToSay
      <3>2. Head(events[t]) = events[t][1]
        BY <1>0, <3>1, TailFacts DEF Reported
      <3>3. current'[a] = t \/ status'[a] = "error"
        BY <1>5, <2>2, <3>1, <3>2 DEF Drain, Reported, IInv, TypeOK
      <3>. QED
        BY <3>3 DEF Ended
    <2>. QED
      BY <2>1, <2>2
  <1>6. ASSUME NEW s \in Thread, ThreadStep(s), s # t
        PROVE  step'[t] = step[t] /\ events'[t] = events[t]
    BY <1>0, <1>6, ThreadReports DEF Reports
  <1>7. ASSUME NEW e \in Events, events' = [events EXCEPT ![t] = Append(@, e)]
        PROVE  /\ events'[t] # <<>> /\ events'[t][1] = IF events[t] = <<>> THEN e ELSE events[t][1]
    <2>1. events'[t] = Append(events[t], e) /\ events[t] \in Seq(Events)
      BY <1>0, <1>7
    <2>2. Append(events[t], e) # <<>>
      BY <2>1
    <2>3. CASE events[t] = <<>>
      BY <2>1, <2>3
    <2>4. CASE events[t] # <<>>
      <3>1. 1 \in 1..Len(events[t])
        BY <2>1, <2>4, TailFacts
      <3>. QED
        BY <2>1, <2>4, <3>1, AppendFacts
    <2>. QED
      BY <2>1, <2>2, <2>3, <2>4
  <1>8. CASE ThreadStep(t) /\ Reported(a, t)
    <2>1. Reported(a, t)'
      <3>1. CASE events' = events
        BY <1>1, <1>8, <3>1 DEF Reported
      <3>2. CASE events' # events
        <4>1. PICK e \in Events : events' = [events EXCEPT ![t] = Append(@, e)]
          BY <1>8, <3>2, ThreadReports DEF Reports
        <4>. QED
          BY <1>1, <1>7, <1>8, <4>1 DEF Reported
      <3>. QED
        BY <3>1, <3>2
    <2>. QED
      BY <2>1, <1>8 DEF Begun, Reported, Calm, NothingToSay
  <1>9. CASE ThreadStep(t) /\ ~ Reported(a, t)
    <2>1. step[t] \in {"bind", "publish"} /\ events[t] = <<>> /\ Held(t)
      <3>1. step[t] \in {"bind", "publish"}
        BY <1>9 DEF Begun
      <3>2. events[t] = <<>>
        BY <3>1 DEF Calm, NothingToSay
      <3>3. owner[t] = a
        BY <1>0 DEF Calm, Connected
      <3>. QED
        BY <3>1, <3>2, <3>3 DEF Held
    <2>2. CASE Bind(t)
      BY <1>0, <1>1, <1>9, <2>2 DEF Bind, Begun
    <2>3. CASE Publish(t) \/ Fail(t)
      <3>1. PICK e \in Events : /\ events' = [events EXCEPT ![t] = Append(@, e)]
                                /\ e.kind \in {"InviteCreated", "Error"} /\ e.who = t
        BY ZenonT(40), <2>1, <2>3, EventTypes DEF Publish, Fail, Emit, Event, Kinds
      <3>2. Reported(a, t)'
        BY <1>1, <1>7, <2>1, <3>1 DEF Reported
      <3>. QED
        BY <3>2, <1>9
    <2>. QED
      BY <1>9, <2>1, <2>2, <2>3, HostBegins
  <1>10. CASE UNCHANGED vars
    BY <1>3, <1>10 DEF vars, net
  <1>. QED
    BY <1>3, <1>4, <1>5, <1>6, <1>8, <1>9, <1>10 DEF Next, ThreadStep

\* Each step of the host thread brings a start nearer to its end, and the
\* first event that the UI handles is that end.
LEMMA StartGoesOn ==
    ASSUME IInv, Calm, NEW a \in App, NEW t \in Thread
    PROVE  /\ HostThread(t) /\ Begun(a, t, "bind") =>
                 Begun(a, t, "publish")' \/ Reported(a, t)' \/ Ended(a, t)'
           /\ HostThread(t) /\ Begun(a, t, "publish") => Reported(a, t)' \/ Ended(a, t)'
           /\ Drain(a) /\ Reported(a, t) => Ended(a, t)'
  <1>1. ASSUME HostThread(t), Begun(a, t, "bind") \/ Begun(a, t, "publish")
        PROVE  /\ step'[t] # "bind"
               /\ step[t] = "publish" => step'[t] # "publish"
    <2>1. step \in [Thread -> HostSteps \cup JoinSteps \cup {"unborn", "over"}]
      BY DEF IInv, TypeOK
    <2>. QED
      BY <1>1, <2>1 DEF HostThread, Bind, BindFails, Publish, PublishFails, Accept, HostMeets,
         GreetFails, Fail, Begun
  <1>2. HostThread(t) => [Next]_vars
    BY DEF Next
  <1>3. ASSUME Drain(a), Reported(a, t) PROVE Ended(a, t)'
    <2>1. Head(events[t]) = events[t][1] /\ t \in Thread /\ events[t] \in Seq(Events)
      BY <1>3, TailFacts DEF Reported, IInv, TypeOK, Events
    <2>2. current'[a] = t \/ status'[a] = "error"
      BY <1>3, <2>1 DEF Drain, Reported, IInv, TypeOK
    <2>. QED
      BY <2>2 DEF Ended
  <1>. QED
    BY <1>1, <1>2, <1>3, StartSteps DEF Begun

\* A host that waits for Tor waits as long as it publishes, and one that does
\* not never will.
LEMMA PublishingStays ==
    ASSUME IInv, Public, [Next]_vars, NEW a \in App, NEW t \in Thread,
           Begun(a, t, "publish"), Begun(a, t, "publish")'
    PROVE  AwaitsTor(t)' = AwaitsTor(t)
  BY TorStays DEF Begun, AwaitsTor

LEMMA OneInviteOrError ==
    ASSUME NEW a \in App, NEW t \in Thread
    PROVE  /\ Spec /\ UiFairness(a) /\ ThreadFairness(t)
           /\ []GuardsEnable
           => (Begun(a, t, "bind") ~> Ended(a, t) \/ []AwaitsTor(t))
  <1>1. IInv /\ Calm /\ [Next]_vars =>
           /\ Begun(a, t, "bind") =>
                 \/ Begun(a, t, "bind")' \/ Begun(a, t, "publish")'
                 \/ Reported(a, t)' \/ Ended(a, t)'
           /\ Begun(a, t, "publish") =>
                 Begun(a, t, "publish")' \/ Reported(a, t)' \/ Ended(a, t)'
           /\ Reported(a, t) => Reported(a, t)' \/ Ended(a, t)'
    BY StartSteps
  <1>2. IInv /\ Calm /\ <<HostRuns(t)>>_vars =>
           /\ Begun(a, t, "bind") => Begun(a, t, "publish")' \/ Reported(a, t)' \/ Ended(a, t)'
           /\ Begun(a, t, "publish") => Reported(a, t)' \/ Ended(a, t)'
    BY StartGoesOn DEF HostRuns
  <1>3. IInv /\ Calm /\ <<Drain(a)>>_vars => (Reported(a, t) => Ended(a, t)')
    BY StartGoesOn
  <1>4. GuardsEnable => UiGuardEnables(a) /\ ThreadGuardsEnable(t)
    BY DEF GuardsEnable
  <1>5. ThreadGuardsEnable(t) /\ (Begun(a, t, "bind") \/ (Begun(a, t, "publish") /\ ~ AwaitsTor(t)))
           => ENABLED <<HostRuns(t)>>_vars
    BY DEF Begun, HostCanStep, ThreadGuardsEnable
  <1>6. UiGuardEnables(a) /\ Reported(a, t) => ENABLED <<Drain(a)>>_vars
    BY Threads DEF Reported, UiCanStep, UiGuardEnables
  <1>7. IInv /\ Public /\ [Next]_vars /\ Begun(a, t, "publish") /\ Begun(a, t, "publish")'
           => (AwaitsTor(t)' <=> AwaitsTor(t))
    BY PublishingStays
  <1>. DEFINE Env == []IInv /\ []Calm /\ []Public /\ [][Next]_vars /\ []GuardsEnable
                        /\ UiFairness(a) /\ ThreadFairness(t)
  <1>8. Env => (Begun(a, t, "bind") ~> Begun(a, t, "publish") \/ Reported(a, t) \/ Ended(a, t))
    BY <1>1, <1>2, <1>4, <1>5, PTL DEF ThreadFairness
  <1>9. Env => (Begun(a, t, "publish") ~> Reported(a, t) \/ Ended(a, t) \/ []AwaitsTor(t))
    BY <1>1, <1>2, <1>4, <1>5, <1>7, PTL DEF ThreadFairness
  <1>10. Env => (Reported(a, t) ~> Ended(a, t))
    BY <1>1, <1>3, <1>4, <1>6, PTL DEF UiFairness
  <1>. QED
    BY <1>8, <1>9, <1>10, Invariance, CalmAlways, PublicAlways, PTL DEF Spec

\* A click on "Sohbet Baslat" ends with an invite on the screen or an error,
\* for any number of apps, clicks, taken ports and refusals of Tor, unless the
\* user clicks again first or Tor never answers.
THEOREM StartsAreAnswered == FairSpec /\ []GuardsEnable => InviteOrError
  <1>. SUFFICES ASSUME NEW a \in App, NEW t \in Thread
                PROVE  FairSpec /\ []GuardsEnable =>
                          (Begun(a, t, "bind") ~> Ended(a, t) \/ []AwaitsTor(t))
    BY DEF InviteOrError, Begun, Ended
  <1>1. FairSpec => Spec /\ UiFairness(a) /\ ThreadFairness(t)
    BY DEF FairSpec, Fairness
  <1>. QED
    BY <1>1, OneInviteOrError

----------------------------------------------------------------------------
(* Liveness: whoever joins gets a chat or an error, or stands for ever     *)
(* behind another guest or at his Tor.  Which host the joiner reaches is   *)
(* open until he dials, so the argument about one host is made for all of  *)
(* them at once, and needs their fairness at every moment: []Fairness says *)
(* no more than Fairness, but the provers do not move [] over its          *)
(* quantifiers.                                                            *)

\* A thread in a chat has met somebody.
Met == \A t \in Thread : step[t] = "chat" => partner[t] # Nobody

AtHost(j, h, where) == j \in ToSet(line[h]) /\ step[h] = where

Adrift(j) == step[j] = "greet" /\ partner[j] = Nobody /\ ~ InLine(j)

Greeting(j) == step[j] = "greet" /\ invite[j] # Nobody /\ partner[j] # Nobody

Done(j) == step[j] \in {"chat", "over"}

\* Clicks and the handling of events do not reach the sockets.
LEMMA UiKeepsSockets ==
    ASSUME IInv, [Next]_vars, \A t \in Thread : ~ ThreadStep(t)
    PROVE  /\ line' = line /\ partner' = partner
           /\ \A t \in Thread : step[t] # "unborn" => step'[t] = step[t] /\ invite'[t] = invite[t]
  <1>0. TypeOK /\ clicks \in Nat /\ Unborn
    BY ClicksTypes DEF IInv, Net
  <1>1. ASSUME NEW a \in App, Click(a)
        PROVE  /\ line' = line /\ partner' = partner
               /\ \A t \in Thread : step[t] # "unborn" =>
                     step'[t] = step[t] /\ invite'[t] = invite[t]
    <2>1. clicks < MaxThreads => clicks + 1 \in Thread /\ step[clicks + 1] = "unborn"
      BY <1>0, LobbyAssumption DEF Thread, Unborn
    <2>. QED
      BY <1>0, <1>1, <2>1 DEF Click, StartHost, StartJoin, TorFails, net, TypeOK
  <1>2. (\E a \in App : Drain(a)) \/ UNCHANGED vars => UNCHANGED <<line, partner, step, invite>>
    BY DEF Drain, vars, net
  <1>. QED
    BY <1>1, <1>2 DEF Next, ThreadStep

LEMMA MetAlways == Spec => []Met
  <1>1. Init => Met
    BY DEF Init, Met
  <1>2. IInv /\ Met /\ [Next]_vars => Met'
    <2>. SUFFICES ASSUME IInv, Met, [Next]_vars, NEW t \in Thread, step'[t] = "chat"
                  PROVE  partner'[t] # Nobody
      BY DEF Met
    <2>0. TypeOK /\ Roles
      BY DEF IInv, Net
    <2>1. ASSUME NEW s \in Thread, ThreadStep(s) PROVE partner'[t] # Nobody
      <3>1. step'[t] = step[t] => partner[t] # Nobody
        BY DEF Met
      <3>2. step'[t] # step[t] =>
               s = t /\ (HostMeets(t) \/ JoinMeets(t)) /\ partner' = partner /\ partner[t] # Nobody
        BY <2>0, <2>1 DEF ThreadStep, HostThread, JoinThread, Bind, BindFails, Publish,
           PublishFails, Accept, HostMeets, Dial, DialFails, JoinMeets, GreetFails, LineReset,
           Leave, ReceiveEnds, WriteFails, Fail, Established, IsHost, Roles, TypeOK
      <3>3. partner[t] # Nobody => partner'[t] # Nobody
        BY ZenonT(40), <2>0, <2>1, LineSteps, Threads DEF Accept, Dial, Drops, Keeps, TypeOK
      <3>. QED
        BY <3>1, <3>2, <3>3
    <2>2. CASE \A s \in Thread : ~ ThreadStep(s)
      <3>1. step[t] # "unborn" => step'[t] = step[t]
        BY <2>2, UiKeepsSockets
      <3>2. step[t] # "unborn"
        <4>1. ASSUME NEW a \in App, Click(a) PROVE step[t] # "unborn"
          BY <2>0, <4>1 DEF Click, StartHost, StartJoin, TorFails, TypeOK, Thread
        <4>2. (\E a \in App : Drain(a)) \/ UNCHANGED vars => UNCHANGED step
          BY DEF Drain, vars
        <4>. QED
          BY <2>2, <4>1, <4>2 DEF Next, ThreadStep
      <3>. QED
        BY <2>2, <3>1, <3>2, UiKeepsSockets DEF Met
    <2>. QED
      BY <2>1, <2>2
  <1>. QED
    BY <1>1, <1>2, Invariance, PTL DEF Spec

LEMMA Members ==
    ASSUME NEW S, NEW s \in Seq(S)
    PROVE  \A x : x \in ToSet(s) <=> \E i \in 1..Len(s) : x = s[i]
  BY DEF ToSet

\* Who stands in a line, and what an Accept or a Dial does to it.
LEMMA InLineFacts ==
    ASSUME IInv, NEW h \in Thread
    PROVE  /\ line[h] \in Seq(Thread)
           /\ \A j \in ToSet(line[h]) :
                 /\ step[j] = "greet" /\ invite[j] # Nobody /\ partner[j] = Nobody
                 /\ j \in Thread
                 /\ \A g \in Thread : j \in ToSet(line[g]) => g = h
           /\ line[h] # <<>> =>
                 /\ Head(line[h]) \in ToSet(line[h])
                 /\ \A j \in ToSet(line[h]) : j = Head(line[h]) \/ j \in ToSet(Tail(line[h]))
                 /\ ToSet(Tail(line[h])) \subseteq ToSet(line[h])
           /\ \A j \in Thread : ToSet(Append(line[h], j)) = ToSet(line[h]) \cup {j}
  <1>1. \A g \in Thread : line[g] \in Seq(Thread)
    BY DEF IInv, TypeOK
  <1>2. ASSUME NEW j \in ToSet(line[h])
        PROVE  /\ step[j] = "greet" /\ invite[j] # Nobody /\ partner[j] = Nobody
               /\ j \in Thread
               /\ \A g \in Thread : j \in ToSet(line[g]) => g = h
    <2>1. PICK i \in 1..Len(line[h]) : j = line[h][i]
      BY <1>1 DEF ToSet
    <2>2. ASSUME NEW g \in Thread, j \in ToSet(line[g]) PROVE g = h
      <3>1. PICK k \in 1..Len(line[g]) : j = line[g][k]
        BY <1>1, <2>2 DEF ToSet
      <3>. QED
        BY <2>1, <3>1 DEF IInv, Net, OnceInLine
    <2>. QED
      BY <1>1, <2>1, <2>2 DEF IInv, Net, Waiting
  <1>3. ASSUME line[h] # <<>>
        PROVE  /\ Head(line[h]) \in ToSet(line[h])
               /\ \A j \in ToSet(line[h]) : j = Head(line[h]) \/ j \in ToSet(Tail(line[h]))
               /\ ToSet(Tail(line[h])) \subseteq ToSet(line[h])
    <2>1. /\ Head(line[h]) = line[h][1] /\ 1 \in 1..Len(line[h])
          /\ Tail(line[h]) \in Seq(Thread) /\ Len(Tail(line[h])) = Len(line[h]) - 1
          /\ \A i \in 1..Len(Tail(line[h])) :
                Tail(line[h])[i] = line[h][i + 1] /\ i + 1 \in 1..Len(line[h])
      BY <1>1, <1>3, TailFacts
    <2>2. ASSUME NEW j \in ToSet(line[h]) PROVE j = Head(line[h]) \/ j \in ToSet(Tail(line[h]))
      <3>1. PICK i \in 1..Len(line[h]) : j = line[h][i]
        BY <1>1 DEF ToSet
      <3>2. CASE i # 1
        <4>1. i - 1 \in 1..Len(Tail(line[h])) /\ Tail(line[h])[i - 1] = line[h][(i - 1) + 1]
          BY <1>1, <2>1, <3>1, <3>2
        <4>2. (i - 1) + 1 = i
          BY <1>1
        <4>. QED
          BY <2>1, <3>1, <4>1, <4>2, Members
      <3>. QED
        BY <2>1, <3>1, <3>2
    <2>3. Head(line[h]) \in ToSet(line[h])
      BY <1>1, <2>1, Members
    <2>4. ToSet(Tail(line[h])) \subseteq ToSet(line[h])
      <3>1. ASSUME NEW j \in ToSet(Tail(line[h])) PROVE j \in ToSet(line[h])
        <4>0. Tail(line[h]) \in Seq(Thread)
          BY <2>1
        <4>1. PICK i \in 1..Len(Tail(line[h])) : j = Tail(line[h])[i]
          BY <3>1, <4>0, Members
        <4>. QED
          BY <1>1, <2>1, <4>1, Members
      <3>. QED
        BY <3>1
    <2>. QED
      BY <2>2, <2>3, <2>4
  <1>4. ASSUME NEW j \in Thread PROVE ToSet(Append(line[h], j)) = ToSet(line[h]) \cup {j}
    <2>1. /\ Append(line[h], j) \in Seq(Thread)
          /\ Len(Append(line[h], j)) = Len(line[h]) + 1
          /\ \A i \in 1..Len(line[h]) : Append(line[h], j)[i] = line[h][i]
          /\ Append(line[h], j)[Len(line[h]) + 1] = j
      BY <1>1, AppendFacts
    <2>. QED
      BY <1>1, <2>1 DEF ToSet
  <1>. QED
    BY <1>1, <1>2, <1>3, <1>4

\* A host that listens accepts; a host that publishes goes on, or gives up and
\* drops its line; who stands in the line waits.
LEMMA HostAccepts ==
    ASSUME IInv, NEW h \in Thread, ThreadStep(h)
    PROVE  /\ step[h] = "listen" => Accept(h)
           /\ step[h] = "publish" => Publish(h) \/ Drops(h)
           /\ ~ InLine(h)
  <1>1. step[h] = "listen" => Accept(h)
    BY DEF ThreadStep, HostThread, JoinThread, Bind, BindFails, Publish, PublishFails,
       HostMeets, Dial, DialFails, JoinMeets, GreetFails, LineReset, Leave, ReceiveEnds,
       WriteFails, IInv, Net, Roles
  <1>2. step[h] = "publish" => Publish(h) \/ Drops(h)
    BY HostBegins DEF Bind, Fail, Drops
  <1>3. ~ InLine(h)
    <2>1. SUFFICES ASSUME InLine(h) PROVE FALSE
      OBVIOUS
    <2>2. step[h] = "greet" /\ invite[h] # Nobody /\ partner[h] = Nobody
      BY <2>1, InLineFacts DEF InLine
    <2>. QED
      BY <2>1, <2>2 DEF ThreadStep, HostThread, JoinThread, Bind, BindFails, Publish,
         PublishFails, Accept, HostMeets, Dial, DialFails, JoinMeets, GreetFails, LineReset,
         Leave, ReceiveEnds, WriteFails, IsHost, IInv, Net, Roles
  <1>. QED
    BY <1>1, <1>2, <1>3

\* A joiner dials, then stands at one host until that accepts or drops him, or
\* behind its guest.
LEMMA DialSteps ==
    ASSUME IInv, Met, [Next]_vars, NEW j \in Thread, Dialing(j)
    PROVE  \/ Dialing(j)' \/ Done(j)' \/ Behind(j)'
           \/ \E h \in Thread : AtHost(j, h, "publish")' \/ AtHost(j, h, "listen")'
  <1>0. TypeOK /\ Roles
    BY DEF IInv, Net
  <1>1. CASE \A t \in Thread : ~ ThreadStep(t)
    BY <1>1, UiKeepsSockets DEF Dialing
  <1>2. ASSUME NEW t \in Thread, ThreadStep(t), t # j PROVE Dialing(j)'
    BY <1>0, <1>2, LineSteps DEF Accept, Dial, Drops, Keeps, Dialing, TypeOK
  <1>3. CASE ThreadStep(j) /\ Dial(j)
    <2>1. PICK h \in Thread : Bound(h) /\ line' = [line EXCEPT ![h] = Append(@, j)]
      BY <1>3 DEF Dial
    <2>2. h # j /\ step'[h] = step[h] /\ partner' = partner
      BY <1>0, <1>3, <2>1 DEF Dial, Bound, HostSteps, Dialing, TypeOK
    <2>3. j \in ToSet(line'[h])
      BY <1>0, <2>1, InLineFacts DEF TypeOK
    <2>4. step[h] \in {"publish", "listen"} \/ partner[h] # Nobody
      BY <1>0, <2>1 DEF Bound, HostSteps, IsHost, Roles, Met
    <2>. QED
      BY <2>2, <2>3, <2>4 DEF AtHost, Behind
  <1>4. CASE ThreadStep(j) /\ ~ Dial(j)
    BY <1>0, <1>4, LineSteps DEF Accept, Drops, Keeps, Dialing, Done, Roles, TypeOK
  <1>. QED
    BY <1>1, <1>2, <1>3, <1>4

LEMMA HostKeepsLine ==
    ASSUME IInv, [Next]_vars, NEW j \in Thread, NEW h \in Thread,
           NEW where \in {"publish", "listen"}, AtHost(j, h, where)
    PROVE  \/ AtHost(j, h, where)' \/ Adrift(j)' \/ Greeting(j)' \/ Behind(j)'
           \/ where = "publish" /\ AtHost(j, h, "listen")'
  <1>0. TypeOK /\ Roles
    BY DEF IInv, Net
  <1>1. /\ step[j] = "greet" /\ invite[j] # Nobody /\ partner[j] = Nobody
        /\ step[h] = where /\ j \in ToSet(line[h]) /\ j # h
        /\ \A g \in Thread : j \in ToSet(line[g]) => g = h
    BY InLineFacts DEF AtHost
  <1>2. CASE \A t \in Thread : ~ ThreadStep(t)
    BY <1>1, <1>2, UiKeepsSockets DEF AtHost
  <1>3. ASSUME NEW t \in Thread, ThreadStep(t), t # h PROVE AtHost(j, h, where)'
    <2>1. step'[h] = step[h]
      BY <1>0, <1>3, LineSteps DEF Accept, Dial, Drops, Keeps, TypeOK
    <2>2. ToSet(line[h]) \subseteq ToSet(line'[h])
      <3>1. CASE Dial(t)
        <4>1. PICK g \in Thread : line' = [line EXCEPT ![g] = Append(@, t)]
          BY <3>1 DEF Dial
        <4>. QED
          BY <1>0, <4>1, InLineFacts DEF TypeOK
      <3>2. CASE ~ Dial(t)
        <4>1. line'[h] = line[h]
          BY <1>0, <1>3, <3>2, LineSteps DEF Accept, Drops, Keeps, TypeOK
        <4>. QED
          BY <4>1
      <3>. QED
        BY <3>1, <3>2
    <2>. QED
      BY <1>1, <2>1, <2>2 DEF AtHost
  <1>4. CASE where = "publish" /\ ThreadStep(h)
    <2>1. CASE Publish(h)
      BY <1>0, <1>1, <1>4, <2>1 DEF Publish, net, AtHost, TypeOK
    <2>2. CASE Drops(h)
      <3>1. step'[j] = "greet" /\ partner'[j] = Nobody
        BY <1>0, <1>1, <2>2 DEF Drops, TypeOK
      <3>2. line'[h] = <<>> /\ \A g \in Thread : g # h => line'[g] = line[g]
        BY <1>0, <2>2 DEF Drops, TypeOK
      <3>3. ~ InLine(j)'
        BY <1>1, <3>2 DEF InLine, ToSet
      <3>. QED
        BY <3>1, <3>3 DEF Adrift
    <2>. QED
      BY <1>1, <1>4, <2>1, <2>2, HostAccepts
  <1>5. CASE where = "listen" /\ ThreadStep(h)
    <2>1. Accept(h)
      BY <1>1, <1>5, HostAccepts
    <2>2. /\ line[h] # <<>>
          /\ partner' = [partner EXCEPT ![h] = Head(line[h]), ![Head(line[h])] = h]
          /\ line' = [line EXCEPT ![h] = Tail(@)]
          /\ step' = [step EXCEPT ![h] = "greet"]
          /\ invite' = invite
      BY <2>1 DEF Accept
    <2>3. Head(line[h]) \in Thread /\ Head(line[h]) # h
      BY <1>1, <1>5, <2>2, InLineFacts
    <2>4. CASE j = Head(line[h])
      BY <1>0, <1>1, <2>2, <2>4, Threads DEF Greeting, TypeOK
    <2>5. CASE j # Head(line[h])
      <3>1. j \in ToSet(line'[h])
        BY <1>0, <1>1, <2>2, <2>5, InLineFacts DEF TypeOK
      <3>2. partner'[h] # Nobody
        BY <1>0, <2>2, <2>3, Threads DEF TypeOK
      <3>. QED
        BY <3>1, <3>2 DEF Behind
    <2>. QED
      BY <2>4, <2>5
  <1>. QED
    BY <1>2, <1>3, <1>4, <1>5

\* Nobody takes up a joiner who is in no line, and nobody hangs up on one who
\* has been accepted.
LEMMA SocketSteps ==
    ASSUME IInv, [Next]_vars, NEW j \in Thread
    PROVE  /\ Adrift(j) => Adrift(j)' \/ Done(j)'
           /\ Greeting(j) => Greeting(j)' \/ Done(j)'
  <1>0. TypeOK /\ Roles
    BY DEF IInv, Net
  <1>1. CASE \A t \in Thread : ~ ThreadStep(t)
    BY <1>1, UiKeepsSockets DEF Adrift, Greeting, InLine
  <1>2. ASSUME NEW t \in Thread, ThreadStep(t), t # j, Adrift(j) PROVE Adrift(j)'
    <2>1. step'[j] = step[j]
      BY <1>0, <1>2, LineSteps DEF Accept, Dial, Drops, Keeps, TypeOK
    <2>2. partner'[j] = partner[j]
      <3>1. CASE Accept(t)
        <4>1. Head(line[t]) # j
          BY <1>2, <3>1, InLineFacts DEF Accept, Adrift, InLine
        <4>. QED
          BY <1>0, <1>2, <3>1, <4>1 DEF Accept, TypeOK
      <3>. QED
        BY <1>0, <1>2, <3>1, LineSteps DEF Dial, Drops, Keeps, TypeOK
    <2>3. ASSUME NEW h \in Thread PROVE j \notin ToSet(line'[h])
      <3>1. j \notin ToSet(line[h])
        BY <1>2 DEF Adrift, InLine
      <3>2. CASE Accept(t)
        <4>1. line'[h] = IF h = t THEN Tail(line[h]) ELSE line[h]
          BY <1>0, <3>2 DEF Accept, TypeOK
        <4>2. h = t => line[h] # <<>>
          BY <3>2 DEF Accept
        <4>. QED
          BY <3>1, <4>1, <4>2, InLineFacts
      <3>3. CASE Dial(t)
        <4>1. PICK g \in Thread : line' = [line EXCEPT ![g] = Append(@, t)]
          BY <3>3 DEF Dial
        <4>2. line'[h] = IF h = g THEN Append(line[h], t) ELSE line[h]
          BY <1>0, <4>1 DEF TypeOK
        <4>3. ToSet(Append(line[h], t)) = ToSet(line[h]) \cup {t}
          BY InLineFacts
        <4>. QED
          BY <1>2, <3>1, <4>2, <4>3
      <3>4. CASE line'[h] = line[h] \/ line'[h] = <<>>
        BY <3>1, <3>4 DEF ToSet
      <3>. QED
        BY <1>0, <1>2, <3>2, <3>3, <3>4, LineSteps DEF Drops, Keeps, TypeOK
    <2>. QED
      BY <1>2, <2>1, <2>2, <2>3 DEF Adrift, InLine
  <1>3. ASSUME NEW t \in Thread, ThreadStep(t), t # j, Greeting(j) PROVE Greeting(j)'
    BY ZenonT(40), <1>0, <1>3, LineSteps, Threads DEF Accept, Dial, Drops, Keeps, Greeting, TypeOK
  <1>4. ASSUME ThreadStep(j), Adrift(j) \/ Greeting(j) PROVE Done(j)'
    BY <1>0, <1>4 DEF ThreadStep, HostThread, JoinThread, Bind, BindFails, Publish,
       PublishFails, Accept, HostMeets, Dial, DialFails, JoinMeets, GreetFails, LineReset,
       Leave, ReceiveEnds, WriteFails, Fail, Established, IsHost, Roles, Adrift, Greeting,
       Done, TypeOK
  <1>. QED
    BY <1>1, <1>2, <1>3, <1>4

\* Who stands behind a guest stands there until the host ends.
LEMMA BehindSteps ==
    ASSUME IInv, [Next]_vars, NEW j \in Thread, Behind(j)
    PROVE  Behind(j)' \/ Adrift(j)'
  <1>0. TypeOK /\ Roles
    BY DEF IInv, Net
  <1>1. PICK h \in Thread : j \in ToSet(line[h]) /\ partner[h] # Nobody
    BY DEF Behind
  <1>2. /\ step[j] = "greet" /\ partner[j] = Nobody /\ h # j
        /\ step[h] \notin {"unborn", "bind", "publish", "listen", "dial"}
        /\ \A g \in Thread : j \in ToSet(line[g]) => g = h
    BY <1>0, <1>1, InLineFacts DEF Roles
  <1>3. CASE \A t \in Thread : ~ ThreadStep(t)
    BY <1>1, <1>3, UiKeepsSockets DEF Behind
  <1>4. ASSUME NEW t \in Thread, ThreadStep(t), t # h PROVE Behind(j)'
    <2>1. partner'[h] # Nobody
      <3>1. CASE Accept(t)
        <4>1. Head(line[t]) # h
          BY <1>1, <3>1, InLineFacts DEF Accept
        <4>. QED
          BY <1>0, <1>1, <1>4, <3>1, <4>1 DEF Accept, TypeOK
      <3>. QED
        BY <1>1, <1>4, <3>1, LineSteps DEF Dial, Drops, Keeps
    <2>2. ToSet(line[h]) \subseteq ToSet(line'[h])
      <3>1. CASE Dial(t)
        <4>1. PICK g \in Thread : line' = [line EXCEPT ![g] = Append(@, t)]
          BY <3>1 DEF Dial
        <4>. QED
          BY <1>0, <4>1, InLineFacts DEF TypeOK
      <3>2. CASE ~ Dial(t)
        <4>1. line'[h] = line[h]
          BY <1>0, <1>4, <3>2, LineSteps DEF Accept, Drops, Keeps, TypeOK
        <4>. QED
          BY <4>1
      <3>. QED
        BY <3>1, <3>2
    <2>. QED
      BY <1>1, <2>1, <2>2 DEF Behind
  <1>5. CASE ThreadStep(h)
    <2>1. ~ Accept(h) /\ ~ Dial(h)
      BY <1>2 DEF Accept, Dial
    <2>2. CASE Drops(h)
      <3>1. step'[j] = "greet" /\ partner'[j] = Nobody
        BY <1>0, <1>2, <2>2 DEF Drops, TypeOK
      <3>2. line'[h] = <<>> /\ \A g \in Thread : g # h => line'[g] = line[g]
        BY <1>0, <2>2 DEF Drops, TypeOK
      <3>3. ~ InLine(j)'
        BY <1>2, <3>2 DEF InLine, ToSet
      <3>. QED
        BY <3>1, <3>3 DEF Adrift
    <2>3. CASE ~ Drops(h)
      <3>1. line' = line /\ partner' = partner
        BY <1>5, <2>1, <2>3, LineSteps DEF Keeps
      <3>. QED
        BY <1>1, <3>1 DEF Behind
    <2>. QED
      BY <2>2, <2>3
  <1>. QED
    BY <1>3, <1>4, <1>5

LEMMA JoinGoesOn ==
    ASSUME IInv, Met, NEW j \in Thread, NEW h \in Thread
    PROVE  /\ JoinThread(j) /\ Dialing(j) => ~ Dialing(j)'
           /\ JoinThread(j) /\ (Adrift(j) \/ Greeting(j)) => ~ Adrift(j)' /\ ~ Greeting(j)'
           /\ HostThread(h) /\ AtHost(j, h, "publish") => ~ AtHost(j, h, "publish")'
           /\ HostThread(h) /\ AtHost(j, h, "listen") => ~ AtHost(j, h, "listen")'
  <1>0. TypeOK
    BY DEF IInv
  <1>1. JoinThread(j) /\ step[j] \in {"dial", "greet"} => step'[j] # step[j]
    BY <1>0 DEF JoinThread, Dial, DialFails, JoinMeets, GreetFails, LineReset, Fail,
       Established, TypeOK
  <1>2. HostThread(h) /\ step[h] \in {"publish", "listen"} => step'[h] # step[h]
    BY <1>0 DEF HostThread, Bind, BindFails, Publish, PublishFails, Accept, HostMeets,
       GreetFails, Fail, Established, TypeOK
  <1>. QED
    BY <1>1, <1>2 DEF Dialing, Adrift, Greeting, AtHost

Standing(j) == \E h \in Thread : AtHost(j, h, "publish") \/ AtHost(j, h, "listen")

\* What is fair may be taken, but for the answers of Tor.
LEMMA JoinMayStep ==
    ASSUME NEW j \in Thread, NEW h \in Thread
    PROVE  IInv /\ Public /\ GuardsEnable =>
           /\ (Dialing(j) /\ ~ AwaitsProxy(j)) \/ Adrift(j) \/ Greeting(j)
                 => ENABLED <<JoinRuns(j)>>_vars
           /\ AtHost(j, h, "publish") \/ AtHost(j, h, "listen") => ENABLED <<HostRuns(h)>>_vars
  <1>1. IInv /\ ((Dialing(j) /\ ~ AwaitsProxy(j)) \/ Adrift(j) \/ Greeting(j)) => JoinCanStep(j)
    BY DEF Dialing, Adrift, Greeting, JoinCanStep, IsJoin, IInv, Net, Roles
  <1>2. Public /\ (AtHost(j, h, "publish") \/ AtHost(j, h, "listen")) => HostCanStep(h)
    BY DEF AtHost, HostCanStep, ToSet, Public, Reached
  <1>3. GuardsEnable => ThreadGuardsEnable(j) /\ ThreadGuardsEnable(h)
    BY DEF GuardsEnable
  <1>4. ThreadGuardsEnable(j) /\ JoinCanStep(j) => ENABLED <<JoinRuns(j)>>_vars
    BY DEF ThreadGuardsEnable
  <1>5. ThreadGuardsEnable(h) /\ HostCanStep(h) => ENABLED <<HostRuns(h)>>_vars
    BY DEF ThreadGuardsEnable
  <1>. QED
    BY <1>1, <1>2, <1>3, <1>4, <1>5

\* The joiner's own thread: it dials, unless the proxy is silent, and it ends
\* what has been accepted or dropped.
LEMMA JoinerGoesOn ==
    ASSUME NEW j \in Thread
    PROVE  /\ []IInv /\ []Met /\ []Public /\ [][Next]_vars /\ ThreadFairness(j) /\ []GuardsEnable
           => /\ Dialing(j) ~> Done(j) \/ Behind(j) \/ Standing(j) \/ []AwaitsProxy(j)
              /\ Adrift(j) \/ Greeting(j) ~> Done(j)
  <1>1. IInv /\ Met /\ [Next]_vars =>
           /\ Dialing(j) => Dialing(j)' \/ Done(j)' \/ Behind(j)' \/ Standing(j)'
           /\ Adrift(j) => Adrift(j)' \/ Done(j)'
           /\ Greeting(j) => Greeting(j)' \/ Done(j)'
    BY DialSteps, SocketSteps DEF Standing
  <1>2. IInv /\ Met /\ <<JoinRuns(j)>>_vars =>
           /\ Dialing(j) => ~ Dialing(j)'
           /\ Adrift(j) \/ Greeting(j) => ~ Adrift(j)' /\ ~ Greeting(j)'
    BY JoinGoesOn DEF JoinRuns
  <1>3. IInv /\ Public /\ GuardsEnable
           /\ ((Dialing(j) /\ ~ AwaitsProxy(j)) \/ Adrift(j) \/ Greeting(j))
           => ENABLED <<JoinRuns(j)>>_vars
    BY JoinMayStep
  <1>4. IInv /\ Public /\ [Next]_vars /\ Dialing(j) /\ Dialing(j)'
           => (AwaitsProxy(j)' <=> AwaitsProxy(j))
    BY TorStays
  <1>. QED
    BY <1>1, <1>2, <1>3, <1>4, PTL DEF ThreadFairness

\* The host that he has reached.
LEMMA HostGoesOn ==
    ASSUME NEW j \in Thread, NEW h \in Thread
    PROVE  /\ []IInv /\ []Met /\ []Public /\ [][Next]_vars /\ ThreadFairness(h) /\ []GuardsEnable
           => (AtHost(j, h, "publish") \/ AtHost(j, h, "listen")
                  ~> Adrift(j) \/ Greeting(j) \/ Behind(j))
  <1>1. IInv /\ [Next]_vars =>
           /\ AtHost(j, h, "publish") =>
                 \/ AtHost(j, h, "publish")' \/ AtHost(j, h, "listen")'
                 \/ Adrift(j)' \/ Greeting(j)' \/ Behind(j)'
           /\ AtHost(j, h, "listen") =>
                 AtHost(j, h, "listen")' \/ Adrift(j)' \/ Greeting(j)' \/ Behind(j)'
    BY HostKeepsLine
  <1>2. IInv /\ Met /\ <<HostRuns(h)>>_vars =>
           /\ AtHost(j, h, "publish") => ~ AtHost(j, h, "publish")'
           /\ AtHost(j, h, "listen") => ~ AtHost(j, h, "listen")'
    BY JoinGoesOn DEF HostRuns
  <1>3. IInv /\ Public /\ GuardsEnable /\ (AtHost(j, h, "publish") \/ AtHost(j, h, "listen"))
           => ENABLED <<HostRuns(h)>>_vars
    BY JoinMayStep
  <1>. QED
    BY <1>1, <1>2, <1>3, PTL DEF ThreadFairness

LEMMA OneJoinSettles ==
    ASSUME NEW j \in Thread
    PROVE  Spec /\ []Fairness /\ []GuardsEnable
           => (Dialing(j) ~> Done(j) \/ []Behind(j) \/ []AwaitsProxy(j))
  <1>. DEFINE Env == []IInv /\ []Met /\ []Public /\ [][Next]_vars /\ []Fairness /\ []GuardsEnable
  <1>1. ASSUME NEW t \in Thread PROVE []Fairness => ThreadFairness(t)
    <2>1. Fairness => ThreadFairness(t)
      BY DEF Fairness
    <2>. QED
      BY <2>1, PTL
  <1>2. Env => /\ Dialing(j) ~> Done(j) \/ Behind(j) \/ Standing(j) \/ []AwaitsProxy(j)
               /\ Adrift(j) \/ Greeting(j) ~> Done(j)
    BY <1>1, JoinerGoesOn
  <1>3. ASSUME NEW h \in Thread
        PROVE  Env => (AtHost(j, h, "publish") \/ AtHost(j, h, "listen")
                           => <>(Adrift(j) \/ Greeting(j) \/ Behind(j)))
    <2>1. []Fairness => ThreadFairness(h)
      BY <1>1
    <2>. QED
      BY <2>1, HostGoesOn, PTL
  <1>4. Env => (Standing(j) => <>(Adrift(j) \/ Greeting(j) \/ Behind(j)))
    BY <1>3 DEF Standing
  <1>5. IInv /\ [Next]_vars => (Behind(j) => Behind(j)' \/ Adrift(j)')
    BY BehindSteps
  <1>. QED
    BY <1>2, <1>4, <1>5, Invariance, MetAlways, PublicAlways, PTL DEF Spec

\* Whoever joins gets a chat or an error, or waits for ever behind another
\* guest or for his own Tor's proxy: for any number of hosts, guests and
\* clicks, with old invites, reused addresses, hosts that give up and lines
\* that are dropped.
THEOREM JoinersAreAnswered == Spec /\ []Fairness /\ []GuardsEnable => JoinSettles
  <1>. SUFFICES ASSUME NEW j \in Thread
                PROVE  Spec /\ []Fairness /\ []GuardsEnable
                       => (Dialing(j) ~> Done(j) \/ []Behind(j) \/ []AwaitsProxy(j))
    BY DEF JoinSettles, Dialing, Done
  <1>. QED
    BY OneJoinSettles
=============================================================================
