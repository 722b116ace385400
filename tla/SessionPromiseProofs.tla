------------------------ MODULE SessionPromiseProofs ------------------------
(***************************************************************************)
(* Proofs about Session: what a user sees took a handshake of both ends,   *)
(* the session keeps the promise of Relay, a chat in which nobody can go   *)
(* on owes its users nothing, and every step brings it nearer to that.     *)
(***************************************************************************)
EXTENDS SessionDeliveryProofs

----------------------------------------------------------------------------
(* What either user sees took a handshake of both ends.                    *)

\* Every element of q is one of p.
From(q, p) == \A i \in DOMAIN q : \E j \in DOMAIN p : q[i] = p[j]

LEMMA FromParts == \A S : \A q \in Seq(S) :
    /\ From(q, q) /\ From(<<>>, q)
    /\ q # <<>> => From(Tail(q), q)
    /\ From(SubSeq(q, 2, Len(q)), q)
    /\ \A n \in 0..Len(q) : From(SubSeq(q, 1, n), q)
  <1>. SUFFICES ASSUME NEW S, NEW q \in Seq(S)
                PROVE  /\ From(q, q) /\ From(<<>>, q)
                       /\ q # <<>> => From(Tail(q), q)
                       /\ From(SubSeq(q, 2, Len(q)), q)
                       /\ \A n \in 0..Len(q) : From(SubSeq(q, 1, n), q)
    OBVIOUS
  <1>1. From(q, q) /\ From(<<>>, q)
    BY DEF From
  <1>2. ASSUME q # <<>> PROVE From(Tail(q), q)
    BY <1>2, TailSeq DEF From
  <1>3. From(SubSeq(q, 2, Len(q)), q)
    <2>1. CASE q = <<>>
      BY <2>1 DEF From
    <2>2. CASE q # <<>>
      BY <2>2, RestSeq DEF From
    <2>. QED
      BY <2>1, <2>2
  <1>4. ASSUME NEW n \in 0..Len(q) PROVE From(SubSeq(q, 1, n), q)
    BY PrefixSeq DEF From
  <1>. QED
    BY <1>1, <1>2, <1>3, <1>4

LEMMA FromAppend == \A S : \A q \in Seq(S) : \A x \in S :
    \A i \in DOMAIN Append(q, x) :
       Append(q, x)[i] = x \/ \E j \in DOMAIN q : Append(q, x)[i] = q[j]
  BY AppendSeq

\* A key is never lost again.
KeysStay == \A f \in Ends : key[f] # {} => key'[f] # {}

\* What f sees, and what it has written, is old or took the handshake.
LEMMA VisibleKept ==
    ASSUME NEW f \in Ends, Visible(f), KeysStay,
           named'[f] => named[f] \/ key'[f] # {},
           \A i \in DOMAIN events'[f] :
              \/ \E j \in DOMAIN events[f] : events'[f][i] = events[f][j]
              \/ /\ events'[f][i].kind = "Connected" => key'[f] # {}
                 /\ events'[f][i].kind = "Incoming" => key'["joiner"] # {},
           shown'[f] = shown[f] \/ key'["joiner"] # {},
           \A i \in DOMAIN wire'[f] :
              \/ \E j \in DOMAIN wire[f] : wire'[f][i] = wire[f][j]
              \/ wire'[f][i].kind = "chat" => key'[f] # {}
    PROVE  Visible(f)'
  <1>. "joiner" \in Ends
    BY DEF Ends
  <1>1. named'[f] => key'[f] # {}
    BY DEF Visible, KeysStay
  <1>2. \A i \in DOMAIN events'[f] :
          /\ events'[f][i].kind = "Connected" => key'[f] # {}
          /\ events'[f][i].kind = "Incoming" => key'["joiner"] # {}
    BY DEF Visible, KeysStay
  <1>3. shown'[f] # <<>> => key'["joiner"] # {}
    BY DEF Visible, KeysStay
  <1>4. \A i \in DOMAIN wire'[f] : wire'[f][i].kind = "chat" => key'[f] # {}
    BY DEF Visible, KeysStay
  <1>. QED
    BY <1>1, <1>2, <1>3, <1>4 DEF Visible

\* The same where nothing is new.
LEMMA VisibleLess ==
    ASSUME NEW f \in Ends, Visible(f), key' = key,
           named'[f] => named[f], shown'[f] = shown[f],
           From(events'[f], events[f]), From(wire'[f], wire[f])
    PROVE  Visible(f)'
  BY VisibleKept DEF KeysStay, From

LEMMA DropFrom ==
    ASSUME TypeOK, NEW e \in Ends, NEW hs, NEW unread,
           From(unread, wire[Other(e)]), DropWith(e, hs, unread)
    PROVE  \A f \in Ends : From(wire'[f], wire[f])
  <1>1. /\ Other(e) \in Ends /\ Other(e) # e /\ \A f \in Ends : f = e \/ f = Other(e)
        /\ wire[e] \in Seq(Frame) /\ wire[Other(e)] \in Seq(Frame)
    BY TwoEnds DEF TypeOK
  <1>2. /\ wire'[e] = wire[e]
        /\ wire'[Other(e)] = unread \/ wire'[Other(e)] = <<>>
    BY <1>1 DEF DropWith, TypeOK
  <1>. QED
    BY <1>1, <1>2, FromParts

LEMMA ConsumeFrom ==
    ASSUME TypeOK, NEW e \in Ends, Consume(e)
    PROVE  \A f \in Ends : From(wire'[f], wire[f])
  <1>1. /\ Other(e) \in Ends /\ Other(e) # e /\ \A f \in Ends : f = e \/ f = Other(e)
        /\ wire[e] \in Seq(Frame) /\ wire[Other(e)] \in Seq(Frame)
    BY TwoEnds DEF TypeOK
  <1>2. /\ wire'[e] = wire[e]
        /\ wire'[Other(e)] = Unread(e)
    BY <1>1 DEF Consume, TypeOK
  <1>3. From(Unread(e), wire[Other(e)])
    BY <1>1, FromParts DEF Unread
  <1>. QED
    BY <1>1, <1>2, <1>3, FromParts

\* A write puts one frame behind the others, or none.
LEMMA WriteNews ==
    ASSUME TypeOK, NEW e \in Ends, NEW frame \in Frame, Write(e, frame)
    PROVE  \A f \in Ends : \A i \in DOMAIN wire'[f] :
              \/ \E j \in DOMAIN wire[f] : wire'[f][i] = wire[f][j]
              \/ f = e /\ wire'[f][i] = frame
  <1>. SUFFICES ASSUME NEW f \in Ends, NEW i \in DOMAIN wire'[f]
                PROVE  \/ \E j \in DOMAIN wire[f] : wire'[f][i] = wire[f][j]
                       \/ f = e /\ wire'[f][i] = frame
    OBVIOUS
  <1>1. wire[e] \in Seq(Frame)
    BY DEF TypeOK
  <1>2. \/ wire' = wire
        \/ wire' = [wire EXCEPT ![e] = Append(@, frame)]
    BY DEF Write
  <1>3. \/ wire'[f] = wire[f]
        \/ f = e /\ wire'[e] = Append(wire[e], frame)
    BY <1>2 DEF TypeOK
  <1>. QED
    BY SMTT(30), <1>1, <1>3, FromAppend

LEMMA EmitNews ==
    ASSUME TypeOK, NEW e \in Ends, NEW v \in EventType, Emit(e, v)
    PROVE  \A f \in Ends : \A i \in DOMAIN events'[f] :
              \/ \E j \in DOMAIN events[f] : events'[f][i] = events[f][j]
              \/ f = e /\ events'[f][i] = v
  <1>. SUFFICES ASSUME NEW f \in Ends, NEW i \in DOMAIN events'[f]
                PROVE  \/ \E j \in DOMAIN events[f] : events'[f][i] = events[f][j]
                       \/ f = e /\ events'[f][i] = v
    OBVIOUS
  <1>1. events[e] \in Seq(EventType)
    BY DEF TypeOK
  <1>2. \/ events'[f] = events[f]
        \/ f = e /\ events'[e] = Append(events[e], v)
    BY DEF Emit, TypeOK
  <1>. QED
    BY SMTT(30), <1>1, <1>2, FromAppend

\* An error or an end of stream is reported, and handles are dropped.
LEMMA VisibleReport ==
    ASSUME TypeOK, \A f \in Ends : Visible(f), NEW e \in Ends,
           NEW k \in {"Disconnected", "Error"}, Emit(e, Event(k, 0)),
           NEW hs, NEW unread, From(unread, wire[Other(e)]), DropWith(e, hs, unread),
           UNCHANGED <<key, named, shown>>
    PROVE  \A f \in Ends : Visible(f)'
  <1>1. Event(k, 0) \in EventType /\ Event(k, 0).kind = k
    BY EventTypes DEF Event
  <1>. SUFFICES ASSUME NEW f \in Ends
                PROVE  Visible(f)'
    OBVIOUS
  <1>2. \A i \in DOMAIN events'[f] :
          \/ \E j \in DOMAIN events[f] : events'[f][i] = events[f][j]
          \/ events'[f][i].kind = k
    BY <1>1, EmitNews
  <1>3. From(wire'[f], wire[f])
    BY DropFrom
  <1>. QED
    BY <1>2, <1>3, VisibleKept DEF KeysStay, From

\* Handles are dropped, and at most events.
LEMMA VisibleDrop ==
    ASSUME TypeOK, \A f \in Ends : Visible(f), NEW e \in Ends,
           NEW hs, DropWith(e, hs, wire[Other(e)]), UNCHANGED <<key, named, shown>>,
           events' = events \/ events' = [events EXCEPT ![e] = <<>>]
    PROVE  \A f \in Ends : Visible(f)'
  <1>. SUFFICES ASSUME NEW f \in Ends
                PROVE  Visible(f)'
    OBVIOUS
  <1>1. wire[Other(e)] \in Seq(Frame) /\ events[f] \in Seq(EventType)
    BY TwoEnds DEF TypeOK
  <1>2. From(wire'[f], wire[f])
    BY <1>1, DropFrom, FromParts
  <1>3. events'[f] = events[f] \/ events'[f] = <<>>
    BY DEF TypeOK
  <1>4. From(events'[f], events[f])
    BY <1>1, <1>3, FromParts
  <1>. QED
    BY <1>2, <1>4, VisibleLess

LEMMA VisibleStep ==
    ASSUME Handshake, \A f \in Ends : Visible(f), [Next]_vars
    PROVE  \A f \in Ends : Visible(f)'
  <1>. DEFINE Goal == \A f \in Ends : Visible(f)'
  <1>. TypeOK /\ \A e \in Ends : Owns(e) /\ SharedKey(e) /\ WireFrames(e)
    BY DEF Handshake, Ownership
  <1>. /\ \A f \in Ends : wire[f] \in Seq(Frame)
       /\ \A f \in Ends : events[f] \in Seq(EventType)
    BY DEF TypeOK
  <1>. "joiner" \in Ends /\ Ends # {}
    BY DEF Ends
  <1>0. \A f \in Ends : From(wire[f], wire[f]) /\ From(events[f], events[f])
    BY FromParts
  <1>1. CASE UNCHANGED vars
    BY <1>0, <1>1, VisibleLess DEF vars, tcp, work, ui
  <1>2. ASSUME NEW e \in Ends, SendHello(e)
        PROVE  Goal
    <2>. SUFFICES ASSUME NEW f \in Ends
                  PROVE  Visible(f)'
      OBVIOUS
    <2>1. CreateHello(identity[e], e).kind = "hello" /\ CreateHello(identity[e], e) \in Frame
      BY FrameTypes DEF CreateHello, TypeOK
    <2>3. \A i \in DOMAIN wire'[f] :
            \/ \E j \in DOMAIN wire[f] : wire'[f][i] = wire[f][j]
            \/ wire'[f][i].kind = "chat" => key'[f] # {}
      <3>1. \A i \in DOMAIN wire'[f] :
              \/ \E j \in DOMAIN wire[f] : wire'[f][i] = wire[f][j]
              \/ wire'[f][i] = CreateHello(identity[e], e)
        BY <1>2, <2>1, WriteNews DEF SendHello
      <3>. QED
        BY <2>1, <3>1
    <2>4. UNCHANGED <<key, named, shown, events>>
      BY <1>2 DEF SendHello, ui
    <2>. QED
      BY <2>3, <2>4, VisibleKept DEF KeysStay
  <1>3. ASSUME NEW e \in Ends, RecvHello(e)
        PROVE  Goal
    <2>. SUFFICES ASSUME NEW f \in Ends
                  PROVE  Visible(f)'
      OBVIOUS
    <2>1. key'[e] # {} /\ KeysStay
      BY <1>3 DEF RecvHello, DeriveSessionKey, TypeOK, KeysStay
    <2>2. Event("Connected", 0) \in EventType /\ Event("Connected", 0).kind = "Connected"
      BY EventTypes DEF Event
    <2>3. \A i \in DOMAIN events'[f] :
            \/ \E j \in DOMAIN events[f] : events'[f][i] = events[f][j]
            \/ /\ events'[f][i].kind = "Connected" => key'[f] # {}
               /\ events'[f][i].kind = "Incoming" => key'["joiner"] # {}
      BY <1>3, <2>1, <2>2, EmitNews DEF RecvHello
    <2>5. From(wire'[f], wire[f])
      BY <1>3, ConsumeFrom DEF RecvHello
    <2>6. UNCHANGED <<named, shown>>
      BY <1>3 DEF RecvHello, ui
    <2>. QED
      BY <2>1, <2>3, <2>5, <2>6, VisibleKept DEF From
  <1>4. ASSUME NEW e \in Ends, RejectHello(e) \/ HelloNeverCame(e) \/ SendChatFails(e)
        PROVE  Goal
    <2>1. From(Unread(e), wire[Other(e)])
      BY TwoEnds, FromParts DEF Unread
    <2>2. PICK hs, unread : Fail(e, hs, unread) /\ From(unread, wire[Other(e)])
      BY <1>0, <1>4, <2>1, TwoEnds DEF RejectHello, HelloNeverCame, SendChatFails
    <2>. QED
      BY <2>2, VisibleReport DEF Fail, ui
  <1>5. ASSUME NEW e \in Ends, SendChat(e)
        PROVE  Goal
    <2>. SUFFICES ASSUME NEW f \in Ends
                  PROVE  Visible(f)'
      OBVIOUS
    <2>1. key[e] # {}
      BY <1>5 DEF SendChat, SharedKey
    <2>2. UNCHANGED <<key, named, shown, events>>
      BY <1>5 DEF SendChat, work, ui
    <2>3. \A i \in DOMAIN wire'[f] :
            \/ \E j \in DOMAIN wire[f] : wire'[f][i] = wire[f][j]
            \/ f = e
      BY <1>5 DEF SendChat, Write, TypeOK
    <2>. QED
      BY <2>1, <2>2, <2>3, VisibleKept DEF KeysStay
  <1>6. ASSUME NEW e \in Ends, SendLoopEnds(e) \/ Exit(e)
        PROVE  Goal
    BY <1>6, VisibleDrop DEF SendLoopEnds, Exit, Drop, ui
  <1>7. ASSUME NEW e \in Ends, Receive(e)
        PROVE  Goal
    <2>. SUFFICES ASSUME NEW f \in Ends
                  PROVE  Visible(f)'
      OBVIOUS
    <2>1. key["joiner"] # {}
      <3>1. key[e] # {}
        BY <1>7 DEF Receive, SharedKey
      <3>2. key[Other(e)] # {}
        <4>1. Other(e) \in Ends /\ 1 \in DOMAIN wire[Other(e)]
          BY <1>7, TwoEnds DEF Receive, HasFrame
        <4>2. wire[Other(e)][1].kind = "chat"
          BY <1>7, <4>1 DEF Receive, Decrypts, NextFrame
        <4>. QED
          BY <4>1, <4>2 DEF Visible
      <3>. QED
        BY <3>1, <3>2, TwoEnds
    <2>2. UNCHANGED <<key, named, shown>>
      BY <1>7 DEF Receive, work, ui
    <2>4. From(wire'[f], wire[f])
      BY <1>7, ConsumeFrom DEF Receive
    <2>5. NextFrame(e) \in Frame /\ NextFrame(e).kind = "chat"
      BY <1>7, TwoEnds DEF Receive, HasFrame, NextFrame, Decrypts
    <2>6. /\ Event("Incoming", NextFrame(e).body) \in EventType
          /\ Event("Incoming", NextFrame(e).body).kind = "Incoming"
      BY <2>5, FrameTypes, EventTypes DEF Event
    <2>7. \A i \in DOMAIN events'[f] :
            \/ \E j \in DOMAIN events[f] : events'[f][i] = events[f][j]
            \/ events'[f][i].kind = "Incoming"
      BY <1>7, <2>6, EmitNews DEF Receive
    <2>. QED
      BY <2>1, <2>2, <2>4, <2>7, VisibleKept DEF KeysStay, From
  <1>8. ASSUME NEW e \in Ends, ReceiveEnds(e)
        PROVE  Goal
    <2>1. From(Unread(e), wire[Other(e)])
      BY TwoEnds, FromParts DEF Unread
    <2>. QED
      BY <1>8, <2>1, VisibleReport DEF ReceiveEnds, ui
  <1>9. ASSUME NEW e \in Ends, SendMessage(e) \/ ReplaceChat(e)
        PROVE  Goal
    <2>1. UNCHANGED <<key, named, shown, wire>>
      BY <1>9 DEF SendMessage, ReplaceChat, work, tcp
    <2>2. \A f \in Ends : events'[f] = events[f] \/ events'[f] = <<>>
      BY SMTT(30), <1>9 DEF SendMessage, ReplaceChat, TypeOK
    <2>3. \A f \in Ends : From(events'[f], events[f])
      BY <2>2, FromParts
    <2>. QED
      BY <1>0, <2>1, <2>3, VisibleLess
  <1>10. ASSUME NEW e \in Ends, Drain(e)
         PROVE  Goal
    <2>. SUFFICES ASSUME NEW f \in Ends
                  PROVE  Visible(f)'
      OBVIOUS
    <2>1. UNCHANGED <<key, wire>>
      BY <1>10 DEF Drain, work, tcp
    <2>2. /\ events[e] # <<>>
          /\ events'[f] = events[f] \/ (f = e /\ events'[f] = Tail(events[f]))
      BY <1>10 DEF Drain, TypeOK
    <2>3. From(events'[f], events[f])
      BY <2>2, FromParts
    <2>4. 1 \in DOMAIN events[e] /\ Head(events[e]) = events[e][1]
      BY <2>2
    <2>5. named'[f] => named[f] \/ key[f] # {}
      <3>1. CASE events[e][1].kind = "Connected"
        <4>1. key[e] # {}
          BY <2>4, <3>1 DEF Visible
        <4>2. named' = [named EXCEPT ![e] = TRUE]
          BY <1>10, <2>4, <3>1 DEF Drain
        <4>3. f # e => named'[f] = named[f]
          BY <4>2 DEF TypeOK
        <4>. QED
          BY <4>1, <4>3
      <3>2. CASE events[e][1].kind # "Connected"
        <4>1. named' = named \/ named' = [named EXCEPT ![e] = FALSE]
          BY <1>10, <2>4, <3>2 DEF Drain
        <4>. QED
          BY <4>1 DEF TypeOK
      <3>. QED
        BY <3>1, <3>2
    <2>6. shown'[f] = shown[f] \/ key["joiner"] # {}
      <3>1. CASE events[e][1].kind = "Incoming"
        BY <2>4, <3>1 DEF Visible
      <3>2. CASE events[e][1].kind # "Incoming"
        BY <1>10, <2>4, <3>2 DEF Drain
      <3>. QED
        BY <3>1, <3>2
    <2>. QED
      BY <1>0, <2>1, <2>3, <2>5, <2>6, VisibleKept DEF KeysStay, From
  <1>11. ASSUME NEW e \in Ends, Kernel(e)
         PROVE  Goal
    <2>. SUFFICES ASSUME NEW f \in Ends
                  PROVE  Visible(f)'
      OBVIOUS
    <2>1. UNCHANGED <<key, named, shown, events>>
      BY <1>11 DEF Kernel, work, ui
    <2>2. \/ wire'[f] = wire[f]
          \/ \E n \in 0..Len(wire[f]) : wire'[f] = SubSeq(wire[f], 1, n)
      BY <1>11, TwoEnds DEF Kernel, RstArrives, TypeOK
    <2>3. From(wire'[f], wire[f])
      BY <2>2, FromParts
    <2>. QED
      BY <1>0, <2>1, <2>3, VisibleLess
  <1>. QED
    BY <1>1, <1>2, <1>3, <1>4, <1>5, <1>6, <1>7, <1>8, <1>9, <1>10, <1>11
    DEF Next, SessionThread, ReceiveThread, User

VisibleInv == Handshake /\ \A e \in Ends : Visible(e)

LEMMA VisibleInit == Init => VisibleInv
  BY HandshakeInit DEF VisibleInv, Init, TcpInit, Visible

\* A joiner that is connected to anybody but the host whose invite it pasted
\* is never named a peer and shown nothing, and nothing it types is shown.
THEOREM TalksToInviterAlways == Spec => []TalksToInviter
  <1>1. VisibleInv /\ [Next]_vars => VisibleInv'
    BY HandshakeStep, VisibleStep DEF VisibleInv
  <1>2. VisibleInv => TalksToInviter
    BY DEF VisibleInv, Visible, Handshake, Invited, TalksToInviter, Ends
  <1>. QED
    BY <1>1, <1>2, VisibleInit, PTL DEF Spec

----------------------------------------------------------------------------
(* The order of events.                                                    *)

LEMMA OrderedThread ==
    ASSUME NEW recv, NEW th, NEW st, NEW nm, NEW q, NEW next,
           th # "failed", Ordered(recv, th, st, nm, q)
    PROVE  Ordered(recv, next, st, nm, q)
  BY DEF Ordered

LEMMA AppendKinds ==
    ASSUME NEW q \in Seq(EventType), NEW v \in EventType
    PROVE  Kinds(Append(q, v)) = Kinds(q) \cup {v.kind}
  <1>. DEFINE p == Append(q, v)
  <1>1. /\ DOMAIN q = 1..Len(q) /\ DOMAIN p = 1..(Len(q) + 1) /\ Len(q) \in Nat
        /\ p[Len(q) + 1] = v /\ \A i \in 1..Len(q) : p[i] = q[i]
    BY AppendSeq
  <1>. HIDE DEF p
  <1>2. ASSUME NEW i \in DOMAIN p PROVE p[i].kind \in Kinds(q) \cup {v.kind}
    BY <1>1 DEF Kinds
  <1>3. ASSUME NEW k \in Kinds(q) \cup {v.kind} PROVE \E i \in DOMAIN p : k = p[i].kind
    <2>1. CASE k = v.kind
      BY <1>1, <2>1
    <2>2. CASE k \in Kinds(q)
      BY <1>1, <2>2 DEF Kinds
    <2>. QED
      BY <1>3, <2>1, <2>2
  <1>4. Kinds(p) = Kinds(q) \cup {v.kind}
    BY <1>2, <1>3 DEF Kinds
  <1>. QED
    BY <1>4 DEF p

\* An event put behind the others keeps them in order, if the thread that
\* reports it may do so.
LEMMA OrderedAppend ==
    ASSUME NEW recv, NEW th, NEW st, NEW nm, NEW q \in Seq(EventType),
           NEW v \in EventType, Ordered(recv, th, st, nm, q)
    PROVE  /\ v.kind = "Error" => Ordered(recv, "failed", st, nm, Append(q, v))
           /\ v.kind = "Connected" /\ recv = "none" /\ th # "failed"
                => Ordered("reading", "chat", st, nm, Append(q, v))
           /\ v.kind = "Incoming" /\ recv = "reading"
                => Ordered("reading", th, st, nm, Append(q, v))
           /\ v.kind = "Disconnected" /\ recv = "reading"
                => Ordered("ended", th, st, nm, Append(q, v))
  <1>. DEFINE p == Append(q, v)
  <1>1. /\ DOMAIN q = 1..Len(q) /\ DOMAIN p = 1..(Len(q) + 1) /\ Len(q) \in Nat
        /\ p[Len(q) + 1] = v /\ \A i \in 1..Len(q) : p[i] = q[i]
        /\ q # <<>> => 1 \in 1..Len(q)
        /\ q = <<>> => Len(q) = 0
        /\ p # <<>>
    BY AppendSeq
  <1>2. Kinds(p) = Kinds(q) \cup {v.kind}
    BY AppendKinds
  <1>. HIDE DEF p
  <1>3. \A i \in DOMAIN p :
          (i \in DOMAIN q /\ p[i] = q[i]) \/ (i = Len(q) + 1 /\ p[i] = v)
    BY <1>1
  <1>4. ASSUME v.kind = "Error" PROVE Ordered(recv, "failed", st, nm, p)
    BY <1>1, <1>2, <1>3, <1>4 DEF Ordered
  <1>5. ASSUME v.kind = "Connected", recv = "none", th # "failed"
        PROVE  Ordered("reading", "chat", st, nm, p)
    <2>1. q = <<>> /\ st = "connecting" /\ ~ nm /\ Kinds(q) = {}
      BY <1>5 DEF Ordered, Kinds
    <2>. QED
      BY <1>1, <1>2, <1>3, <1>5, <2>1 DEF Ordered
  <1>6. ASSUME v.kind = "Incoming", recv = "reading"
        PROVE  Ordered("reading", th, st, nm, p)
    <2>1. \A i \in DOMAIN p : p[i].kind # "Disconnected"
      BY <1>3, <1>6 DEF Ordered, Kinds
    <2>. QED
      BY <1>1, <1>2, <1>3, <1>6, <2>1 DEF Ordered
  <1>7. ASSUME v.kind = "Disconnected", recv = "reading"
        PROVE  Ordered("ended", th, st, nm, p)
    <2>1. \A i \in DOMAIN q : q[i].kind # "Disconnected"
      BY <1>7 DEF Ordered, Kinds
    <2>. QED
      BY <1>1, <1>2, <1>3, <1>7, <2>1 DEF Ordered
  <1>. QED
    BY <1>4, <1>5, <1>6, <1>7 DEF p

\* What Drain does with the first of the events, and what that tells.
LEMMA OrderedTail ==
    ASSUME NEW recv, NEW th, NEW st, NEW nm, NEW q \in Seq(EventType),
           q # <<>>, Ordered(recv, th, st, nm, q)
    PROVE  /\ Head(q).kind = "Connected" =>
                 st = "connecting" /\ ~ nm /\ Ordered(recv, th, "connected", TRUE, Tail(q))
           /\ Head(q).kind = "Incoming" => nm /\ Ordered(recv, th, st, nm, Tail(q))
           /\ Head(q).kind = "Disconnected" =>
                 /\ nm \/ st \in {"closed", "error"}
                 /\ Ordered(recv, th, "closed", FALSE, Tail(q))
           /\ Head(q).kind = "Error" => Ordered(recv, th, "error", nm, Tail(q))
  <1>. DEFINE p == Tail(q)
  <1>1. /\ DOMAIN q = 1..Len(q) /\ Len(q) \in Nat /\ Len(q) >= 1
        /\ DOMAIN p = 1..(Len(q) - 1)
        /\ Head(q) = q[1] /\ 1 \in DOMAIN q
        /\ \A i \in 1..(Len(q) - 1) : p[i] = q[i + 1]
    BY TailSeq
  <1>. HIDE DEF p
  <1>2. \A i \in DOMAIN p : i + 1 \in DOMAIN q /\ p[i] = q[i + 1] /\ i + 1 # 1 /\ i \in Nat
    BY <1>1
  <1>3. Kinds(p) \subseteq Kinds(q) /\ Head(q).kind \in Kinds(q)
    BY <1>1, <1>2 DEF Kinds
  <1>4. /\ \A i \in DOMAIN p : p[i].kind # "Connected"
        /\ \A i, j \in DOMAIN p :
              p[i].kind = "Disconnected" /\ p[j].kind = "Incoming" => j < i
        /\ "Disconnected" \in Kinds(p) => recv = "ended"
    BY <1>2, <1>3 DEF Ordered
  <1>5. ASSUME Head(q).kind = "Connected"
        PROVE  st = "connecting" /\ ~ nm /\ Ordered(recv, th, "connected", TRUE, p)
    BY <1>1, <1>3, <1>4, <1>5 DEF Ordered
  <1>6. ASSUME Head(q).kind = "Incoming"
        PROVE  nm /\ Ordered(recv, th, st, nm, p)
    BY <1>1, <1>3, <1>4, <1>6 DEF Ordered
  <1>7. ASSUME Head(q).kind = "Disconnected"
        PROVE  /\ nm \/ st \in {"closed", "error"}
               /\ Ordered(recv, th, "closed", FALSE, p)
    <2>1. recv = "ended"
      BY <1>3, <1>7 DEF Ordered
    <2>2. "Incoming" \notin Kinds(p)
      BY <1>1, <1>2, <1>7 DEF Ordered, Kinds
    <2>. QED
      BY <1>1, <1>4, <1>7, <2>1, <2>2 DEF Ordered
  <1>8. ASSUME Head(q).kind = "Error"
        PROVE  Ordered(recv, th, "error", nm, p)
    BY <1>1, <1>3, <1>4, <1>8 DEF Ordered
  <1>. QED
    BY <1>5, <1>6, <1>7, <1>8 DEF p

\* Nothing that EventOrder(f) speaks of changes, or f's UI has left.
Still(f) ==
    handle'[f] = "held" =>
       /\ handle[f] = "held" /\ events'[f] = events[f]
       /\ status'[f] = status[f] /\ named'[f] = named[f]
       /\ receiver'[f] = receiver[f]
       /\ thread'[f] = thread[f] \/ thread[f] # "failed"

LEMMA EventOrderStill ==
    ASSUME NEW f \in Ends, EventOrder(f), Still(f)
    PROVE  EventOrder(f)'
  <1>. SUFFICES ASSUME handle'[f] = "held"
                PROVE  Ordered(receiver'[f], thread'[f], status'[f], named'[f], events'[f])
    BY DEF EventOrder
  <1>1. Ordered(receiver[f], thread[f], status[f], named[f], events[f])
    BY DEF EventOrder, Still
  <1>2. CASE thread'[f] = thread[f]
    BY <1>1, <1>2 DEF Still
  <1>3. CASE thread'[f] # thread[f]
    <2>1. Ordered(receiver[f], thread'[f], status[f], named[f], events[f])
      BY <1>1, <1>3, OrderedThread DEF Still
    <2>. QED
      BY <2>1 DEF Still
  <1>. QED
    BY <1>2, <1>3

\* A thread of e reports an event.
LEMMA EventOrderEmit ==
    ASSUME TypeOK, \A f \in Ends : EventOrder(f), NEW e \in Ends,
           NEW v \in EventType, Emit(e, v), UNCHANGED <<handle, status, named>>,
           NEW th, NEW recv,
           thread' = [thread EXCEPT ![e] = th], receiver' = [receiver EXCEPT ![e] = recv],
           \/ v.kind = "Error" /\ th = "failed" /\ recv = receiver[e]
           \/ /\ v.kind = "Connected" /\ receiver[e] = "none" /\ thread[e] # "failed"
              /\ recv = "reading" /\ th = "chat"
           \/ v.kind = "Incoming" /\ receiver[e] = "reading" /\ th = thread[e]
                 /\ recv = "reading"
           \/ v.kind = "Disconnected" /\ receiver[e] = "reading" /\ th = thread[e]
                 /\ recv = "ended"
    PROVE  \A f \in Ends : EventOrder(f)'
  <1>1. events[e] \in Seq(EventType) /\ thread'[e] = th /\ receiver'[e] = recv
    BY DEF TypeOK
  <1>2. EventOrder(e)'
    <2>. SUFFICES ASSUME handle[e] = "held"
                  PROVE  Ordered(recv, th, status[e], named[e], events'[e])
      BY <1>1 DEF EventOrder
    <2>1. events'[e] = Append(events[e], v)
      BY DEF Emit, TypeOK
    <2>2. Ordered(receiver[e], thread[e], status[e], named[e], events[e])
      BY DEF EventOrder
    <2>. QED
      BY <1>1, <2>1, <2>2, OrderedAppend
  <1>3. ASSUME NEW f \in Ends, f # e
        PROVE  EventOrder(f)'
    <2>1. Still(f)
      BY <1>3 DEF Still, Emit, TypeOK
    <2>. QED
      BY <2>1, EventOrderStill
  <1>. QED
    BY <1>2, <1>3

LEMMA EventOrderStep ==
    ASSUME Handshake, \A f \in Ends : EventOrder(f), [Next]_vars
    PROVE  \A f \in Ends : EventOrder(f)'
  <1>. DEFINE Goal == \A f \in Ends : EventOrder(f)'
  <1>. TypeOK /\ \A e \in Ends : Owns(e)
    BY DEF Handshake, Ownership
  <1>1. CASE UNCHANGED vars
    BY <1>1, EventOrderStill DEF Still, vars, work, ui
  <1>2. ASSUME NEW e \in Ends, SendHello(e) \/ SendChat(e)
        PROVE  Goal
    <2>1. /\ UNCHANGED <<handle, events, status, named, receiver>>
          /\ \A f \in Ends : thread'[f] = thread[f] \/ thread[f] # "failed"
      BY <1>2 DEF SendHello, SendChat, work, ui, TypeOK
    <2>. QED
      BY <2>1, EventOrderStill DEF Still
  <1>3. ASSUME NEW e \in Ends, RecvHello(e)
        PROVE  Goal
    <2>1. Event("Connected", 0) \in EventType /\ Event("Connected", 0).kind = "Connected"
      BY EventTypes DEF Event
    <2>2. receiver[e] = "none"
      BY <1>3 DEF RecvHello, Owns, Waiting
    <2>. QED
      BY <1>3, <2>1, <2>2, EventOrderEmit DEF RecvHello, ui
  <1>4. ASSUME NEW e \in Ends, RejectHello(e) \/ HelloNeverCame(e) \/ SendChatFails(e)
        PROVE  Goal
    <2>1. PICK hs, unread : Fail(e, hs, unread)
      BY <1>4 DEF RejectHello, HelloNeverCame, SendChatFails
    <2>2. Event("Error", 0) \in EventType /\ Event("Error", 0).kind = "Error"
      BY EventTypes DEF Event
    <2>3. receiver' = [receiver EXCEPT ![e] = receiver[e]]
      BY <2>1 DEF Fail, TypeOK
    <2>. QED
      BY <2>1, <2>2, <2>3, EventOrderEmit DEF Fail, ui
  <1>5. ASSUME NEW e \in Ends, SendLoopEnds(e) \/ ReplaceChat(e) \/ Exit(e)
        PROVE  Goal
    <2>1. handle'[e] # "held"
      BY <1>5 DEF SendLoopEnds, ReplaceChat, Exit, ui, TypeOK
    <2>2. \A f \in Ends : Still(f)
      BY <1>5, <2>1 DEF SendLoopEnds, ReplaceChat, Exit, ui, work, TypeOK, Still
    <2>. QED
      BY <2>2, EventOrderStill
  <1>6. ASSUME NEW e \in Ends, Receive(e)
        PROVE  Goal
    <2>1. NextFrame(e) \in Frame /\ NextFrame(e).kind = "chat"
      BY <1>6, TwoEnds DEF Receive, HasFrame, NextFrame, Decrypts, TypeOK
    <2>2. /\ Event("Incoming", NextFrame(e).body) \in EventType
          /\ Event("Incoming", NextFrame(e).body).kind = "Incoming"
      BY <2>1, FrameTypes, EventTypes DEF Event
    <2>3. /\ thread' = [thread EXCEPT ![e] = thread[e]]
          /\ receiver' = [receiver EXCEPT ![e] = "reading"]
      BY <1>6 DEF Receive, work, TypeOK
    <2>. QED
      BY <1>6, <2>2, <2>3, EventOrderEmit DEF Receive, ui
  <1>7. ASSUME NEW e \in Ends, ReceiveEnds(e)
        PROVE  Goal
    <2>1. Event("Disconnected", 0) \in EventType
          /\ Event("Disconnected", 0).kind = "Disconnected"
      BY EventTypes DEF Event
    <2>2. thread' = [thread EXCEPT ![e] = thread[e]]
      BY <1>7 DEF ReceiveEnds, TypeOK
    <2>. QED
      BY <1>7, <2>1, <2>2, EventOrderEmit DEF ReceiveEnds, ui
  <1>8. ASSUME NEW e \in Ends, SendMessage(e)
        PROVE  Goal
    BY <1>8, EventOrderStill DEF SendMessage, work, Still
  <1>9. ASSUME NEW e \in Ends, Drain(e)
        PROVE  Goal
    <2>1. ASSUME NEW f \in Ends, f # e
          PROVE  EventOrder(f)'
      <3>1. Still(f)
        BY <1>9, <2>1 DEF Drain, Still, work, TypeOK
      <3>. QED
        BY <3>1, EventOrderStill
    <2>2. EventOrder(e)'
      <3>1. /\ events[e] \in Seq(EventType) /\ events[e] # <<>>
            /\ events'[e] = Tail(events[e])
            /\ UNCHANGED <<handle, receiver, thread>>
            /\ Ordered(receiver[e], thread[e], status[e], named[e], events[e])
        BY <1>9 DEF Drain, work, TypeOK, EventOrder
      <3>2. Ordered(receiver[e], thread[e], status'[e], named'[e], Tail(events[e]))
        <4>1. CASE Head(events[e]).kind = "Connected"
          <5>1. status'[e] = "connected" /\ named'[e] = TRUE
            BY <1>9, <4>1 DEF Drain, TypeOK
          <5>2. Ordered(receiver[e], thread[e], "connected", TRUE, Tail(events[e]))
            BY <3>1, <4>1, OrderedTail
          <5>. QED
            BY <5>1, <5>2, Zenon
        <4>2. CASE Head(events[e]).kind = "Incoming"
          <5>1. status'[e] = status[e] /\ named'[e] = named[e]
            BY <1>9, <4>2 DEF Drain, TypeOK
          <5>. QED
            BY <3>1, <4>2, <5>1, OrderedTail
        <4>3. CASE Head(events[e]).kind = "Disconnected"
          <5>1. status'[e] = "closed" /\ named'[e] = FALSE
            BY <1>9, <4>3 DEF Drain, TypeOK
          <5>2. Ordered(receiver[e], thread[e], "closed", FALSE, Tail(events[e]))
            BY <3>1, <4>3, OrderedTail
          <5>. QED
            BY <5>1, <5>2, Zenon
        <4>4. CASE Head(events[e]).kind = "Error"
          <5>1. status'[e] = "error" /\ named'[e] = named[e]
            BY <1>9, <4>4 DEF Drain, TypeOK
          <5>. QED
            BY ZenonT(40), <3>1, <4>4, <5>1, OrderedTail
        <4>. QED
          BY <1>9, <4>1, <4>2, <4>3, <4>4 DEF Drain
      <3>. QED
        BY <3>1, <3>2 DEF EventOrder
    <2>. QED
      BY <2>1, <2>2
  <1>10. ASSUME NEW e \in Ends, Kernel(e)
         PROVE  Goal
    BY <1>10, EventOrderStill DEF Kernel, work, ui, Still
  <1>. QED
    BY <1>1, <1>2, <1>3, <1>4, <1>5, <1>6, <1>7, <1>8, <1>9, <1>10
    DEF Next, SessionThread, ReceiveThread, User

LEMMA EventOrderInit == Init => \A f \in Ends : EventOrder(f)
  BY DEF Init, EventOrder, Ordered, Kinds

-----------------------------------------------------------------------------
(* The session keeps the promise of Relay.                                  *)

\* What the users may rely on: what is where, and in which order they see it.
PromiseInv == NumberedInv /\ \A e \in Ends : EventOrder(e)

LEMMA PromiseInvAlways == Spec => []PromiseInv
  <1>1. Init => PromiseInv
    BY HandshakeInit, NumberedInit, EventOrderInit DEF PromiseInv, NumberedInv
  <1>2. PromiseInv /\ [Next]_vars => PromiseInv'
    BY NumberedStep, HandshakeStep, EventOrderStep DEF PromiseInv, NumberedInv
  <1>. QED
    BY <1>1, <1>2, PTL DEF Spec

\* The phase at e by cases.
LEMMA PhaseIs ==
    ASSUME NEW e \in Ends
    PROVE  /\ handle[e] # "held" => phase[e] = "over"
           /\ handle[e] = "held" /\ named[e] => phase[e] = "open"
           /\ handle[e] = "held" /\ ~ named[e] /\ status[e] \in {"closed", "error"}
                 => phase[e] = "over"
           /\ handle[e] = "held" /\ ~ named[e] /\ status[e] \notin {"closed", "error"}
                 => phase[e] = "opening"
  BY DEF phase

LEMMA PhaseIsNext ==
    ASSUME NEW e \in Ends
    PROVE  /\ handle'[e] # "held" => phase'[e] = "over"
           /\ handle'[e] = "held" /\ named'[e] => phase'[e] = "open"
           /\ handle'[e] = "held" /\ ~ named'[e] /\ status'[e] \in {"closed", "error"}
                 => phase'[e] = "over"
           /\ handle'[e] = "held" /\ ~ named'[e] /\ status'[e] \notin {"closed", "error"}
                 => phase'[e] = "opening"
  BY DEF phase

LEMMA PhaseFunction ==
    /\ DOMAIN phase = Ends /\ phase = [f \in Ends |-> phase[f]]
    /\ DOMAIN phase' = Ends /\ phase' = [f \in Ends |-> phase'[f]]
  BY DEF phase

\* What leaves an end's handle, status line and header alone, leaves its phase.
LEMMA PhaseKept ==
    ASSUME NEW f \in Ends, handle'[f] = handle[f], status'[f] = status[f],
           named'[f] = named[f]
    PROVE  phase'[f] = phase[f]
  BY PhaseIs, PhaseIsNext

\* A step at e moves e's phase and no other.
LEMMA PhaseMoved ==
    ASSUME NEW e \in Ends, NEW p, phase'[e] = p,
           \A f \in Ends : f # e => phase'[f] = phase[f]
    PROVE  phase' = [phase EXCEPT ![e] = p]
  BY PhaseFunction

LEMMA PhaseStutters ==
    ASSUME \A f \in Ends : phase'[f] = phase[f]
    PROVE  phase' = phase
  BY PhaseFunction

\* Once it is over it is over: a finish or a stutter of Relay.
LEMMA PhaseFinishes ==
    ASSUME NEW e \in Ends, phase'[e] = "over",
           \A f \in Ends : f # e => phase'[f] = phase[f], UNCHANGED <<sent, shown>>
    PROVE  Promise!Finish(e) \/ UNCHANGED <<phase, sent, shown>>
  <1>1. CASE phase[e] = "over"
    BY <1>1, PhaseStutters
  <1>2. CASE phase[e] # "over"
    BY <1>2, PhaseMoved DEF Promise!Finish
  <1>. QED
    BY <1>1, <1>2

\* What the UI makes of the next event, at its end.
LEMMA PromiseDrain ==
    ASSUME PromiseInv, NEW e \in Ends, Drain(e)
    PROVE  \/ Promise!Open(e) \/ Promise!Finish(e) \/ Promise!Show(e)
           \/ UNCHANGED <<phase, sent, shown>>
  <1>. DEFINE q == events[e]
  <1>1. /\ TypeOK /\ q \in Seq(EventType) /\ q # <<>>
        /\ handle[e] = "held" /\ handle'[e] = "held" /\ UNCHANGED sent
        /\ Ordered(receiver[e], thread[e], status[e], named[e], q)
    BY DEF PromiseInv, NumberedInv, Handshake, Ownership, TypeOK, Drain, EventOrder
  <1>0. /\ 1 \in DOMAIN q /\ Head(q) = q[1] /\ Head(q).kind \in Kinds(q)
        /\ named[e] \in BOOLEAN
    BY <1>1, TailSeq DEF Kinds, TypeOK
  <1>2. \A f \in Ends : f # e => phase'[f] = phase[f]
    <2>. SUFFICES ASSUME NEW f \in Ends, f # e
                  PROVE  phase'[f] = phase[f]
      OBVIOUS
    <2>1. handle'[f] = handle[f] /\ status'[f] = status[f] /\ named'[f] = named[f]
      BY <1>1 DEF Drain, TypeOK
    <2>. QED
      BY <2>1, PhaseKept
  <1>3. CASE Head(q).kind = "Connected"
    <2>1. named'[e] /\ UNCHANGED shown
      BY <1>1, <1>3 DEF Drain, TypeOK
    <2>2. status[e] = "connecting" /\ ~ named[e]
      BY <1>0, <1>1, <1>3 DEF Ordered
    <2>3. phase[e] = "opening" /\ phase'[e] = "open"
      BY <1>1, <2>1, <2>2, PhaseIs, PhaseIsNext
    <2>. QED
      BY <1>1, <1>2, <2>1, <2>3, PhaseMoved DEF Promise!Open
  <1>4. CASE Head(q).kind = "Incoming"
    <2>1. PICK r, w \in 0..MaxSend : Pipeline(Other(e), e, r, w)
      BY TwoEnds DEF PromiseInv, NumberedInv, Numbered
    <2>2. Head(q).body = Len(shown[e]) + 1 /\ Len(shown[e]) + 1 <= r
      <3>1. Len(shown[e]) \in Nat /\ r \in Nat
        BY <1>1, <2>1, MaxSendAssumption DEF TypeOK
      <3>. QED
        BY <1>1, <1>4, <2>1, <3>1, QueuedTailNext DEF Pipeline
    <2>3. Len(shown[e]) < sent[Other(e)]
      <3>1. Len(shown[e]) \in Nat /\ r \in Nat /\ w \in Nat /\ sent[Other(e)] \in Nat
        BY <1>1, <2>1, TwoEnds, MaxSendAssumption DEF TypeOK
      <3>. QED
        BY <2>1, <2>2, <3>1 DEF Pipeline
    <2>4. named[e]
      BY <1>0, <1>1, <1>4 DEF Ordered
    <2>5. /\ UNCHANGED <<status, named>>
          /\ shown' = [shown EXCEPT ![e] = Append(@, Len(@) + 1)]
      BY <1>1, <1>4, <2>2 DEF Drain
    <2>6. phase[e] = "open" /\ phase'[e] = "open"
      BY <1>1, <2>4, <2>5, PhaseIs, PhaseIsNext
    <2>. QED
      BY <1>1, <1>2, <2>3, <2>5, <2>6, PhaseStutters DEF Promise!Show
  <1>5. CASE Head(q).kind = "Disconnected"
    <2>1. status'[e] = "closed" /\ ~ named'[e] /\ UNCHANGED shown
      BY <1>1, <1>5 DEF Drain, TypeOK
    <2>2. phase'[e] = "over"
      BY <1>1, <2>1, PhaseIsNext
    <2>. QED
      BY <1>1, <1>2, <2>1, <2>2, PhaseFinishes
  <1>6. CASE Head(q).kind = "Error"
    <2>1. status'[e] = "error" /\ UNCHANGED named /\ UNCHANGED shown
      BY <1>1, <1>6 DEF Drain, TypeOK
    <2>2. CASE named[e]
      <3>1. phase[e] = "open" /\ phase'[e] = "open"
        BY <1>1, <2>1, <2>2, PhaseIs, PhaseIsNext
      <3>. QED
        BY <1>1, <1>2, <2>1, <3>1, PhaseStutters
    <2>3. CASE ~ named[e]
      <3>1. phase'[e] = "over"
        BY <1>1, <2>1, <2>3, PhaseIsNext
      <3>. QED
        BY <1>1, <1>2, <2>1, <3>1, PhaseFinishes
    <2>. QED
      BY <2>2, <2>3
  <1>. QED
    BY <1>3, <1>4, <1>5, <1>6 DEF Drain

\* Every other step that a user may notice, and every one that none does.
LEMMA PromiseStep ==
    ASSUME PromiseInv, [Next]_vars
    PROVE  [Promise!Next]_<<phase, sent, shown>>
  <1>. DEFINE Stutter == UNCHANGED <<phase, sent, shown>>
  <1>. TypeOK
    BY DEF PromiseInv, NumberedInv, Handshake, Ownership
  <1>1. ASSUME UNCHANGED <<handle, status, named>>
        PROVE  phase' = phase
    BY <1>1, PhaseKept, PhaseStutters
  <1>2. CASE UNCHANGED vars
    BY <1>1, <1>2 DEF vars, ui
  <1>3. ASSUME NEW e \in Ends, SessionThread(e) \/ ReceiveThread(e) \/ Kernel(e)
        PROVE  Stutter
    <2>1. UNCHANGED ui
      BY <1>3 DEF SessionThread, ReceiveThread, Kernel, SendHello, RecvHello,
                  RejectHello, HelloNeverCame, SendChat, SendChatFails, SendLoopEnds,
                  Receive, ReceiveEnds, Fail
    <2>. QED
      BY <1>1, <2>1 DEF ui
  <1>4. ASSUME NEW e \in Ends, SendMessage(e)
        PROVE  Promise!Send(e)
    <2>1. UNCHANGED <<handle, status, named, shown>>
      BY <1>4 DEF SendMessage
    <2>. QED
      BY <1>1, <1>4, <2>1 DEF SendMessage, Promise!Send
  <1>5. ASSUME NEW e \in Ends, ReplaceChat(e) \/ Exit(e)
        PROVE  Promise!Finish(e) \/ Stutter
    <2>1. UNCHANGED <<status, named, sent, shown>> /\ handle'[e] # "held"
      BY <1>5 DEF ReplaceChat, Exit, TypeOK
    <2>2. \A f \in Ends : f # e => handle'[f] = handle[f]
      BY <1>5 DEF ReplaceChat, Exit, TypeOK
    <2>3. phase'[e] = "over" /\ \A f \in Ends : f # e => phase'[f] = phase[f]
      BY <2>1, <2>2, PhaseIsNext, PhaseKept
    <2>. QED
      BY <2>1, <2>3, PhaseFinishes
  <1>. QED
    BY <1>2, <1>3, <1>4, <1>5, PromiseDrain DEF Next, User, Promise!Next

LEMMA PromiseInit == Init => Promise!Init
  <1>. SUFFICES ASSUME Init
                PROVE  phase = [e \in Ends |-> "opening"]
    BY DEF Init, Promise!Init
  <1>1. \A e \in Ends : phase[e] = "opening"
    BY PhaseIs DEF Init
  <1>. QED
    BY <1>1, PhaseFunction

\* The session implements Relay: whatever the threads, the channels and the
\* socket do, the users see a chat open at most once, messages come in one at
\* a time in the order they were sent, only while it is open, and none after.
THEOREM KeepsPromiseAlways == Spec => KeepsPromise
  <1>1. PromiseInv /\ [Next]_vars => [Promise!Next]_<<phase, sent, shown>>
    BY PromiseStep
  <1>. QED
    BY <1>1, PromiseInit, PromiseInvAlways, PTL DEF Spec, KeepsPromise, Promise!Spec

----------------------------------------------------------------------------
(* How the threads of a chat come to an end.                               *)

\* A drop at e leaves the other end's part of Stops alone.
LEMMA StopsAfterDrop ==
    ASSUME Handshake, NEW e \in Ends, NEW o \in Ends, o = Other(e), Stops(o),
           NEW hs, NEW unread, DropWith(e, hs, unread),
           wire[o] = <<>> => unread = <<>>,
           thread'[e] \notin Waiting, thread'[o] = thread[o],
           receiver'[o] = receiver[o], handle'[o] = handle[o],
           outbound'[o] = outbound[o]
    PROVE  Stops(o)'
  <1>. TypeOK /\ WireFrames(o)
    BY DEF Handshake, Ownership
  <1>1. thread[o] = "hello" => rst'[o] = rst[o]
    <2>1. thread[o] = "hello" => unread = <<>>
      BY DEF WireFrames
    <2>. QED
      BY <2>1 DEF DropWith
  <1>2. Closed(e) => Closed(e)'
    BY DEF DropWith, Closed, TypeOK
  <1>. QED
    BY <1>1, <1>2, TwoEnds DEF Stops

\* Nothing that Stops(f) speaks of changes.
LEMMA StopsSame ==
    ASSUME NEW f \in Ends, Stops(f), thread'[f] = thread[f], rst'[f] = rst[f],
           \/ handle'[f] = handle[f]
           \/ handle'[f] = "dropped" /\ handle[f] = "held",
           receiver'[f] = receiver[f], open'[Other(f)] = open[Other(f)], wire'[f] = wire[f],
           thread'[Other(f)] \in Waiting => thread[Other(f)] \in Waiting,
           thread[f] = "ended" => outbound'[f] = outbound[f]
    PROVE  Stops(f)'
  BY DEF Stops, Intact, Closed

LEMMA StopsStep ==
    ASSUME Handshake, \A f \in Ends : Stops(f), [Next]_vars
    PROVE  \A f \in Ends : Stops(f)'
  <1>. DEFINE Goal == \A f \in Ends : Stops(f)'
  <1>. TypeOK /\ \A e \in Ends : Owns(e) /\ ResetAfterClose(e) /\ SharedKey(e) /\ WireFrames(e)
    BY DEF Handshake, Ownership
  <1>1. CASE UNCHANGED vars
    BY <1>1, StopsSame DEF vars, tcp, work, ui
  <1>2. ASSUME NEW e \in Ends, SendHello(e)
        PROVE  Goal
    <2>1. /\ UNCHANGED <<open, receiver, handle, outbound>> /\ thread'[e] = "await"
          /\ thread[e] = "hello" /\ thread'[Other(e)] = thread[Other(e)]
          /\ wire'[Other(e)] = wire[Other(e)] /\ rst'[Other(e)] = rst[Other(e)]
      BY <1>2, TwoEnds DEF SendHello, Write, ui, TypeOK
    <2>2. Stops(Other(e))'
      BY <2>1, TwoEnds, StopsSame DEF Waiting
    <2>3. Stops(e)'
      <3>1. receiver[e] = "none"
        BY <2>1 DEF Owns, Waiting
      <3>2. thread[Other(e)] \in Waiting => wire'[e] # <<>>
        <4>1. thread[Other(e)] \in Waiting => ~ Closed(Other(e))
          BY TwoEnds DEF Owns, Closed
        <4>2. ~ Closed(Other(e)) =>
                 wire'[e] = Append(wire[e], CreateHello(identity[e], e))
          BY <1>2 DEF SendHello, Write, TypeOK
        <4>3. Append(wire[e], CreateHello(identity[e], e)) # <<>>
          <5>1. /\ wire[e] \in Seq(Frame) /\ identity[e] \in Identity
                /\ CreateHello(identity[e], e) \in Frame
            BY FrameTypes DEF TypeOK
          <5>. QED
            BY <5>1
        <4>. QED
          BY <4>1, <4>2, <4>3
      <3>. QED
        BY <2>1, <3>1, <3>2 DEF Stops
    <2>. QED
      BY <2>2, <2>3, TwoEnds
  <1>3. ASSUME NEW e \in Ends, RecvHello(e)
        PROVE  Goal
    <2>1. /\ UNCHANGED <<open, rst, handle, outbound>> /\ thread[e] = "await"
          /\ thread'[e] = "chat" /\ thread'[Other(e)] = thread[Other(e)]
          /\ receiver'[e] = "reading" /\ receiver'[Other(e)] = receiver[Other(e)]
          /\ wire'[e] = wire[e]
      BY <1>3, TwoEnds DEF RecvHello, Consume, ui, TypeOK
    <2>2. Stops(e)'
      BY <2>1, TwoEnds DEF Stops, Intact, Running, Waiting
    <2>3. Stops(Other(e))'
      BY <2>1, TwoEnds DEF Stops, Closed, Waiting
    <2>. QED
      BY <2>2, <2>3, TwoEnds
  <1>4. ASSUME NEW e \in Ends, RejectHello(e) \/ HelloNeverCame(e) \/ SendChatFails(e)
        PROVE  Goal
    <2>1. PICK hs, unread : /\ Fail(e, hs, unread)
                            /\ wire[Other(e)] = <<>> => unread = <<>>
      <3>1. wire[Other(e)] = <<>> => Unread(e) = <<>>
        BY DEF Unread
      <3>. QED
        BY <1>4, <3>1 DEF RejectHello, HelloNeverCame, SendChatFails
    <2>2. /\ UNCHANGED <<receiver, handle>> /\ thread'[e] = "failed"
          /\ thread'[Other(e)] = thread[Other(e)]
          /\ open'[Other(e)] = open[Other(e)]
          /\ outbound'[Other(e)] = outbound[Other(e)]
      BY <2>1, TwoEnds DEF Fail, DropWith, ui, TypeOK
    <2>3. Stops(Other(e))'
      BY <2>1, <2>2, TwoEnds, StopsAfterDrop DEF Fail, Waiting
    <2>4. Stops(e)'
      BY <2>2 DEF Stops, Intact, Closed, Running, Waiting
    <2>. QED
      BY <2>3, <2>4, TwoEnds
  <1>5. ASSUME NEW e \in Ends, SendChat(e)
        PROVE  Goal
    <2>1. /\ UNCHANGED <<open, receiver, thread, handle>> /\ thread[e] = "chat"
          /\ wire'[Other(e)] = wire[Other(e)] /\ rst'[Other(e)] = rst[Other(e)]
          /\ outbound'[Other(e)] = outbound[Other(e)]
      BY <1>5, TwoEnds DEF SendChat, Write, work, ui, TypeOK
    <2>2. Stops(Other(e))'
      BY <2>1, TwoEnds, StopsSame
    <2>3. wire[e] # <<>> => wire'[e] # <<>>
      <3>1. \/ wire'[e] = wire[e]
            \/ wire'[e] = Append(wire[e], Encrypt(key[e], Head(outbound[e])))
        BY <1>5 DEF SendChat, Write, TypeOK
      <3>2. /\ key[e] \in SUBSET Ends /\ wire[e] \in Seq(Frame)
            /\ outbound[e] \in Seq(1..MaxSend) /\ outbound[e] # <<>>
        BY <1>5 DEF SendChat, TypeOK
      <3>3. Append(wire[e], Encrypt(key[e], Head(outbound[e]))) # <<>>
        <4>1. Head(outbound[e]) \in 1..MaxSend
          BY <3>2, TailSeq
        <4>2. Encrypt(key[e], Head(outbound[e])) \in Frame
          BY <3>2, <4>1, FrameTypes
        <4>. QED
          BY <3>2, <4>2
      <3>. QED
        BY <3>1, <3>3
    <2>4. Stops(e)'
      BY <2>1, <2>3 DEF Stops, Intact, Closed
    <2>. QED
      BY <2>2, <2>4, TwoEnds
  <1>6. ASSUME NEW e \in Ends, SendLoopEnds(e)
        PROVE  Goal
    <2>1. /\ UNCHANGED <<receiver, handle, outbound>> /\ outbound[e] = <<>>
          /\ thread[e] = "chat" /\ thread'[e] = "ended"
          /\ thread'[Other(e)] = thread[Other(e)] /\ handle[e] # "held"
          /\ open'[Other(e)] = open[Other(e)] /\ wire'[e] = wire[e]
      BY <1>6, TwoEnds DEF SendLoopEnds, Drop, DropWith, ui, TypeOK
    <2>2. Stops(Other(e))'
      BY <1>6, <2>1, TwoEnds, StopsAfterDrop DEF SendLoopEnds, Drop, Waiting
    <2>3. Stops(e)'
      BY <2>1 DEF Stops, Intact, Closed, Owns, Running
    <2>. QED
      BY <2>2, <2>3, TwoEnds
  <1>7. ASSUME NEW e \in Ends, Receive(e)
        PROVE  Goal
    <2>1. /\ UNCHANGED <<open, rst, thread, receiver, handle, outbound>>
          /\ wire'[e] = wire[e]
          /\ thread[e] \notin Waiting
      BY <1>7, TwoEnds DEF Receive, Consume, work, ui, TypeOK, Owns
    <2>2. Stops(Other(e))'
      BY <2>1, TwoEnds DEF Stops, Closed
    <2>. QED
      BY <2>1, <2>2, TwoEnds, StopsSame
  <1>8. ASSUME NEW e \in Ends, ReceiveEnds(e)
        PROVE  Goal
    <2>1. /\ UNCHANGED <<thread, handle, outbound>> /\ receiver[e] = "reading"
          /\ receiver'[e] = "ended" /\ receiver'[Other(e)] = receiver[Other(e)]
          /\ open'[Other(e)] = open[Other(e)] /\ wire'[e] = wire[e]
          /\ thread[e] \notin Waiting
      BY <1>8, TwoEnds DEF ReceiveEnds, DropWith, ui, TypeOK, Owns
    <2>2. Stops(Other(e))'
      <3>1. wire[Other(e)] = <<>> => Unread(e) = <<>>
        BY DEF Unread
      <3>. QED
        BY <1>8, <2>1, <3>1, TwoEnds, StopsAfterDrop DEF ReceiveEnds
    <2>3. Closed(Other(e))
      <3>1. HasFrame(e) => Decrypts(key[e], NextFrame(e))
        BY <2>1, ReadsEveryFrameNow DEF Handshake
      <3>. QED
        BY <1>8, <3>1 DEF ReceiveEnds, ReadFails, StreamOver, ResetAfterClose
    <2>4. Intact(e)' => Intact(e)
      BY <2>1 DEF Intact
    <2>5. Closed(Other(e))'
      BY <2>1, <2>3 DEF Closed
    <2>6. Stops(e)'
      BY <2>1, <2>4, <2>5 DEF Stops, Waiting
    <2>. QED
      BY <2>2, <2>6, TwoEnds
  <1>9. ASSUME NEW e \in Ends, SendMessage(e) \/ Drain(e) \/ ReplaceChat(e)
        PROVE  Goal
    <2>1. /\ UNCHANGED <<wire, open, rst, thread, receiver>>
          /\ \A f \in Ends : \/ handle'[f] = handle[f]
                             \/ handle'[f] = "dropped" /\ handle[f] = "held"
          /\ \A f \in Ends : thread[f] = "ended" => outbound'[f] = outbound[f]
      BY <1>9 DEF SendMessage, Drain, ReplaceChat, tcp, work, TypeOK, Running, Waiting
    <2>. QED
      BY <2>1, StopsSame
  <1>10. ASSUME NEW e \in Ends, Exit(e)
         PROVE  Goal
    <2>1. /\ handle'[e] = "exited" /\ handle'[Other(e)] = handle[Other(e)]
          /\ thread'[e] = "ended" /\ thread'[Other(e)] = thread[Other(e)]
          /\ receiver'[e] = "ended" /\ receiver'[Other(e)] = receiver[Other(e)]
          /\ outbound'[e] = <<>> /\ outbound'[Other(e)] = outbound[Other(e)]
      BY <1>10, TwoEnds DEF Exit, TypeOK
    <2>2. Stops(Other(e))'
      BY <1>10, <2>1, TwoEnds, StopsAfterDrop DEF Exit, Drop, Waiting
    <2>3. Stops(e)'
      BY <2>1 DEF Stops, Intact, Running, Waiting
    <2>. QED
      BY <2>2, <2>3, TwoEnds
  <1>11. ASSUME NEW e \in Ends, Kernel(e)
         PROVE  Goal
    <2>1. /\ UNCHANGED <<open, thread, receiver, handle, outbound>> /\ rst[e] = "inflight"
          /\ wire'[e] = wire[e] /\ rst'[Other(e)] = rst[Other(e)]
      BY <1>11, TwoEnds DEF Kernel, RstArrives, work, ui, TypeOK
    <2>2. Stops(e)'
      BY <2>1 DEF Stops, Intact, Closed
    <2>3. ~ Intact(Other(e))
      BY <2>1, TwoEnds DEF ResetAfterClose, Closed, Owns, Intact
    <2>4. Stops(Other(e))'
      BY <2>1, <2>3, TwoEnds DEF Stops, Intact, Closed
    <2>. QED
      BY <2>2, <2>4, TwoEnds
  <1>. QED
    BY <1>1, <1>2, <1>3, <1>4, <1>5, <1>6, <1>7, <1>8, <1>9, <1>10, <1>11
    DEF Next, SessionThread, ReceiveThread, User

LEMMA StopsInit == Init => \A f \in Ends : Stops(f)
  BY DEF Init, TcpInit, Stops, Intact

\* What Drain leaves of the kinds in the queue.
LEMMA TailKinds ==
    ASSUME NEW q \in Seq(EventType), q # <<>>
    PROVE  Kinds(q) \subseteq Kinds(Tail(q)) \cup {Head(q).kind}
  <1>. SUFFICES ASSUME NEW i \in DOMAIN q, i # 1
                PROVE  \E j \in DOMAIN Tail(q) : q[i].kind = Tail(q)[j].kind
    BY TailSeq DEF Kinds
  <1>1. i - 1 \in DOMAIN Tail(q) /\ Tail(q)[i - 1] = q[i]
    BY TailSeq
  <1>. QED
    BY <1>1

\* Nothing that Told(f) speaks of changes, or the queue only grows.
LEMMA ToldKept ==
    ASSUME NEW f \in Ends, Told(f),
           handle'[f] = "held" =>
              /\ handle[f] = "held" /\ Kinds(events[f]) \subseteq Kinds(events'[f])
              /\ status'[f] = status[f] /\ named'[f] = named[f],
           receiver'[f] = "ended" =>
              receiver[f] = "ended" \/ handle'[f] # "held" \/ "Disconnected" \in Kinds(events'[f]),
           thread'[f] = "failed" =>
              thread[f] = "failed" \/ handle'[f] # "held" \/ "Error" \in Kinds(events'[f])
    PROVE  Told(f)'
  BY DEF Told, Kinds

\* What Emit does to the queue of a UI that still holds it.
LEMMA EmitKinds ==
    ASSUME TypeOK, NEW e \in Ends, NEW v \in EventType, Emit(e, v)
    PROVE  /\ events'[Other(e)] = events[Other(e)]
           /\ handle[e] = "held" => /\ Kinds(events[e]) \subseteq Kinds(events'[e])
                                    /\ v.kind \in Kinds(events'[e])
  <1>1. events[e] \in Seq(EventType)
    BY DEF TypeOK
  <1>2. events'[Other(e)] = events[Other(e)]
    BY EmitOwns DEF TypeOK
  <1>3. handle[e] = "held" => events'[e] = Append(events[e], v)
    BY EmitOwns DEF TypeOK
  <1>. QED
    BY <1>1, <1>2, <1>3, AppendKinds

LEMMA ToldStep ==
    ASSUME Handshake, \A f \in Ends : EventOrder(f) /\ Told(f), [Next]_vars
    PROVE  \A f \in Ends : Told(f)'
  <1>. DEFINE Goal == \A f \in Ends : Told(f)'
  <1>. TypeOK /\ \A e \in Ends : Owns(e)
    BY DEF Handshake, Ownership
  <1>1. CASE UNCHANGED vars
    BY <1>1, ToldKept DEF vars, work, ui
  <1>2. ASSUME NEW e \in Ends, SendHello(e) \/ SendChat(e) \/ SendMessage(e) \/ Kernel(e)
        PROVE  Goal
    <2>1. /\ UNCHANGED <<handle, events, status, named, receiver>>
          /\ \A f \in Ends : thread'[f] = "failed" => thread[f] = "failed"
      BY <1>2 DEF SendHello, SendChat, SendMessage, Kernel, work, ui, TypeOK
    <2>. QED
      BY <2>1, ToldKept
  <1>3. ASSUME NEW e \in Ends, RecvHello(e)
        PROVE  Goal
    <2>1. Event("Connected", 0) \in EventType
      BY EventTypes
    <2>2. /\ events'[Other(e)] = events[Other(e)]
          /\ handle[e] = "held" => Kinds(events[e]) \subseteq Kinds(events'[e])
      BY <1>3, <2>1, EmitKinds DEF RecvHello
    <2>3. /\ UNCHANGED <<handle, status, named>>
          /\ receiver'[e] = "reading" /\ receiver'[Other(e)] = receiver[Other(e)]
          /\ thread'[e] = "chat" /\ thread'[Other(e)] = thread[Other(e)]
      BY <1>3, TwoEnds DEF RecvHello, ui, TypeOK
    <2>. QED
      BY <2>2, <2>3, ToldKept, TwoEnds
  <1>4. ASSUME NEW e \in Ends, RejectHello(e) \/ HelloNeverCame(e) \/ SendChatFails(e)
        PROVE  Goal
    <2>1. PICK hs, unread : Fail(e, hs, unread)
      BY <1>4 DEF RejectHello, HelloNeverCame, SendChatFails
    <2>2. Event("Error", 0) \in EventType /\ Event("Error", 0).kind = "Error"
      BY EventTypes DEF Event
    <2>3. /\ events'[Other(e)] = events[Other(e)]
          /\ handle[e] = "held" => /\ Kinds(events[e]) \subseteq Kinds(events'[e])
                                   /\ "Error" \in Kinds(events'[e])
      BY <2>1, <2>2, EmitKinds DEF Fail
    <2>4. /\ UNCHANGED <<handle, status, named, receiver>>
          /\ thread'[Other(e)] = thread[Other(e)]
      BY <2>1, TwoEnds DEF Fail, ui, TypeOK
    <2>. QED
      BY <2>3, <2>4, ToldKept, TwoEnds
  <1>5. ASSUME NEW e \in Ends, SendLoopEnds(e) \/ ReplaceChat(e) \/ Exit(e)
        PROVE  Goal
    <2>1. /\ handle'[e] # "held" /\ handle'[Other(e)] = handle[Other(e)]
          /\ events'[Other(e)] = events[Other(e)] /\ UNCHANGED <<status, named>>
          /\ receiver'[Other(e)] = receiver[Other(e)]
          /\ thread'[Other(e)] = thread[Other(e)]
      BY <1>5, TwoEnds DEF SendLoopEnds, ReplaceChat, Exit, work, ui, TypeOK
    <2>. QED
      BY <2>1, ToldKept, TwoEnds
  <1>6. ASSUME NEW e \in Ends, Receive(e)
        PROVE  Goal
    <2>1. Event("Incoming", NextFrame(e).body) \in EventType
      BY <1>6, TwoEnds, FrameTypes, EventTypes
      DEF Receive, HasFrame, NextFrame, Decrypts, TypeOK
    <2>2. /\ events'[Other(e)] = events[Other(e)]
          /\ handle[e] = "held" => Kinds(events[e]) \subseteq Kinds(events'[e])
      BY <1>6, <2>1, EmitKinds DEF Receive
    <2>3. UNCHANGED <<handle, status, named, receiver, thread>>
      BY <1>6 DEF Receive, work, ui
    <2>. QED
      BY <2>2, <2>3, ToldKept, TwoEnds
  <1>7. ASSUME NEW e \in Ends, ReceiveEnds(e)
        PROVE  Goal
    <2>1. /\ Event("Disconnected", 0) \in EventType
          /\ Event("Disconnected", 0).kind = "Disconnected"
      BY EventTypes DEF Event
    <2>2. /\ events'[Other(e)] = events[Other(e)]
          /\ handle[e] = "held" => /\ Kinds(events[e]) \subseteq Kinds(events'[e])
                                   /\ "Disconnected" \in Kinds(events'[e])
      BY <1>7, <2>1, EmitKinds DEF ReceiveEnds
    <2>3. /\ UNCHANGED <<handle, status, named, thread>>
          /\ receiver'[Other(e)] = receiver[Other(e)]
      BY <1>7, TwoEnds DEF ReceiveEnds, ui, TypeOK
    <2>. QED
      BY <2>2, <2>3, ToldKept, TwoEnds
  <1>8. ASSUME NEW e \in Ends, Drain(e)
        PROVE  Goal
    <2>1. Told(Other(e))'
      <3>1. /\ UNCHANGED <<handle, receiver, thread>>
            /\ events'[Other(e)] = events[Other(e)]
            /\ status'[Other(e)] = status[Other(e)] /\ named'[Other(e)] = named[Other(e)]
        BY <1>8, TwoEnds DEF Drain, work, TypeOK
      <3>. QED
        BY <3>1, ToldKept, TwoEnds
    <2>2. Told(e)'
      <3>1. /\ handle[e] = "held" /\ events[e] \in Seq(EventType) /\ events[e] # <<>>
            /\ events'[e] = Tail(events[e]) /\ UNCHANGED <<handle, receiver, thread>>
            /\ Ordered(receiver[e], thread[e], status[e], named[e], events[e])
        BY <1>8 DEF Drain, work, TypeOK, EventOrder
      <3>2. Kinds(events[e]) \subseteq Kinds(events'[e]) \cup {Head(events[e]).kind}
        BY <3>1, TailKinds
      <3>3. /\ receiver[e] = "ended" =>
                  \/ "Disconnected" \in Kinds(events[e])
                  \/ ~ named[e] /\ status[e] \in {"closed", "error"}
            /\ thread[e] = "failed" =>
                  "Error" \in Kinds(events[e]) \/ status[e] \in {"closed", "error"}
        BY <3>1 DEF Told
      <3>4. CASE Head(events[e]).kind = "Connected"
        <4>1. status[e] = "connecting"
          BY ZenonT(40), <3>1, <3>4, OrderedTail
        <4>2. /\ receiver[e] = "ended" => "Disconnected" \in Kinds(events'[e])
              /\ thread[e] = "failed" => "Error" \in Kinds(events'[e])
          BY <3>2, <3>3, <3>4, <4>1
        <4>. QED
          BY <3>1, <4>2 DEF Told, Kinds
      <3>5. CASE Head(events[e]).kind = "Incoming"
        <4>1. status'[e] = status[e] /\ named'[e] = named[e]
          BY <1>8, <3>5 DEF Drain
        <4>2. /\ receiver[e] = "ended" =>
                    \/ "Disconnected" \in Kinds(events'[e])
                    \/ ~ named'[e] /\ status'[e] \in {"closed", "error"}
              /\ thread[e] = "failed" =>
                    "Error" \in Kinds(events'[e]) \/ status'[e] \in {"closed", "error"}
          BY <3>2, <3>3, <3>5, <4>1
        <4>. QED
          BY <3>1, <4>2 DEF Told, Kinds
      <3>6. CASE Head(events[e]).kind = "Disconnected"
        <4>1. status'[e] = "closed" /\ named'[e] = FALSE
          BY <1>8, <3>6 DEF Drain, TypeOK
        <4>. QED
          BY <4>1, Zenon DEF Told
      <3>7. CASE Head(events[e]).kind = "Error"
        <4>1. status'[e] = "error" /\ named'[e] = named[e]
          BY <1>8, <3>7 DEF Drain, TypeOK
        <4>2. receiver[e] = "ended" => "Disconnected" \in Kinds(events'[e]) \/ ~ named'[e]
          BY <3>2, <3>3, <3>7, <4>1
        <4>. QED
          BY <3>1, <4>1, <4>2 DEF Told, Kinds
      <3>. QED
        BY <1>8, <3>4, <3>5, <3>6, <3>7 DEF Drain
    <2>. QED
      BY <2>1, <2>2, TwoEnds
  <1>. QED
    BY <1>1, <1>2, <1>3, <1>4, <1>5, <1>6, <1>7, <1>8
    DEF Next, SessionThread, ReceiveThread, User

LEMMA ToldInit == Init => \A f \in Ends : Told(f)
  BY DEF Init, Told

----------------------------------------------------------------------------
(* A chat in which nothing can move has kept every promise.                *)

LEMMA IInvAlways == Spec => []IInv
  <1>1. Init => IInv
    BY HandshakeInit, NumberedInit, VisibleInit, EventOrderInit, StopsInit, ToldInit
    DEF IInv, VisibleInv
  <1>2. IInv /\ [Next]_vars => IInv'
    BY HandshakeStep, NumberedStep, VisibleStep, EventOrderStep, StopsStep, ToldStep
    DEF IInv
  <1>. QED
    BY <1>1, <1>2, PTL DEF Spec

\* No thread of either program can take a step, and the network is quiet.
Idle == \A e \in Ends :
    ~ SessionCanStep(e) /\ ~ ReceiverCanStep(e) /\ ~ UiCanStep(e) /\ ~ KernelCanStep(e)

\* What SentIsShown, ExitNoticed and SocketFreed promise for the end.
Delivered(e) == sent[e] <= Len(shown[Other(e)]) \/ Broken(e)

Noticed(e) == handle[Other(e)] = "exited" =>
    handle[e] # "held" \/ status[e] \in {"closed", "error"}

Freed(e) == handle[Other(e)] = "exited" /\ handle[e] = "dropped" => Closed(e)

Settled == \A e \in Ends : Delivered(e) /\ Noticed(e) /\ Freed(e)

\* Whoever may read has read everything, and its peer has not closed.
LEMMA IdleReader ==
    ASSUME IInv, Idle, NEW e \in Ends
    PROVE  /\ thread[e] # "hello"
           /\ MayRead(e) => wire[Other(e)] = <<>> /\ ~ Closed(Other(e))
  <1>. /\ WireFrames(e) /\ Stops(e)
       /\ ~ SessionCanStep(e) /\ ~ ReceiverCanStep(e)
    BY DEF IInv, Handshake, Idle
  <1>1. thread[e] # "hello"
    <2>. SUFFICES ASSUME thread[e] = "hello"
                  PROVE  CanWrite(e)
      BY DEF SessionCanStep
    <2>1. wire[e] = <<>> /\ rst[e] = "none"
      BY DEF WireFrames, Stops
    <2>. QED
      BY <2>1, SocketCapAssumption DEF CanWrite
  <1>2. MayRead(e) => thread[e] = "await" \/ receiver[e] = "reading"
    BY <1>1 DEF MayRead, Waiting
  <1>. QED
    BY <1>1, <1>2 DEF SessionCanStep, ReceiverCanStep, HasFrame, StreamOver

\* If nothing broke e's chat, then everything that its user sent is shown.
LEMMA IdleDelivered ==
    ASSUME IInv, Idle, NEW e \in Ends
    PROVE  Delivered(e)
  <1>. DEFINE o == Other(e)
  <1>. SUFFICES ASSUME ~ Broken(e)
                PROVE  sent[e] <= Len(shown[o])
    BY DEF Delivered
  <1>. /\ o \in Ends /\ Other(o) = e
       /\ TypeOK /\ Owns(e) /\ Owns(o) /\ WireFrames(o) /\ Stops(e) /\ Stops(o)
    BY TwoEnds DEF IInv, Handshake, Ownership
  <1>1. /\ handle[e] # "exited" /\ handle[o] = "held"
        /\ thread[e] # "failed" /\ thread[o] # "failed"
    BY DEF Broken
  <1>. HIDE DEF o
  <1>2. thread[e] \in {"await", "chat", "ended"} /\ thread[o] \in {"await", "chat"}
    BY <1>1, IdleReader DEF TypeOK, Running, Waiting, Stops
  <1>3. ~ Closed(o)
    BY <1>2 DEF Owns, Closed, Running, Waiting
  <1>4. Intact(e) /\ ~ Closed(e)
    BY <1>1, <1>2, <1>3 DEF o, TypeOK, Stops, Owns, Intact, Closed, Running, Waiting
  <1>5. MayRead(o) => wire[e] = <<>>
    BY IdleReader
  <1>6. MayRead(o) /\ receiver[o] = "reading"
    <2>1. thread[o] # "await"
      BY <1>2, <1>4, <1>5 DEF o, Stops, MayRead, Waiting
    <2>2. receiver[o] # "ended"
      BY <1>1, <1>4 DEF Stops
    <2>. QED
      BY <1>2, <2>1, <2>2 DEF TypeOK, Owns, MayRead
  <1>7. wire[e] = <<>> /\ events[o] = <<>>
    BY <1>1, <1>5, <1>6 DEF Idle, UiCanStep
  <1>8. thread[e] # "await"
    <2>1. thread[o] = "chat"
      BY <1>2, <1>6 DEF Owns, Waiting
    <2>2. MayRead(e) => wire[o] = <<>>
      BY IdleReader DEF o
    <2>. QED
      BY <2>1, <2>2 DEF WireFrames, MayRead, Waiting
  <1>9. outbound[e] = <<>>
    <2>1. rst[e] = "arrived" \/ CanWrite(e)
      BY <1>7, SocketCapAssumption DEF CanWrite
    <2>2. thread[e] = "chat" => outbound[e] = <<>>
      BY <2>1 DEF Idle, SessionCanStep, WriteFails
    <2>. QED
      BY <1>2, <1>8, <2>2 DEF Stops
  <1>10. PICK r, w \in 0..MaxSend : Pipeline(e, o, r, w)
    BY DEF IInv, Numbered, o
  <1>11. r = w
    BY <1>4, <1>6, <1>7, <1>10, MaxSendAssumption DEF Pipeline, Carries, Hellos
  <1>12. w = sent[e]
    BY <1>4, <1>9, <1>10, MaxSendAssumption DEF Pipeline, Unsent
  <1>13. Len(shown[o]) >= r
    <2>1. Queued(<<>>, Len(shown[o]), r) /\ Len(shown[o]) \in Nat
      BY <1>1, <1>7, <1>10 DEF Pipeline, TypeOK
    <2>2. \A n \in (Len(shown[o]) + 1)..r : FALSE
      BY <2>1 DEF Queued
    <2>. QED
      BY <2>1, <2>2, MaxSendAssumption
  <1>. QED
    BY <1>11, <1>12, <1>13

\* A process that is gone holds no socket.
LEMMA ExitedIsClosed ==
    ASSUME IInv, NEW e \in Ends, handle[e] = "exited"
    PROVE  Closed(e)
  <1>1. Owns(e) /\ open[e] \subseteq Handles
    BY DEF IInv, Handshake, Ownership, TypeOK
  <1>2. "writer" \notin open[e] /\ "reader" \notin open[e]
    BY <1>1 DEF Owns, Running, Waiting
  <1>. QED
    BY <1>1, <1>2 DEF Closed, Handles

\* The user who stayed is told that the other end quit.
LEMMA IdleNoticed ==
    ASSUME IInv, Idle, NEW e \in Ends
    PROVE  Noticed(e)
  <1>. SUFFICES ASSUME handle[Other(e)] = "exited", handle[e] = "held"
                PROVE  status[e] \in {"closed", "error"}
    BY DEF Noticed
  <1>. TypeOK /\ Owns(e) /\ Stops(e) /\ Told(e)
    BY DEF IInv, Handshake, Ownership
  <1>1. Closed(Other(e))
    BY TwoEnds, ExitedIsClosed
  <1>2. thread[e] \in {"chat", "failed"} /\ receiver[e] # "reading"
    BY <1>1, IdleReader DEF MayRead, Waiting, Running, Stops, TypeOK
  <1>3. Kinds(events[e]) = {}
    BY DEF Idle, UiCanStep, Kinds
  <1>. QED
    BY <1>2, <1>3 DEF Told, Owns, TypeOK

\* When both users are gone, so is the socket.
LEMMA IdleFreed ==
    ASSUME IInv, Idle, NEW e \in Ends
    PROVE  Freed(e)
  <1>. SUFFICES ASSUME handle[Other(e)] = "exited", handle[e] = "dropped"
                PROVE  Closed(e)
    BY DEF Freed
  <1>. TypeOK /\ Owns(e)
    BY DEF IInv, Handshake, Ownership
  <1>1. Closed(Other(e))
    BY TwoEnds, ExitedIsClosed
  <1>2. ~ MayRead(e)
    BY <1>1, IdleReader
  <1>3. thread[e] # "chat"
    BY <1>1 DEF Idle, SessionCanStep, CanWrite, WriteFails
  <1>. QED
    BY ZenonT(40), <1>2, <1>3 DEF Owns, MayRead, Closed, Running, Waiting, Handles, TypeOK

\* No two of the six threads and the network ever wait on each other: whenever
\* none of them can go on, every message that was taken is shown unless the
\* chat was broken, the user who stayed knows that the other one has quit, and
\* a chat that both have left holds no socket.
THEOREM IdleIsSettled == Spec => [](Idle => Settled)
  <1>1. IInv => (Idle => Settled)
    BY IdleDelivered, IdleNoticed, IdleFreed DEF Settled
  <1>. QED
    BY <1>1, IInvAlways, PTL

----------------------------------------------------------------------------
(* Every step of a chat uses up some of the work that is left to do.       *)

ThreadWork(t) == [hello |-> 6, await |-> 3, chat |-> 2, ended |-> 0, failed |-> 0][t]

ReceiverWork(r) == [none |-> 2, reading |-> 2, ended |-> 0][r]

ResetWork(r) == [none |-> 2, inflight |-> 1, arrived |-> 0][r]

HandleWork(h) == [held |-> 2, dropped |-> 1, exited |-> 0][h]

\* A message costs four steps: it is taken, written, received and shown.
Cost(t, r, k, h, u, o, w, q) == t + r + k + h + 4 * u + 3 * o + 2 * w + q

EndWork(e) ==
    Cost(ThreadWork(thread[e]), ReceiverWork(receiver[e]), ResetWork(rst[e]),
         HandleWork(handle[e]), MaxSend - sent[e], Len(outbound[e]), Len(wire[e]),
         Len(events[e]))

Work == EndWork("host") + EndWork("joiner")

LEMMA Ranks ==
    /\ ThreadWork("hello") = 6 /\ ThreadWork("await") = 3 /\ ThreadWork("chat") = 2
    /\ ThreadWork("ended") = 0 /\ ThreadWork("failed") = 0
    /\ ReceiverWork("none") = 2 /\ ReceiverWork("reading") = 2 /\ ReceiverWork("ended") = 0
    /\ ResetWork("none") = 2 /\ ResetWork("inflight") = 1 /\ ResetWork("arrived") = 0
    /\ HandleWork("held") = 2 /\ HandleWork("dropped") = 1 /\ HandleWork("exited") = 0
  BY DEF ThreadWork, ReceiverWork, ResetWork, HandleWork

\* Every part of the work of an end is a natural number.
Counted(e) ==
    /\ ThreadWork(thread[e]) \in Nat /\ ReceiverWork(receiver[e]) \in Nat
    /\ ResetWork(rst[e]) \in Nat /\ HandleWork(handle[e]) \in Nat
    /\ sent[e] \in 0..MaxSend /\ Len(outbound[e]) \in Nat
    /\ Len(wire[e]) \in Nat /\ Len(events[e]) \in Nat

LEMMA WorkCounted ==
    ASSUME TypeOK, NEW e \in Ends
    PROVE  Counted(e)
  <1>1. thread[e] \in {"hello", "await", "chat", "ended", "failed"}
    BY DEF TypeOK, Running, Waiting
  <1>2. /\ receiver[e] \in {"none", "reading", "ended"}
        /\ rst[e] \in {"none", "inflight", "arrived"}
        /\ handle[e] \in {"held", "dropped", "exited"}
    BY DEF TypeOK
  <1>3. sent[e] \in 0..MaxSend
    BY DEF TypeOK
  <1>4. /\ outbound[e] \in Seq(1..MaxSend) /\ wire[e] \in Seq(Frame)
        /\ events[e] \in Seq(EventType)
    BY DEF TypeOK
  <1>. QED
    BY <1>1, <1>2, <1>3, <1>4, Ranks, MaxSendAssumption DEF Counted

WorkTypes == \A e \in Ends : Counted(e) /\ EndWork(e) \in Nat

LEMMA WorkTyped == TypeOK => WorkTypes
  <1>. SUFFICES ASSUME TypeOK, NEW e \in Ends
                PROVE  Counted(e) /\ EndWork(e) \in Nat
    BY DEF WorkTypes
  <1>1. Counted(e)
    BY WorkCounted
  <1>2. \A t, r, k, h, u, o, w, q \in Nat : Cost(t, r, k, h, u, o, w, q) \in Nat
    BY DEF Cost
  <1>3. MaxSend - sent[e] \in Nat
    BY <1>1, MaxSendAssumption DEF Counted
  <1>. QED
    BY <1>1, <1>2, <1>3 DEF EndWork, Counted

\* What each kind of step costs the end e that takes it; d frames are taken off
\* what the other end wrote.
WritesHello(e) ==
    /\ ThreadWork(thread'[e]) + 3 <= ThreadWork(thread[e])
    /\ Len(wire'[e]) <= Len(wire[e]) + 1
    /\ UNCHANGED <<sent[e], outbound[e], events[e]>>

WritesMessage(e) ==
    /\ thread'[e] = thread[e]
    /\ Len(outbound'[e]) + 1 <= Len(outbound[e])
    /\ Len(wire'[e]) <= Len(wire[e]) + 1
    /\ UNCHANGED <<sent[e], events[e]>>

ReadsOrStops(e, d) ==
    /\ \/ ThreadWork(thread'[e]) + 2 <= ThreadWork(thread[e])
       \/ /\ ThreadWork(thread'[e]) <= ThreadWork(thread[e])
          /\ d = 1 \/ ReceiverWork(receiver'[e]) + 2 <= ReceiverWork(receiver[e])
    /\ Len(outbound'[e]) <= Len(outbound[e])
    /\ Len(events'[e]) <= Len(events[e]) + 1
    /\ UNCHANGED <<sent[e], wire[e]>>

TakesMessage(e) ==
    /\ sent'[e] = sent[e] + 1
    /\ Len(outbound'[e]) <= Len(outbound[e]) + 1
    /\ UNCHANGED <<thread[e], wire[e], events[e]>>

ShowsOrLeaves(e) ==
    /\ \/ Len(events'[e]) + 1 <= Len(events[e])
       \/ HandleWork(handle'[e]) + 1 <= HandleWork(handle[e])
       \/ ResetWork(rst'[e]) + 1 <= ResetWork(rst[e])
    /\ ThreadWork(thread'[e]) <= ThreadWork(thread[e])
    /\ Len(outbound'[e]) <= Len(outbound[e])
    /\ Len(events'[e]) <= Len(events[e])
    /\ UNCHANGED <<sent[e], wire[e]>>

Pays(e, d) ==
    /\ ReceiverWork(receiver'[e]) <= ReceiverWork(receiver[e])
    /\ ResetWork(rst'[e]) <= ResetWork(rst[e])
    /\ HandleWork(handle'[e]) <= HandleWork(handle[e])
    /\ \/ WritesHello(e) \/ WritesMessage(e) \/ ReadsOrStops(e, d)
       \/ TakesMessage(e) \/ ShowsOrLeaves(e)

LEMMA EndWorkLess ==
    ASSUME WorkTypes, WorkTypes', NEW e \in Ends, NEW d \in {0, 1}, Pays(e, d)
    PROVE  EndWork(e)' < EndWork(e) + 2 * d
  <1>. DEFINE t1 == ThreadWork(thread[e])       t2 == ThreadWork(thread'[e])
              r1 == ReceiverWork(receiver[e])   r2 == ReceiverWork(receiver'[e])
              k1 == ResetWork(rst[e])           k2 == ResetWork(rst'[e])
              h1 == HandleWork(handle[e])       h2 == HandleWork(handle'[e])
              u1 == MaxSend - sent[e]           u2 == MaxSend - sent'[e]
              o1 == Len(outbound[e])            o2 == Len(outbound'[e])
              w1 == Len(wire[e])                w2 == Len(wire'[e])
              q1 == Len(events[e])              q2 == Len(events'[e])
  <1>1. /\ EndWork(e) = Cost(t1, r1, k1, h1, u1, o1, w1, q1)
        /\ EndWork(e)' = Cost(t2, r2, k2, h2, u2, o2, w2, q2)
    BY DEF EndWork
  <1>2. /\ t1 \in Nat /\ r1 \in Nat /\ k1 \in Nat /\ h1 \in Nat
        /\ o1 \in Nat /\ w1 \in Nat /\ q1 \in Nat
        /\ t2 \in Nat /\ r2 \in Nat /\ k2 \in Nat /\ h2 \in Nat
        /\ o2 \in Nat /\ w2 \in Nat /\ q2 \in Nat
    BY DEF WorkTypes, Counted
  <1>3. /\ u1 \in Nat /\ u2 \in Nat
        /\ sent'[e] = sent[e] => u2 = u1
        /\ sent'[e] = sent[e] + 1 => u2 + 1 = u1
    <2>1. sent[e] \in 0..MaxSend /\ sent'[e] \in 0..MaxSend
      BY DEF WorkTypes, Counted
    <2>. QED
      BY <2>1, MaxSendAssumption
  <1>4. /\ sent'[e] = sent[e] => u2 = u1
        /\ thread'[e] = thread[e] => t2 = t1
        /\ outbound'[e] = outbound[e] => o2 = o1
        /\ wire'[e] = wire[e] => w2 = w1
        /\ events'[e] = events[e] => q2 = q1
    OBVIOUS
  <1>5. /\ r2 <= r1 /\ k2 <= k1 /\ h2 <= h1
        /\ \/ t2 + 3 <= t1 /\ w2 <= w1 + 1 /\ u2 = u1 /\ o2 = o1 /\ q2 = q1
           \/ t2 = t1 /\ o2 + 1 <= o1 /\ w2 <= w1 + 1 /\ u2 = u1 /\ q2 = q1
           \/ /\ t2 + 2 <= t1 \/ (t2 <= t1 /\ (d = 1 \/ r2 + 2 <= r1))
              /\ o2 <= o1 /\ q2 <= q1 + 1 /\ u2 = u1 /\ w2 = w1
           \/ u2 + 1 = u1 /\ o2 <= o1 + 1 /\ t2 = t1 /\ w2 = w1 /\ q2 = q1
           \/ /\ q2 + 1 <= q1 \/ h2 + 1 <= h1 \/ k2 + 1 <= k1
              /\ t2 <= t1 /\ o2 <= o1 /\ q2 <= q1 /\ u2 = u1 /\ w2 = w1
    <2>1. r2 <= r1 /\ k2 <= k1 /\ h2 <= h1
      BY DEF Pays
    <2>2. CASE WritesHello(e)
      BY <1>3, <1>4, <2>1, <2>2 DEF WritesHello
    <2>3. CASE WritesMessage(e)
      BY <1>3, <1>4, <2>1, <2>3 DEF WritesMessage
    <2>4. CASE ReadsOrStops(e, d)
      BY <1>3, <1>4, <2>1, <2>4 DEF ReadsOrStops
    <2>5. CASE TakesMessage(e)
      BY <1>3, <1>4, <2>1, <2>5 DEF TakesMessage
    <2>6. CASE ShowsOrLeaves(e)
      BY <1>3, <1>4, <2>1, <2>6 DEF ShowsOrLeaves
    <2>. QED
      BY <2>2, <2>3, <2>4, <2>5, <2>6 DEF Pays
  <1>. HIDE DEF t1, r1, k1, h1, u1, o1, w1, q1, t2, r2, k2, h2, u2, o2, w2, q2
  <1>. QED
    BY <1>1, <1>2, <1>3, <1>5 DEF Cost

\* What a step of e leaves of the other end's work.
Spares(o, d) ==
    /\ UNCHANGED <<thread[o], receiver[o], handle[o], sent[o], outbound[o], events[o]>>
    /\ Len(wire'[o]) + d <= Len(wire[o])
    /\ ResetWork(rst'[o]) <= ResetWork(rst[o])

LEMMA WorkLess ==
    ASSUME WorkTypes, WorkTypes', NEW e \in Ends, NEW d \in {0, 1},
           Pays(e, d), Spares(Other(e), d)
    PROVE  Work' < Work
  <1>. DEFINE o == Other(e)
  <1>. o \in Ends
    BY TwoEnds
  <1>. HIDE DEF o
  <1>1. EndWork(o)' + 2 * d <= EndWork(o)
    <2>. DEFINE t == ThreadWork(thread[o])    r == ReceiverWork(receiver[o])
                h == HandleWork(handle[o])    u == MaxSend - sent[o]
                b == Len(outbound[o])         q == Len(events[o])
                k1 == ResetWork(rst[o])       k2 == ResetWork(rst'[o])
                w1 == Len(wire[o])            w2 == Len(wire'[o])
    <2>1. /\ EndWork(o) = Cost(t, r, k1, h, u, b, w1, q)
          /\ EndWork(o)' = Cost(t, r, k2, h, u, b, w2, q)
      BY DEF EndWork, Spares, o
    <2>2. /\ t \in Nat /\ r \in Nat /\ k1 \in Nat /\ k2 \in Nat /\ h \in Nat
          /\ b \in Nat /\ w1 \in Nat /\ w2 \in Nat /\ q \in Nat
      BY DEF WorkTypes, Counted
    <2>3. u \in Nat
      <3>1. sent[o] \in 0..MaxSend
        BY DEF WorkTypes, Counted
      <3>. QED
        BY <3>1, MaxSendAssumption
    <2>4. w2 + d <= w1 /\ k2 <= k1
      BY DEF Spares, o
    <2>. HIDE DEF t, r, h, u, b, q, k1, k2, w1, w2
    <2>. QED
      BY <2>1, <2>2, <2>3, <2>4 DEF Cost
  <1>2. EndWork(e)' < EndWork(e) + 2 * d
    BY EndWorkLess
  <1>3. /\ EndWork(e) \in Nat /\ EndWork(e)' \in Nat
        /\ EndWork(o) \in Nat /\ EndWork(o)' \in Nat
    BY DEF WorkTypes
  <1>4. Work = EndWork(e) + EndWork(o) /\ Work' = EndWork(e)' + EndWork(o)'
    <2>1. \/ e = "host" /\ o = "joiner"
          \/ e = "joiner" /\ o = "host"
      BY DEF Ends, Other, o
    <2>2. /\ EndWork("host") \in Nat /\ EndWork("host")' \in Nat
          /\ EndWork("joiner") \in Nat /\ EndWork("joiner")' \in Nat
      BY DEF WorkTypes, Ends
    <2>. QED
      BY <2>1, <2>2 DEF Work
  <1>. QED
    BY <1>1, <1>2, <1>3, <1>4

\* What Write, Emit, Consume and DropWith cost, for e and for the other end.
LEMMA WriteCosts ==
    ASSUME TypeOK, NEW e \in Ends, NEW frame \in Frame, Write(e, frame)
    PROVE  /\ Len(wire'[e]) <= Len(wire[e]) + 1 /\ ResetWork(rst'[e]) <= ResetWork(rst[e])
           /\ wire'[Other(e)] = wire[Other(e)] /\ rst'[Other(e)] = rst[Other(e)]
  <1>1. /\ wire[e] \in Seq(Frame) /\ Len(wire[e]) \in Nat
        /\ Len(Append(wire[e], frame)) = Len(wire[e]) + 1
    BY AppendSeq DEF TypeOK
  <1>2. wire'[e] = wire[e] \/ wire'[e] = Append(wire[e], frame)
    BY DEF Write, TypeOK
  <1>3. rst'[e] = rst[e] \/ (rst'[e] = "inflight" /\ rst[e] \in {"none", "inflight"})
    BY DEF Write, TypeOK
  <1>4. ResetWork(rst'[e]) <= ResetWork(rst[e])
    BY <1>3, WorkCounted, Ranks DEF Counted
  <1>. QED
    BY <1>1, <1>2, <1>4, TwoEnds DEF Write, TypeOK

LEMMA EmitCosts ==
    ASSUME TypeOK, NEW e \in Ends, NEW v \in EventType, Emit(e, v)
    PROVE  Len(events'[e]) <= Len(events[e]) + 1 /\ events'[Other(e)] = events[Other(e)]
  <1>1. /\ events[e] \in Seq(EventType) /\ Len(events[e]) \in Nat
        /\ Len(Append(events[e], v)) = Len(events[e]) + 1
    BY AppendSeq DEF TypeOK
  <1>2. /\ events'[e] = events[e] \/ events'[e] = Append(events[e], v)
        /\ events'[Other(e)] = events[Other(e)]
    BY EmitOwns DEF TypeOK
  <1>. QED
    BY <1>1, <1>2

LEMMA UnreadCosts ==
    ASSUME TypeOK, NEW e \in Ends
    PROVE  /\ Len(Unread(e)) \in Nat /\ Len(wire[Other(e)]) \in Nat
           /\ Len(Unread(e)) <= Len(wire[Other(e)])
           /\ HasFrame(e) => Len(Unread(e)) + 1 <= Len(wire[Other(e)])
  <1>1. wire[Other(e)] \in Seq(Frame)
    BY TwoEnds DEF TypeOK
  <1>2. Len(wire[Other(e)]) \in Nat /\ (wire[Other(e)] = <<>> <=> Len(wire[Other(e)]) = 0)
    BY <1>1
  <1>3. Len(Unread(e)) = IF wire[Other(e)] = <<>> THEN 0 ELSE Len(wire[Other(e)]) - 1
    BY <1>1, RestSeq DEF Unread
  <1>. QED
    BY <1>2, <1>3 DEF HasFrame

LEMMA DropCosts ==
    ASSUME TypeOK, NEW e \in Ends, NEW hs, NEW unread \in Seq(Frame),
           DropWith(e, hs, unread), Len(unread) <= Len(wire[Other(e)])
    PROVE  /\ wire'[e] = wire[e] /\ rst'[e] = rst[e]
           /\ Len(wire'[Other(e)]) <= Len(wire[Other(e)])
           /\ ResetWork(rst'[Other(e)]) <= ResetWork(rst[Other(e)])
  <1>. DEFINE o == Other(e)
  <1>. o \in Ends /\ o # e
    BY TwoEnds
  <1>1. Len(wire[o]) \in Nat /\ Len(<<>>) = 0
    BY DEF TypeOK
  <1>2. wire'[o] = unread \/ wire'[o] = <<>>
    BY DEF DropWith, TypeOK
  <1>3. rst'[o] = rst[o] \/ (rst'[o] = "inflight" /\ rst[o] \in {"none", "inflight"})
    BY DEF DropWith, TypeOK
  <1>4. ResetWork(rst'[o]) <= ResetWork(rst[o])
    BY <1>3, WorkCounted, Ranks DEF Counted
  <1>5. wire'[e] = wire[e] /\ rst'[e] = rst[e]
    BY DEF DropWith, TypeOK
  <1>. QED
    BY <1>1, <1>2, <1>4, <1>5

LEMMA WorkStep == IInv /\ [Next]_vars => UNCHANGED vars \/ Work' < Work
  <1>. SUFFICES ASSUME IInv, Next PROVE Work' < Work
    OBVIOUS
  <1>. /\ TypeOK /\ \A e \in Ends : Owns(e)
       /\ \A e \in Ends : Counted(e)
    BY WorkCounted DEF IInv, Handshake, Ownership
  <1>1. TypeOK'
    BY TypeStep
  <1>2. WorkTypes /\ WorkTypes'
    BY <1>1, WorkTyped, PTL
  <1>3. ASSUME NEW e \in Ends, NEW d \in {0, 1}, Pays(e, d), Spares(Other(e), d)
        PROVE  Work' < Work
    BY <1>2, <1>3, WorkLess
  <1>4. ASSUME NEW e \in Ends, SendHello(e)
        PROVE  Work' < Work
    <2>1. CreateHello(identity[e], e) \in Frame
      BY FrameTypes DEF TypeOK
    <2>2. /\ Len(wire'[e]) <= Len(wire[e]) + 1 /\ ResetWork(rst'[e]) <= ResetWork(rst[e])
          /\ wire'[Other(e)] = wire[Other(e)] /\ rst'[Other(e)] = rst[Other(e)]
      BY <1>4, <2>1, WriteCosts DEF SendHello
    <2>3. /\ UNCHANGED <<receiver, handle, sent, outbound, events>>
          /\ thread[e] = "hello" /\ thread'[e] = "await"
          /\ thread'[Other(e)] = thread[Other(e)]
      BY <1>4, TwoEnds DEF SendHello, ui, TypeOK
    <2>4. Pays(e, 0)
      BY <2>2, <2>3, Ranks DEF Pays, WritesHello, Counted
    <2>5. Spares(Other(e), 0)
      BY <2>2, <2>3, TwoEnds DEF Spares, Counted
    <2>. QED
      BY <1>3, <2>4, <2>5
  <1>5. ASSUME NEW e \in Ends, RecvHello(e)
        PROVE  Work' < Work
    <2>1. Event("Connected", 0) \in EventType
      BY EventTypes
    <2>2. Len(events'[e]) <= Len(events[e]) + 1 /\ events'[Other(e)] = events[Other(e)]
      BY <1>5, <2>1, EmitCosts DEF RecvHello
    <2>3. /\ UNCHANGED <<rst, handle, sent, outbound>>
          /\ thread[e] = "await" /\ thread'[e] = "chat"
          /\ thread'[Other(e)] = thread[Other(e)]
          /\ receiver[e] = "none" /\ receiver'[e] = "reading"
          /\ receiver'[Other(e)] = receiver[Other(e)]
          /\ wire'[e] = wire[e] /\ wire'[Other(e)] = Unread(e)
      BY <1>5, TwoEnds DEF RecvHello, Consume, Owns, Waiting, ui, TypeOK
    <2>4. Len(Unread(e)) + 1 <= Len(wire[Other(e)])
      BY <1>5, UnreadCosts DEF RecvHello
    <2>5. Pays(e, 1)
      BY <2>2, <2>3, Ranks DEF Pays, ReadsOrStops, Counted
    <2>6. Spares(Other(e), 1)
      BY <2>2, <2>3, <2>4, TwoEnds DEF Spares, Counted
    <2>. QED
      BY <1>3, <2>5, <2>6
  <1>6. ASSUME NEW e \in Ends, NEW hs, NEW unread \in Seq(Frame), Fail(e, hs, unread),
               Len(unread) <= Len(wire[Other(e)]), thread[e] \in {"await", "chat"}
        PROVE  Work' < Work
    <2>1. Event("Error", 0) \in EventType
      BY EventTypes
    <2>2. Len(events'[e]) <= Len(events[e]) + 1 /\ events'[Other(e)] = events[Other(e)]
      BY <1>6, <2>1, EmitCosts DEF Fail
    <2>3. /\ UNCHANGED <<receiver, handle, sent>>
          /\ thread'[e] = "failed" /\ thread'[Other(e)] = thread[Other(e)]
          /\ outbound'[e] = <<>> /\ outbound'[Other(e)] = outbound[Other(e)]
      BY <1>6, TwoEnds DEF Fail, ui, TypeOK
    <2>4. /\ wire'[e] = wire[e] /\ rst'[e] = rst[e]
          /\ Len(wire'[Other(e)]) <= Len(wire[Other(e)])
          /\ ResetWork(rst'[Other(e)]) <= ResetWork(rst[Other(e)])
      BY <1>6, DropCosts DEF Fail
    <2>5. Pays(e, 0)
      BY SMTT(30), <1>6, <2>2, <2>3, <2>4, Ranks DEF Pays, ReadsOrStops, Counted
    <2>6. Spares(Other(e), 0)
      BY <2>2, <2>3, <2>4, <1>2, TwoEnds DEF Spares, WorkTypes, Counted
    <2>. QED
      BY <1>3, <2>5, <2>6
  <1>7. ASSUME NEW e \in Ends, RejectHello(e) \/ HelloNeverCame(e) \/ SendChatFails(e)
        PROVE  Work' < Work
    <2>1. Unread(e) \in Seq(Frame) /\ wire[Other(e)] \in Seq(Frame)
      BY UnreadType DEF TypeOK, TcpTypeOK
    <2>2. Len(Unread(e)) <= Len(wire[Other(e)]) /\ Len(wire[Other(e)]) <= Len(wire[Other(e)])
      BY UnreadCosts
    <2>. QED
      BY <1>6, <1>7, <2>1, <2>2 DEF RejectHello, HelloNeverCame, SendChatFails
  <1>8. ASSUME NEW e \in Ends, SendChat(e)
        PROVE  Work' < Work
    <2>1. /\ outbound[e] \in Seq(1..MaxSend) /\ outbound[e] # <<>>
          /\ outbound'[e] = Tail(outbound[e]) /\ key[e] \in SUBSET Ends
      BY <1>8 DEF SendChat, TypeOK
    <2>2. Encrypt(key[e], Head(outbound[e])) \in Frame
      <3>1. Head(outbound[e]) \in 1..MaxSend
        BY <2>1, TailSeq
      <3>. QED
        BY <2>1, <3>1, FrameTypes
    <2>3. /\ Len(wire'[e]) <= Len(wire[e]) + 1 /\ ResetWork(rst'[e]) <= ResetWork(rst[e])
          /\ wire'[Other(e)] = wire[Other(e)] /\ rst'[Other(e)] = rst[Other(e)]
      BY <1>8, <2>2, WriteCosts DEF SendChat
    <2>4. Len(outbound'[e]) + 1 <= Len(outbound[e])
      BY <2>1, TailSeq
    <2>5. /\ UNCHANGED <<thread, receiver, handle, sent, events>>
          /\ outbound'[Other(e)] = outbound[Other(e)]
      BY <1>8, TwoEnds DEF SendChat, work, ui, TypeOK
    <2>6. Pays(e, 0)
      BY <2>3, <2>4, <2>5 DEF Pays, WritesMessage, Counted
    <2>7. Spares(Other(e), 0)
      BY <2>3, <2>5, TwoEnds DEF Spares, Counted
    <2>. QED
      BY <1>3, <2>6, <2>7
  <1>9. ASSUME NEW e \in Ends, SendLoopEnds(e)
        PROVE  Work' < Work
    <2>1. /\ wire'[e] = wire[e] /\ rst'[e] = rst[e]
          /\ Len(wire'[Other(e)]) <= Len(wire[Other(e)])
          /\ ResetWork(rst'[Other(e)]) <= ResetWork(rst[Other(e)])
      <3>1. wire[Other(e)] \in Seq(Frame) /\ Len(wire[Other(e)]) <= Len(wire[Other(e)])
        BY UnreadType, UnreadCosts DEF TypeOK, TcpTypeOK
      <3>. QED
        BY <1>9, <3>1, DropCosts DEF SendLoopEnds, Drop
    <2>2. /\ UNCHANGED <<receiver, handle, sent, outbound, events>>
          /\ thread[e] = "chat" /\ thread'[e] = "ended"
          /\ thread'[Other(e)] = thread[Other(e)]
      BY <1>9, TwoEnds DEF SendLoopEnds, ui, TypeOK
    <2>3. Pays(e, 0)
      BY <2>1, <2>2, Ranks DEF Pays, ReadsOrStops, Counted
    <2>4. Spares(Other(e), 0)
      BY <2>1, <2>2, <1>2, TwoEnds DEF Spares, WorkTypes, Counted
    <2>. QED
      BY <1>3, <2>3, <2>4
  <1>10. ASSUME NEW e \in Ends, Receive(e)
         PROVE  Work' < Work
    <2>1. Event("Incoming", NextFrame(e).body) \in EventType
      BY <1>10, TwoEnds, FrameTypes, EventTypes
      DEF Receive, HasFrame, NextFrame, Decrypts, TypeOK
    <2>2. Len(events'[e]) <= Len(events[e]) + 1 /\ events'[Other(e)] = events[Other(e)]
      BY <1>10, <2>1, EmitCosts DEF Receive
    <2>3. /\ UNCHANGED <<rst, thread, receiver, handle, sent, outbound>>
          /\ wire'[e] = wire[e] /\ wire'[Other(e)] = Unread(e)
      BY <1>10, TwoEnds DEF Receive, Consume, work, ui, TypeOK
    <2>4. Len(Unread(e)) + 1 <= Len(wire[Other(e)])
      BY <1>10, UnreadCosts DEF Receive
    <2>5. Pays(e, 1)
      BY <2>2, <2>3 DEF Pays, ReadsOrStops, Counted
    <2>6. Spares(Other(e), 1)
      BY <2>2, <2>3, <2>4, TwoEnds DEF Spares, Counted
    <2>. QED
      BY <1>3, <2>5, <2>6
  <1>11. ASSUME NEW e \in Ends, ReceiveEnds(e)
         PROVE  Work' < Work
    <2>1. Event("Disconnected", 0) \in EventType
      BY EventTypes
    <2>2. Len(events'[e]) <= Len(events[e]) + 1 /\ events'[Other(e)] = events[Other(e)]
      BY <1>11, <2>1, EmitCosts DEF ReceiveEnds
    <2>3. /\ wire'[e] = wire[e] /\ rst'[e] = rst[e]
          /\ Len(wire'[Other(e)]) <= Len(wire[Other(e)])
          /\ ResetWork(rst'[Other(e)]) <= ResetWork(rst[Other(e)])
      <3>1. Unread(e) \in Seq(Frame) /\ Len(Unread(e)) <= Len(wire[Other(e)])
        BY UnreadType, UnreadCosts DEF TypeOK, TcpTypeOK
      <3>. QED
        BY <1>11, <3>1, DropCosts DEF ReceiveEnds
    <2>4. /\ UNCHANGED <<thread, handle, sent, outbound>>
          /\ receiver[e] = "reading" /\ receiver'[e] = "ended"
          /\ receiver'[Other(e)] = receiver[Other(e)]
      BY <1>11, TwoEnds DEF ReceiveEnds, ui, TypeOK
    <2>5. Pays(e, 0)
      BY <2>2, <2>3, <2>4, Ranks DEF Pays, ReadsOrStops, Counted
    <2>6. Spares(Other(e), 0)
      BY <2>2, <2>3, <2>4, <1>2, TwoEnds DEF Spares, WorkTypes, Counted
    <2>. QED
      BY <1>3, <2>5, <2>6
  <1>12. ASSUME NEW e \in Ends, SendMessage(e)
         PROVE  Work' < Work
    <2>1. /\ UNCHANGED <<wire, rst, thread, receiver, handle, events>>
          /\ sent'[e] = sent[e] + 1 /\ sent'[Other(e)] = sent[Other(e)]
          /\ outbound'[e] = Append(outbound[e], sent[e] + 1)
          /\ outbound'[Other(e)] = outbound[Other(e)]
      BY <1>12, TwoEnds DEF SendMessage, tcp, work, TypeOK
    <2>2. Len(outbound'[e]) <= Len(outbound[e]) + 1
      <3>1. outbound[e] \in Seq(1..MaxSend) /\ sent[e] + 1 \in 1..MaxSend
        BY <1>12, MaxSendAssumption DEF SendMessage, TypeOK
      <3>2. Len(outbound'[e]) = Len(outbound[e]) + 1
        BY <2>1, <3>1, AppendSeq
      <3>. QED
        BY <3>2 DEF Counted
    <2>3. Pays(e, 0)
      BY <2>1, <2>2 DEF Pays, TakesMessage, Counted
    <2>4. Spares(Other(e), 0)
      BY <2>1, TwoEnds DEF Spares, Counted
    <2>. QED
      BY <1>3, <2>3, <2>4
  <1>13. ASSUME NEW e \in Ends, Drain(e) \/ ReplaceChat(e)
         PROVE  Work' < Work
    <2>1. /\ UNCHANGED <<wire, rst, thread, receiver, sent, outbound>>
          /\ events'[Other(e)] = events[Other(e)] /\ handle'[Other(e)] = handle[Other(e)]
      BY <1>13, TwoEnds DEF Drain, ReplaceChat, tcp, work, TypeOK
    <2>2. ASSUME Drain(e) PROVE Pays(e, 0)
      <3>1. handle' = handle /\ events[e] # <<>> /\ events'[e] = Tail(events[e])
        BY <2>2 DEF Drain, TypeOK
      <3>2. Len(events'[e]) + 1 <= Len(events[e])
        BY <3>1, TailSeq DEF TypeOK
      <3>. QED
        BY <2>1, <3>1, <3>2 DEF Pays, ShowsOrLeaves, Counted
    <2>3. ASSUME ReplaceChat(e) PROVE Pays(e, 0)
      <3>1. handle[e] = "held" /\ handle'[e] = "dropped" /\ events'[e] = <<>>
        BY <2>3 DEF ReplaceChat, TypeOK
      <3>. QED
        BY <2>1, <3>1, Ranks DEF Pays, ShowsOrLeaves, Counted
    <2>4. Pays(e, 0)
      BY <1>13, <2>2, <2>3
    <2>5. Spares(Other(e), 0)
      BY <2>1, TwoEnds DEF Spares, Counted
    <2>. QED
      BY <1>3, <2>4, <2>5
  <1>14. ASSUME NEW e \in Ends, Exit(e)
         PROVE  Work' < Work
    <2>1. /\ wire'[e] = wire[e] /\ rst'[e] = rst[e]
          /\ Len(wire'[Other(e)]) <= Len(wire[Other(e)])
          /\ ResetWork(rst'[Other(e)]) <= ResetWork(rst[Other(e)])
      <3>1. wire[Other(e)] \in Seq(Frame) /\ Len(wire[Other(e)]) <= Len(wire[Other(e)])
        BY UnreadType, UnreadCosts DEF TypeOK, TcpTypeOK
      <3>. QED
        BY <1>14, <3>1, DropCosts DEF Exit, Drop
    <2>2. /\ sent' = sent /\ handle[e] \in {"held", "dropped"} /\ handle'[e] = "exited"
          /\ thread'[e] = "ended" /\ receiver'[e] = "ended"
          /\ outbound'[e] = <<>> /\ events'[e] = <<>>
          /\ UNCHANGED <<handle[Other(e)], thread[Other(e)], receiver[Other(e)],
                         outbound[Other(e)], events[Other(e)]>>
      BY <1>14, TwoEnds DEF Exit, TypeOK
    <2>3. Pays(e, 0)
      BY <2>1, <2>2, Ranks DEF Pays, ShowsOrLeaves, Counted
    <2>4. Spares(Other(e), 0)
      BY <2>1, <2>2, <1>2, TwoEnds DEF Spares, WorkTypes, Counted
    <2>. QED
      BY <1>3, <2>3, <2>4
  <1>15. ASSUME NEW e \in Ends, Kernel(e)
         PROVE  Work' < Work
    <2>1. /\ UNCHANGED <<thread, receiver, handle, sent, outbound, events>>
          /\ rst[e] = "inflight" /\ rst'[e] = "arrived"
          /\ rst'[Other(e)] = rst[Other(e)] /\ wire'[e] = wire[e]
      BY <1>15, TwoEnds DEF Kernel, RstArrives, work, ui, TypeOK
    <2>2. Len(wire'[Other(e)]) <= Len(wire[Other(e)])
      <3>1. PICK n \in 0..Len(wire[Other(e)]) :
              wire'[Other(e)] = SubSeq(wire[Other(e)], 1, n)
        BY <1>15, TwoEnds DEF Kernel, RstArrives, TypeOK
      <3>2. wire[Other(e)] \in Seq(Frame)
        BY TwoEnds DEF TypeOK
      <3>. QED
        BY <3>1, <3>2, PrefixSeq
    <2>3. Pays(e, 0)
      BY <2>1, Ranks DEF Pays, ShowsOrLeaves, Counted
    <2>4. Spares(Other(e), 0)
      BY <2>1, <2>2, <1>2, TwoEnds DEF Spares, WorkTypes, Counted
    <2>. QED
      BY <1>3, <2>3, <2>4
  <1>. QED
    BY <1>4, <1>5, <1>7, <1>8, <1>9, <1>10, <1>11, <1>12, <1>13, <1>14, <1>15
    DEF Next, SessionThread, ReceiveThread, User


\* Whatever the threads and the users do, in whatever order, every step leaves
\* less to be done: no end of a chat answers a frame with a frame, or an event
\* with a message, for ever (run_session, receive_loop, drain_session_events).
THEOREM ChatWorkFalls == Spec => [][Work' < Work]_vars
  <1>1. IInv /\ [Next]_vars => [Work' < Work]_vars
    BY WorkStep
  <1>. QED
    BY <1>1, IInvAlways, PTL DEF Spec

LEMMA WorkNeverGrows ==
    ASSUME IInv, [Next]_vars
    PROVE  Work' \in Nat /\ Work' <= Work
  <1>1. TypeOK
    BY DEF IInv, Handshake, Ownership
  <1>2. TypeOK'
    BY <1>1, TypeStep
  <1>3. WorkTypes /\ WorkTypes'
    BY <1>1, <1>2, WorkTyped, PTL
  <1>4. Work \in Nat /\ Work' \in Nat
    BY <1>3 DEF Work, WorkTypes, Ends
  <1>5. UNCHANGED vars => Work' = Work
    BY DEF vars, tcp, work, ui, Work, EndWork
  <1>. QED
    BY <1>4, <1>5, WorkStep

Bounded == Work \in Nat /\ Work <= 24 + 8 * MaxSend

\* A chat in which each user sends n messages at most is over, or waits for a
\* user, after 2 * (12 + 4 * n) steps at the latest.
THEOREM ChatIsBounded == Spec => []Bounded
  <1>1. Init => Bounded
    <2>. SUFFICES ASSUME Init PROVE Bounded
      OBVIOUS
    <2>1. ASSUME NEW e \in Ends PROVE EndWork(e) = 12 + 4 * MaxSend
      <3>1. /\ thread[e] = "hello" /\ receiver[e] = "none" /\ rst[e] = "none"
            /\ handle[e] = "held" /\ sent[e] = 0 /\ outbound[e] = <<>>
            /\ wire[e] = <<>> /\ events[e] = <<>>
        BY <2>1 DEF Init, TcpInit
      <3>2. EndWork(e) = Cost(6, 2, 2, 2, MaxSend - 0, 0, 0, 0)
        BY <3>1, Ranks DEF EndWork
      <3>. QED
        BY <3>2, MaxSendAssumption DEF Cost
    <2>. QED
      BY <2>1, MaxSendAssumption DEF Bounded, Work, Ends
  <1>2. IInv /\ [Next]_vars => (Bounded => Bounded')
    BY WorkNeverGrows, MaxSendAssumption DEF Bounded
  <1>. QED
    BY <1>1, <1>2, IInvAlways, PTL DEF Spec

----------------------------------------------------------------------------
(* While anything is left that a thread may do, some of it is done.        *)

Less(k) == Work < k

SessionBusy(k, e) == Work = k /\ SessionCanStep(e)

ReceiverBusy(k, e) == Work = k /\ ReceiverCanStep(e)

UiBusy(k, e) == Work = k /\ UiCanStep(e)

KernelBusy(k, e) == Work = k /\ KernelCanStep(e)

EndBusy(k, e) ==
    SessionBusy(k, e) \/ ReceiverBusy(k, e) \/ UiBusy(k, e) \/ KernelBusy(k, e)

EndGetsOn(k, e) == EndBusy(k, e) ~> Less(k)

\* Whoever can go on is left alone by the others, or the work gets less.
LEMMA EndGoesOn ==
    ASSUME NEW k \in Nat, NEW e \in Ends
    PROVE  []IInv /\ [][Next]_vars /\ ThreadsFair(e) /\ []GuardsEnable =>
               EndGetsOn(k, e)
  <1>1. IInv /\ [Next]_vars =>
           /\ SessionBusy(k, e) => SessionBusy(k, e)' \/ Less(k)'
           /\ ReceiverBusy(k, e) => ReceiverBusy(k, e)' \/ Less(k)'
           /\ UiBusy(k, e) => UiBusy(k, e)' \/ Less(k)'
           /\ KernelBusy(k, e) => KernelBusy(k, e)' \/ Less(k)'
    <2>1. UNCHANGED vars => Work' = Work
      BY DEF vars, tcp, work, ui, Work, EndWork
    <2>2. UNCHANGED vars =>
              /\ SessionCanStep(e)' = SessionCanStep(e)
              /\ ReceiverCanStep(e)' = ReceiverCanStep(e)
              /\ UiCanStep(e)' = UiCanStep(e)
              /\ KernelCanStep(e)' = KernelCanStep(e)
      BY DEF vars, tcp, work, ui, SessionCanStep, ReceiverCanStep, UiCanStep, KernelCanStep,
             CanWrite, Closed, HasFrame, StreamOver, WriteFails
    <2>. QED
      BY <2>1, <2>2, WorkStep DEF SessionBusy, ReceiverBusy, UiBusy, KernelBusy, Less
  <1>2. /\ SessionThread(e) => Next
        /\ ReceiveThread(e) => Next
        /\ Drain(e) => Next
        /\ Kernel(e) => Next
    BY DEF Next
  <1>3. IInv =>
           /\ SessionBusy(k, e) /\ <<SessionThread(e)>>_vars => Less(k)'
           /\ ReceiverBusy(k, e) /\ <<ReceiveThread(e)>>_vars => Less(k)'
           /\ UiBusy(k, e) /\ <<Drain(e)>>_vars => Less(k)'
           /\ KernelBusy(k, e) /\ <<Kernel(e)>>_vars => Less(k)'
    BY <1>2, WorkStep DEF SessionBusy, ReceiverBusy, UiBusy, KernelBusy, Less
  <1>4. GuardsEnable =>
           /\ SessionGuardEnables(e) /\ ReceiverGuardEnables(e)
           /\ UiGuardEnables(e) /\ KernelGuardEnables(e)
    BY DEF GuardsEnable
  <1>5. /\ SessionBusy(k, e) => SessionCanStep(e)
        /\ ReceiverBusy(k, e) => ReceiverCanStep(e)
        /\ UiBusy(k, e) => UiCanStep(e)
        /\ KernelBusy(k, e) => KernelCanStep(e)
    BY DEF SessionBusy, ReceiverBusy, UiBusy, KernelBusy
  <1>. DEFINE Env == []IInv /\ [][Next]_vars /\ ThreadsFair(e) /\ []GuardsEnable
  <1>6. Env => (SessionBusy(k, e) ~> Less(k))
    BY <1>1, <1>3, <1>4, <1>5, PTL DEF ThreadsFair, SessionGuardEnables
  <1>7. Env => (ReceiverBusy(k, e) ~> Less(k))
    BY <1>1, <1>3, <1>4, <1>5, PTL DEF ThreadsFair, ReceiverGuardEnables
  <1>8. Env => (UiBusy(k, e) ~> Less(k))
    BY <1>1, <1>3, <1>4, <1>5, PTL DEF ThreadsFair, UiGuardEnables
  <1>9. Env => (KernelBusy(k, e) ~> Less(k))
    BY <1>1, <1>3, <1>4, <1>5, PTL DEF ThreadsFair, KernelGuardEnables
  <1>. QED
    BY <1>6, <1>7, <1>8, <1>9, PTL DEF EndGetsOn, EndBusy

\* Whatever is left to do, either some of it is done or the chat has settled
\* what it owes its users: everything sent is shown, who stays knows that the
\* other quit, and the socket of who left is closed.
THEOREM ChatGoesOn ==
    ASSUME NEW k \in Nat
    PROVE  FairSpec /\ []GuardsEnable => (Work = k ~> Work < k \/ Settled)
  <1>1. FairSpec => Spec /\ ThreadsFair("host") /\ ThreadsFair("joiner")
    BY DEF FairSpec, Fairness, Ends
  <1>2. Spec => []IInv /\ [][Next]_vars /\ [](Idle => Settled)
    BY IInvAlways, IdleIsSettled, PTL DEF Spec
  <1>3. Work = k => EndBusy(k, "host") \/ EndBusy(k, "joiner") \/ Idle
    BY DEF EndBusy, SessionBusy, ReceiverBusy, UiBusy, KernelBusy, Idle, Ends
  <1>4. ASSUME NEW e \in Ends
        PROVE  FairSpec /\ []GuardsEnable /\ ThreadsFair(e) => EndGetsOn(k, e)
    BY <1>1, <1>2, EndGoesOn, PTL
  <1>5. FairSpec /\ []GuardsEnable => EndGetsOn(k, "host") /\ EndGetsOn(k, "joiner")
    BY <1>1, <1>4 DEF Ends
  <1>6. Less(k) => Work < k
    BY DEF Less
  <1>. QED
    BY <1>1, <1>2, <1>3, <1>5, <1>6, PTL DEF EndGetsOn

----------------------------------------------------------------------------
(* What has been settled stays settled, so settling again and again is all *)
(* that the users are promised.                                            *)

\* Nobody takes a message, a departure or an exit back.
LEMMA Lasting ==
    ASSUME NEW e \in Ends, NEW n \in Nat
    PROVE  TypeOK /\ [Next]_vars =>
              /\ sent[e] >= n => sent'[e] >= n
              /\ handle[e] = "exited" => handle'[e] = "exited"
              /\ handle[e] = "dropped" => handle'[e] # "held"
  <1>. SUFFICES ASSUME TypeOK, [Next]_vars
                PROVE  /\ sent[e] >= n => sent'[e] >= n
                       /\ handle[e] = "exited" => handle'[e] = "exited"
                       /\ handle[e] = "dropped" => handle'[e] # "held"
    OBVIOUS
  <1>1. CASE UNCHANGED vars
    BY <1>1 DEF vars, tcp, work, ui
  <1>2. ASSUME NEW d \in Ends, SessionThread(d) \/ ReceiveThread(d) \/ Kernel(d) \/ Drain(d)
        PROVE  handle' = handle /\ sent' = sent
    BY <1>2 DEF SessionThread, SendHello, RecvHello, RejectHello, HelloNeverCame, Fail,
                SendChat, SendChatFails, SendLoopEnds, ReceiveThread, Receive, ReceiveEnds,
                Kernel, Drain, ui
  <1>3. ASSUME NEW d \in Ends, SendMessage(d)
        PROVE  handle' = handle /\ sent'[e] >= sent[e] /\ sent'[e] \in Nat
    BY <1>3 DEF SendMessage, TypeOK
  <1>4. ASSUME NEW d \in Ends, ReplaceChat(d)
        PROVE  /\ sent' = sent
               /\ handle'[e] = handle[e] \/ (handle[e] = "held" /\ handle'[e] = "dropped")
    BY <1>4 DEF ReplaceChat, TypeOK
  <1>5. ASSUME NEW d \in Ends, Exit(d)
        PROVE  sent' = sent /\ (handle'[e] = handle[e] \/ handle'[e] = "exited")
    BY <1>5 DEF Exit, TypeOK
  <1>. QED
    BY SMTT(30), <1>1, <1>2, <1>3, <1>4, <1>5, MaxSendAssumption DEF Next, User, TypeOK

SettlesAgain == []<>Settled

LEMMA SentLasts ==
    ASSUME NEW e \in Ends, NEW n \in 1..MaxSend
    PROVE  Spec /\ SettlesAgain =>
               (sent[e] >= n ~> Len(shown[Other(e)]) >= n \/ Broken(e))
  <1>. DEFINE Sent == sent[e] >= n
              Done == Len(shown[Other(e)]) >= n \/ Broken(e)
  <1>1. IInv /\ [Next]_vars => (Sent => Sent')
    BY Lasting, MaxSendAssumption DEF IInv, Handshake, Ownership
  <1>2. IInv /\ Settled => (Sent => Done)
    <2>. SUFFICES ASSUME IInv, Settled, Sent PROVE Done
      OBVIOUS
    <2>1. sent[e] \in Nat /\ shown[Other(e)] \in Seq(1..MaxSend)
      BY TwoEnds, MaxSendAssumption DEF IInv, Handshake, Ownership, TypeOK
    <2>2. Len(shown[Other(e)]) \in Nat /\ n \in Nat
      BY <2>1, MaxSendAssumption
    <2>3. sent[e] <= Len(shown[Other(e)]) \/ Broken(e)
      BY DEF Settled, Delivered
    <2>. QED
      BY <2>1, <2>2, <2>3
  <1>. HIDE DEF Sent, Done
  <1>3. Spec /\ SettlesAgain => (Sent ~> Done)
    BY <1>1, <1>2, IInvAlways, PTL DEF Spec, SettlesAgain
  <1>. QED
    BY <1>3 DEF Sent, Done

LEMMA ExitLasts ==
    ASSUME NEW e \in Ends
    PROVE  /\ Spec /\ SettlesAgain =>
                (handle[Other(e)] = "exited" ~>
                    handle[e] # "held" \/ status[e] \in {"closed", "error"})
           /\ Spec /\ SettlesAgain =>
                (handle[Other(e)] = "exited" /\ handle[e] = "dropped" ~> Closed(e))
  <1>. DEFINE Gone == handle[Other(e)] = "exited"
              Left == handle[Other(e)] = "exited" /\ handle[e] # "held"
              Told1 == handle[e] # "held" \/ status[e] \in {"closed", "error"}
              Both == handle[Other(e)] = "exited" /\ handle[e] = "dropped"
              Free == Closed(e)
  <1>1. IInv /\ [Next]_vars => (Gone => Gone') /\ (Left => Left')
    <2>. SUFFICES ASSUME IInv, [Next]_vars PROVE (Gone => Gone') /\ (Left => Left')
      OBVIOUS
    <2>1. TypeOK /\ 0 \in Nat /\ Other(e) \in Ends
      BY TwoEnds DEF IInv, Handshake, Ownership
    <2>2. handle[e] \in {"held", "dropped", "exited"}
      BY <2>1 DEF TypeOK
    <2>. QED
      BY <2>1, <2>2, Lasting
  <1>2. IInv /\ Settled => (Gone => Told1) /\ (Left => Free)
    <2>. SUFFICES ASSUME IInv, Settled PROVE (Gone => Told1) /\ (Left => Free)
      OBVIOUS
    <2>1. Noticed(e) /\ Freed(e)
      BY DEF Settled
    <2>2. handle[e] \in {"held", "dropped", "exited"}
      BY DEF IInv, Handshake, Ownership, TypeOK
    <2>. QED
      BY <2>1, <2>2, ExitedIsClosed DEF Noticed, Freed
  <1>3. Both => Left
    OBVIOUS
  <1>. HIDE DEF Gone, Left, Told1, Both, Free
  <1>4. Spec /\ SettlesAgain => (Gone ~> Told1)
    BY <1>1, <1>2, IInvAlways, PTL DEF Spec, SettlesAgain
  <1>5. Spec /\ SettlesAgain => (Both ~> Free)
    BY <1>1, <1>2, <1>3, IInvAlways, PTL DEF Spec, SettlesAgain
  <1>. QED
    BY <1>4, <1>5 DEF Gone, Told1, Both, Free

\* A chat that settles again and again keeps the three promises that take
\* fairness: a message is shown, an exit is noticed, a socket is freed.
THEOREM SettlingSuffices ==
    Spec /\ SettlesAgain => SentIsShown /\ ExitNoticed /\ SocketFreed
  <1>1. Spec /\ SettlesAgain => SentIsShown
    <2>. SUFFICES ASSUME NEW e \in Ends, NEW n \in 1..MaxSend
                  PROVE  Spec /\ SettlesAgain =>
                             (sent[e] >= n ~> Len(shown[Other(e)]) >= n \/ Broken(e))
      BY DEF SentIsShown
    <2>. QED
      BY SentLasts
  <1>2. Spec /\ SettlesAgain => ExitNoticed
    <2>. SUFFICES ASSUME NEW e \in Ends
                  PROVE  Spec /\ SettlesAgain =>
                             (handle[Other(e)] = "exited" ~>
                                handle[e] # "held" \/ status[e] \in {"closed", "error"})
      BY DEF ExitNoticed
    <2>. QED
      BY ExitLasts
  <1>3. Spec /\ SettlesAgain => SocketFreed
    <2>. SUFFICES ASSUME NEW e \in Ends
                  PROVE  Spec /\ SettlesAgain =>
                             (handle[Other(e)] = "exited" /\ handle[e] = "dropped" ~> Closed(e))
      BY DEF SocketFreed
    <2>. QED
      BY ExitLasts
  <1>. QED
    BY <1>1, <1>2, <1>3

=============================================================================
