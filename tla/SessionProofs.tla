--------------------------- MODULE SessionProofs ---------------------------
(***************************************************************************)
(* Proofs about Session for every set of identities, every socket capacity *)
(* and every bound on the messages sent.                                   *)
(***************************************************************************)
EXTENDS SessionInv, SequenceTheorems, TLAPS

----------------------------------------------------------------------------
(* The two ends, and sequences.                                            *)

LEMMA TwoEnds == \A e \in Ends :
    /\ Other(e) \in Ends
    /\ Other(e) # e
    /\ Other(Other(e)) = e
    /\ \A f \in Ends : f = e \/ f = Other(e)
  BY DEF Ends, Other

LEMMA AppendSeq == \A S : \A q \in Seq(S) : \A x \in S :
    /\ Append(q, x) \in Seq(S)
    /\ Len(Append(q, x)) = Len(q) + 1
    /\ Len(q) \in Nat /\ DOMAIN q = 1..Len(q) /\ DOMAIN Append(q, x) = 1..(Len(q) + 1)
    /\ Append(q, x)[Len(q) + 1] = x
    /\ \A i \in 1..Len(q) : Append(q, x)[i] = q[i]
  OBVIOUS

LEMMA TailSeq == \A S : \A q \in Seq(S) : q # <<>> =>
    /\ Tail(q) \in Seq(S)
    /\ Len(q) \in Nat /\ Len(q) >= 1 /\ DOMAIN q = 1..Len(q)
    /\ Len(Tail(q)) = Len(q) - 1 /\ DOMAIN Tail(q) = 1..(Len(q) - 1)
    /\ Head(q) = q[1]
    /\ q[1] \in S
    /\ \A i \in 1..Len(Tail(q)) : Tail(q)[i] = q[i + 1]
  OBVIOUS

\* What is left of a sequence after its first element, and a prefix of it.
LEMMA RestSeq == \A S : \A q \in Seq(S) :
    /\ SubSeq(q, 2, Len(q)) \in Seq(S)
    /\ Len(SubSeq(q, 2, Len(q))) = IF q = <<>> THEN 0 ELSE Len(q) - 1
    /\ Len(q) \in Nat /\ DOMAIN q = 1..Len(q)
    /\ q # <<>> => Len(q) >= 1 /\ DOMAIN SubSeq(q, 2, Len(q)) = 1..(Len(q) - 1)
    /\ \A i \in 1..Len(SubSeq(q, 2, Len(q))) : SubSeq(q, 2, Len(q))[i] = q[i + 1]
  OBVIOUS

LEMMA PrefixSeq == \A S : \A q \in Seq(S) : \A n \in 0..Len(q) :
    /\ SubSeq(q, 1, n) \in Seq(S)
    /\ Len(SubSeq(q, 1, n)) = n
    /\ Len(q) \in Nat /\ DOMAIN q = 1..Len(q) /\ DOMAIN SubSeq(q, 1, n) = 1..n
    /\ \A i \in 1..n : SubSeq(q, 1, n)[i] = q[i]
  OBVIOUS
----------------------------------------------------------------------------
(* Type correctness.                                                       *)

LEMMA FrameTypes ==
    /\ \A i \in Identity, e \in Ends : CreateHello(i, e) \in Frame
    /\ \A k \in SUBSET Ends, n \in 1..MaxSend : Encrypt(k, n) \in Frame
    /\ \A f \in Frame : f.kind = "chat" => f.body \in 1..MaxSend
    /\ \A f \in Frame : f.kind # "chat" => f.exchange_public_key \in Ends
  BY DEF Frame, CreateHello, Encrypt

LEMMA EventTypes ==
    /\ \A k \in {"Connected", "Disconnected", "Error"} : Event(k, 0) \in EventType
    /\ \A n \in 1..MaxSend : Event("Incoming", n) \in EventType
    /\ \A v \in EventType : v.kind = "Incoming" => v.body \in 1..MaxSend
  BY DEF EventType, Event

TcpTypeOK ==
    /\ wire \in [Ends -> Seq(Frame)]
    /\ open \in [Ends -> SUBSET Handles]
    /\ rst \in [Ends -> {"none", "inflight", "arrived"}]

LEMMA WriteType ==
    ASSUME TcpTypeOK, NEW e \in Ends, NEW f \in Frame, Write(e, f)
    PROVE  TcpTypeOK'
  <1>1. Append(wire[e], f) \in Seq(Frame)
    BY AppendSeq DEF TcpTypeOK
  <1>. QED
    BY <1>1 DEF TcpTypeOK, Write

LEMMA ConsumeType ==
    ASSUME TcpTypeOK, NEW e \in Ends, Consume(e), UNCHANGED <<open, rst>>
    PROVE  TcpTypeOK'
  BY TwoEnds, RestSeq DEF TcpTypeOK, Consume, Unread

LEMMA UnreadType ==
    ASSUME TcpTypeOK, NEW e \in Ends
    PROVE  Unread(e) \in Seq(Frame) /\ wire[Other(e)] \in Seq(Frame)
  BY TwoEnds, RestSeq DEF TcpTypeOK, Unread

LEMMA DropType ==
    ASSUME TcpTypeOK, NEW e \in Ends, NEW hs, NEW unread \in Seq(Frame),
           DropWith(e, hs, unread)
    PROVE  TcpTypeOK'
  <1>1. /\ open' \in [Ends -> SUBSET Handles]
        /\ rst' \in [Ends -> {"none", "inflight", "arrived"}]
    BY TwoEnds DEF TcpTypeOK, DropWith
  <1>2. wire' \in [Ends -> Seq(Frame)]
    <2>1. \/ wire' = [wire EXCEPT ![Other(e)] = unread]
          \/ wire' = [wire EXCEPT ![Other(e)] = <<>>]
      BY DEF DropWith
    <2>. QED
      BY <2>1, TwoEnds, EmptySeq DEF TcpTypeOK
  <1>. QED
    BY <1>1, <1>2 DEF TcpTypeOK

LEMMA RstType ==
    ASSUME TcpTypeOK, NEW e \in Ends, RstArrives(e)
    PROVE  TcpTypeOK'
  BY TwoEnds, PrefixSeq DEF TcpTypeOK, RstArrives

LEMMA EmitType ==
    ASSUME events \in [Ends -> Seq(EventType)], NEW e \in Ends,
           NEW v \in EventType, Emit(e, v)
    PROVE  events' \in [Ends -> Seq(EventType)]
  BY AppendSeq DEF Emit

LEMMA FailType ==
    ASSUME TypeOK, NEW e \in Ends, NEW hs, NEW unread \in Seq(Frame),
           Fail(e, hs, unread)
    PROVE  TypeOK'
  <1>1. TcpTypeOK'
    BY DropType DEF TypeOK, TcpTypeOK, Fail
  <1>2. events' \in [Ends -> Seq(EventType)]
    BY EmitType, EventTypes DEF TypeOK, Fail
  <1>. QED
    BY <1>1, <1>2, EmptySeq DEF TypeOK, TcpTypeOK, Fail, ids, ui

LEMMA TypeStep == TypeOK /\ [Next]_vars => TypeOK'
  <1>. SUFFICES ASSUME TypeOK, [Next]_vars
                PROVE  TypeOK'
    OBVIOUS
  <1>. TcpTypeOK
    BY DEF TypeOK, TcpTypeOK
  <1>1. CASE UNCHANGED vars
    BY <1>1 DEF TypeOK, vars, tcp, ids, work, ui
  <1>2. ASSUME NEW e \in Ends, SendHello(e)
        PROVE  TypeOK'
    <2>1. TcpTypeOK'
      BY <1>2, WriteType, FrameTypes DEF SendHello, TypeOK
    <2>. QED
      BY <1>2, <2>1 DEF SendHello, TypeOK, TcpTypeOK, ids, ui, Running, Waiting
  <1>3. ASSUME NEW e \in Ends, RecvHello(e)
        PROVE  TypeOK'
    <2>1. TcpTypeOK'
      BY <1>3, ConsumeType DEF RecvHello
    <2>2. events' \in [Ends -> Seq(EventType)]
      BY <1>3, EmitType, EventTypes DEF RecvHello, TypeOK
    <2>3. NextFrame(e) \in Frame /\ NextFrame(e).kind # "chat"
      BY <1>3, TwoEnds, TailSeq DEF RecvHello, Accepts, NextFrame, HasFrame, TcpTypeOK
    <2>4. DeriveSessionKey(e, NextFrame(e).exchange_public_key) \subseteq Ends
      BY <2>3, FrameTypes DEF DeriveSessionKey
    <2>. QED
      BY <1>3, <2>1, <2>2, <2>4 DEF RecvHello, TypeOK, TcpTypeOK, ids, ui, Running, Waiting
  <1>4. ASSUME NEW e \in Ends, RejectHello(e) \/ HelloNeverCame(e)
        PROVE  TypeOK'
    BY <1>4, UnreadType, FailType DEF RejectHello, HelloNeverCame
  <1>5. ASSUME NEW e \in Ends, SendChat(e)
        PROVE  TypeOK'
    <2>1. /\ Head(outbound[e]) \in 1..MaxSend
          /\ outbound' \in [Ends -> Seq(1..MaxSend)]
      <3>1. outbound[e] \in Seq(1..MaxSend) /\ outbound[e] # <<>>
        BY <1>5 DEF SendChat, TypeOK
      <3>2. Head(outbound[e]) \in 1..MaxSend /\ Tail(outbound[e]) \in Seq(1..MaxSend)
        BY <3>1, HeadTailProperties
      <3>. QED
        BY <1>5, <3>2 DEF SendChat, TypeOK
    <2>2. TcpTypeOK'
      BY <1>5, <2>1, WriteType, FrameTypes DEF SendChat, TypeOK
    <2>. QED
      BY <1>5, <2>1, <2>2 DEF SendChat, TypeOK, TcpTypeOK, ids, work, ui
  <1>6. ASSUME NEW e \in Ends, SendChatFails(e)
        PROVE  TypeOK'
    BY <1>6, UnreadType, FailType DEF SendChatFails
  <1>7. ASSUME NEW e \in Ends, SendLoopEnds(e)
        PROVE  TypeOK'
    <2>1. TcpTypeOK'
      BY <1>7, UnreadType, DropType DEF SendLoopEnds, Drop
    <2>. QED
      BY <1>7, <2>1 DEF SendLoopEnds, TypeOK, TcpTypeOK, ids, ui, Running, Waiting
  <1>8. ASSUME NEW e \in Ends, Receive(e)
        PROVE  TypeOK'
    <2>1. TcpTypeOK'
      BY <1>8, ConsumeType DEF Receive
    <2>2. NextFrame(e) \in Frame /\ NextFrame(e).kind = "chat"
      BY <1>8, TwoEnds, TailSeq DEF Receive, Decrypts, NextFrame, HasFrame, TcpTypeOK
    <2>3. Event("Incoming", NextFrame(e).body) \in EventType
      BY <2>2, FrameTypes, EventTypes
    <2>4. events' \in [Ends -> Seq(EventType)]
      BY <1>8, <2>3, EmitType DEF Receive, TypeOK
    <2>. QED
      BY <1>8, <2>1, <2>4 DEF Receive, TypeOK, TcpTypeOK, ids, work, ui
  <1>9. ASSUME NEW e \in Ends, ReceiveEnds(e)
        PROVE  TypeOK'
    <2>1. TcpTypeOK'
      BY <1>9, UnreadType, DropType DEF ReceiveEnds
    <2>2. events' \in [Ends -> Seq(EventType)]
      BY <1>9, EmitType, EventTypes DEF ReceiveEnds, TypeOK
    <2>. QED
      BY <1>9, <2>1, <2>2 DEF ReceiveEnds, TypeOK, TcpTypeOK, ids, ui
  <1>10. ASSUME NEW e \in Ends, SendMessage(e)
         PROVE  TypeOK'
    <2>1. sent[e] + 1 \in 1..MaxSend
      BY <1>10, MaxSendAssumption DEF SendMessage, TypeOK
    <2>2. outbound' \in [Ends -> Seq(1..MaxSend)]
      BY <1>10, <2>1, AppendSeq DEF SendMessage, TypeOK
    <2>. QED
      BY <1>10, <2>1, <2>2 DEF SendMessage, TypeOK, tcp, ids, work
  <1>11. ASSUME NEW e \in Ends, Drain(e)
         PROVE  TypeOK'
    <2>1. /\ Head(events[e]) \in EventType
          /\ events' \in [Ends -> Seq(EventType)]
      BY <1>11, TailSeq DEF Drain, TypeOK
    <2>2. shown' \in [Ends -> Seq(1..MaxSend)]
      <3>1. \/ UNCHANGED shown
            \/ /\ Head(events[e]).body \in 1..MaxSend
               /\ shown' = [shown EXCEPT ![e] = Append(@, Head(events[e]).body)]
        BY <1>11, <2>1, EventTypes DEF Drain
      <3>2. \A n \in 1..MaxSend : Append(shown[e], n) \in Seq(1..MaxSend)
        BY DEF TypeOK
      <3>. QED
        BY ZenonT(40), <3>1, <3>2 DEF TypeOK
    <2>. QED
      BY ZenonT(40), <1>11, <2>1, <2>2 DEF Drain, TypeOK, tcp, ids, work
  <1>12. ASSUME NEW e \in Ends, ReplaceChat(e)
         PROVE  TypeOK'
    BY <1>12 DEF ReplaceChat, TypeOK, tcp, ids, work
  <1>13. ASSUME NEW e \in Ends, Exit(e)
         PROVE  TypeOK'
    <2>1. TcpTypeOK'
      BY <1>13, UnreadType, DropType DEF Exit, Drop
    <2>. QED
      BY <1>13, <2>1, EmptySeq DEF Exit, TypeOK, TcpTypeOK, ids, ui
  <1>14. ASSUME NEW e \in Ends, Kernel(e)
         PROVE  TypeOK'
    <2>1. TcpTypeOK'
      BY <1>14, RstType DEF Kernel
    <2>. QED
      BY <1>14, <2>1 DEF Kernel, TypeOK, TcpTypeOK, ids, work, ui
  <1>. QED
    BY <1>1, <1>2, <1>3, <1>4, <1>5, <1>6, <1>7, <1>8, <1>9, <1>10, <1>11,
       <1>12, <1>13, <1>14
    DEF Next, SessionThread, ReceiveThread, User

LEMMA TypeInit == Init => TypeOK
  BY MaxSendAssumption DEF Init, TcpInit, TypeOK, Running, Waiting, Ends, Handles

\* Every variable keeps its type, however the threads interleave and whatever
\* of the socket's traffic a reset destroys.
THEOREM TypeCorrect == Spec => []TypeOK
  BY TypeInit, TypeStep, PTL DEF Spec

----------------------------------------------------------------------------
(* Ownership of the socket.                                                *)

LEMMA DropOwns ==
    ASSUME TcpTypeOK, NEW e \in Ends, NEW hs \in SUBSET Handles, NEW unread,
           DropWith(e, hs, unread), \A f \in Ends : ResetAfterClose(f)
    PROVE  /\ open'[e] = open[e] \ hs
           /\ open'[Other(e)] = open[Other(e)]
           /\ \A f \in Ends : ResetAfterClose(f)'
  <1>1. /\ open'[e] = open[e] \ hs
        /\ open'[Other(e)] = open[Other(e)]
    BY TwoEnds DEF DropWith, TcpTypeOK
  <1>2. ResetAfterClose(e)'
    <2>1. rst'[e] = rst[e]
      BY TwoEnds DEF DropWith, TcpTypeOK
    <2>. QED
      BY <1>1, <2>1, TwoEnds DEF ResetAfterClose, Closed
  <1>3. ResetAfterClose(Other(e))'
    <2>1. rst'[Other(e)] # "none" => rst[Other(e)] # "none" \/ open[e] \ hs = {}
      BY TwoEnds DEF DropWith, TcpTypeOK
    <2>. QED
      BY <1>1, <2>1, TwoEnds DEF ResetAfterClose, Closed
  <1>. QED
    BY <1>1, <1>2, <1>3, TwoEnds

LEMMA WriteOwns ==
    ASSUME TcpTypeOK, NEW e \in Ends, NEW frame, Write(e, frame),
           \A f \in Ends : ResetAfterClose(f)
    PROVE  open' = open /\ \A f \in Ends : ResetAfterClose(f)'
  <1>1. /\ open' = open
        /\ \/ rst' = rst
           \/ rst' = [rst EXCEPT ![e] = "inflight"] /\ Closed(Other(e))
    BY DEF Write
  <1>. QED
    BY <1>1 DEF ResetAfterClose, Closed, TcpTypeOK

LEMMA EmitOwns ==
    ASSUME events \in [Ends -> Seq(EventType)], NEW e \in Ends, NEW v, Emit(e, v)
    PROVE  /\ events'[Other(e)] = events[Other(e)]
           /\ handle[e] # "held" => events' = events
           /\ handle[e] = "held" => events'[e] = Append(events[e], v)
  BY TwoEnds DEF Emit

LEMMA OwnershipStep == Ownership /\ [Next]_vars => Ownership'
  <1>. SUFFICES ASSUME Ownership, [Next]_vars, NEW f \in Ends
                PROVE  Owns(f)' /\ ResetAfterClose(f)'
    BY TypeStep DEF Ownership
  <1>. TypeOK /\ TcpTypeOK
    BY DEF Ownership, TypeOK, TcpTypeOK
  <1>. \A e \in Ends : Owns(e) /\ ResetAfterClose(e)
    BY DEF Ownership
  <1>. USE DEF Running, Waiting
  <1>1. CASE UNCHANGED vars
    BY <1>1 DEF Owns, ResetAfterClose, Closed, vars, tcp, ids, work, ui
  <1>2. ASSUME NEW e \in Ends, SendHello(e)
        PROVE  Owns(f)' /\ ResetAfterClose(f)'
    <2>1. UNCHANGED <<open, receiver, key, handle, events>>
      BY <1>2 DEF SendHello, Write, ui
    <2>2. ResetAfterClose(f)'
      <3>1. rst'[f] = rst[f] \/ Closed(Other(f))
        BY <1>2 DEF SendHello, Write, TypeOK
      <3>. QED
        BY <2>1, <3>1 DEF ResetAfterClose, Closed
    <2>3. \/ thread'[f] = thread[f]
          \/ thread[f] = "hello" /\ thread'[f] = "await"
      BY <1>2 DEF SendHello, TypeOK
    <2>4. Owns(f)'
      BY <2>1, <2>3 DEF Owns
    <2>. QED
      BY <2>2, <2>4
  <1>3. ASSUME NEW e \in Ends, RecvHello(e)
        PROVE  Owns(f)' /\ ResetAfterClose(f)'
    BY SMTT(30), <1>3, EmitOwns, TwoEnds
    DEF RecvHello, Owns, ResetAfterClose, Closed, TypeOK, ids, ui
  <1>4. ASSUME NEW e \in Ends, NEW hs \in {Handles, {"writer"}}, NEW unread,
               Fail(e, hs, unread),
               \/ thread[e] = "await" /\ hs = Handles
               \/ thread[e] = "chat" /\ hs = {"writer"}
        PROVE  Owns(f)' /\ ResetAfterClose(f)'
    <2>1. /\ open'[e] = open[e] \ hs
          /\ open'[Other(e)] = open[Other(e)]
          /\ ResetAfterClose(f)'
      BY <1>4, DropOwns DEF Fail, Handles
    <2>2. Owns(f)'
      <3>1. /\ events'[Other(e)] = events[Other(e)]
            /\ handle[e] # "held" => events' = events
        BY <1>4, EmitOwns DEF Fail, TypeOK
      <3>2. CASE f = e
        BY <1>4, <2>1, <3>1, <3>2 DEF Fail, Owns, TypeOK, Handles, ids, ui
      <3>3. CASE f = Other(e)
        BY <1>4, <2>1, <3>1, <3>3, TwoEnds DEF Fail, Owns, TypeOK, ids, ui
      <3>. QED
        BY <3>2, <3>3, TwoEnds
    <2>. QED
      BY <2>1, <2>2
  <1>5. ASSUME NEW e \in Ends, SendChat(e)
        PROVE  Owns(f)' /\ ResetAfterClose(f)'
    <2>1. Owns(f)'
      BY <1>5, TwoEnds DEF SendChat, Owns, TypeOK, Write, ids, work, ui
    <2>2. ResetAfterClose(f)'
      BY <1>5, WriteOwns DEF SendChat
    <2>. QED
      BY <2>1, <2>2
  <1>6. ASSUME NEW e \in Ends, SendLoopEnds(e)
        PROVE  Owns(f)' /\ ResetAfterClose(f)'
    <2>1. /\ open'[e] = open[e] \ {"writer"}
          /\ open'[Other(e)] = open[Other(e)]
          /\ ResetAfterClose(f)'
      BY <1>6, DropOwns DEF SendLoopEnds, Drop, Handles
    <2>2. Owns(f)'
      BY SMTT(30), <1>6, <2>1, TwoEnds DEF SendLoopEnds, Owns, TypeOK, ids, ui
    <2>. QED
      BY <2>1, <2>2
  <1>7. ASSUME NEW e \in Ends, Receive(e)
        PROVE  Owns(f)' /\ ResetAfterClose(f)'
    <2>1. Owns(f)'
      <3>1. /\ events'[Other(e)] = events[Other(e)]
            /\ handle[e] # "held" => events' = events
        BY <1>7, EmitOwns DEF Receive, TypeOK
      <3>. QED
        BY <1>7, <3>1, TwoEnds DEF Receive, Owns, ids, work, ui
    <2>2. ResetAfterClose(f)'
      BY <1>7, TwoEnds DEF Receive, ResetAfterClose, Closed, TypeOK, ids, work, ui
    <2>. QED
      BY <2>1, <2>2
  <1>8. ASSUME NEW e \in Ends, ReceiveEnds(e)
        PROVE  Owns(f)' /\ ResetAfterClose(f)'
    <2>1. /\ open'[e] = open[e] \ {"reader"}
          /\ open'[Other(e)] = open[Other(e)]
          /\ ResetAfterClose(f)'
      BY <1>8, DropOwns DEF ReceiveEnds, Handles
    <2>2. Owns(f)'
      BY SMTT(30), <1>8, <2>1, EmitOwns, TwoEnds DEF ReceiveEnds, Owns, TypeOK, ids, ui
    <2>. QED
      BY <2>1, <2>2
  <1>9. ASSUME NEW e \in Ends, SendMessage(e)
        PROVE  Owns(f)' /\ ResetAfterClose(f)'
    BY <1>9 DEF SendMessage, Owns, ResetAfterClose, Closed, tcp, ids, work
  <1>10. ASSUME NEW e \in Ends, Drain(e)
         PROVE  Owns(f)' /\ ResetAfterClose(f)'
    BY <1>10 DEF Drain, Owns, ResetAfterClose, Closed, TypeOK, tcp, ids, work
  <1>11. ASSUME NEW e \in Ends, ReplaceChat(e)
         PROVE  Owns(f)' /\ ResetAfterClose(f)'
    BY <1>11 DEF ReplaceChat, Owns, ResetAfterClose, Closed, TypeOK, tcp, ids, work
  <1>12. ASSUME NEW e \in Ends, Exit(e)
         PROVE  Owns(f)' /\ ResetAfterClose(f)'
    <2>1. /\ open'[e] = open[e] \ Handles
          /\ open'[Other(e)] = open[Other(e)]
          /\ ResetAfterClose(f)'
      BY <1>12, DropOwns DEF Exit, Drop
    <2>2. Owns(f)'
      BY SMTT(30), <1>12, <2>1, TwoEnds DEF Exit, Owns, TypeOK, Handles, ids, ui
    <2>. QED
      BY <2>1, <2>2
  <1>13. ASSUME NEW e \in Ends, Kernel(e)
         PROVE  Owns(f)' /\ ResetAfterClose(f)'
    <2>1. Owns(f)'
      BY <1>13, TwoEnds DEF Kernel, Owns, TypeOK, RstArrives, ids, work, ui
    <2>2. ResetAfterClose(f)'
      BY SMTT(30), <1>13, TwoEnds DEF Kernel, ResetAfterClose, Closed, TypeOK, RstArrives
    <2>. QED
      BY <2>1, <2>2
  <1>14. ASSUME NEW e \in Ends, RejectHello(e) \/ HelloNeverCame(e) \/ SendChatFails(e)
         PROVE  Owns(f)' /\ ResetAfterClose(f)'
    BY <1>14, <1>4 DEF RejectHello, HelloNeverCame, SendChatFails
  <1>. QED
    BY <1>1, <1>2, <1>3, <1>5, <1>6, <1>7, <1>8, <1>9, <1>10, <1>11, <1>12, <1>13, <1>14
    DEF Next, SessionThread, ReceiveThread, User

LEMMA OwnershipInit == Init => Ownership
  BY TypeInit DEF Init, TcpInit, Ownership, Owns, ResetAfterClose, Running, Waiting,
     Handles

----------------------------------------------------------------------------
(* The handshake: one key at both ends, and the host that was invited.     *)

\* WireFrames of one direction survives when what is on the wire is at most
\* cut short and no thread of its two ends starts anything.
LEMMA FramesKept ==
    ASSUME Ownership, NEW f \in Ends, WireFrames(f), identity' = identity,
           thread'[f] \in {thread[f], "ended", "failed"},
           thread'[Other(f)] \in {thread[Other(f)], "ended", "failed"},
           receiver'[Other(f)] \in {receiver[Other(f)], "ended"},
           \/ wire'[f] = wire[f]
           \/ wire'[f] = <<>> /\ thread'[Other(f)] \notin Waiting
           \/ /\ thread[f] \notin Running
              /\ \E n \in 0..Len(wire[f]) : wire'[f] = SubSeq(wire[f], 1, n)
    PROVE  WireFrames(f)'
  <1>. wire[f] \in Seq(Frame) /\ Owns(Other(f))
    BY TwoEnds DEF Ownership, TypeOK
  <1>. USE DEF Running, Waiting
  <1>. DEFINE o == Other(f)
  <1>0. MayRead(o)' => MayRead(o) /\ (thread'[o] \in Waiting <=> thread[o] \in Waiting)
    BY DEF MayRead, Owns
  <1>1. CASE wire'[f] = wire[f]
    BY <1>0, <1>1 DEF WireFrames
  <1>2. CASE wire'[f] = <<>> /\ thread'[Other(f)] \notin Waiting
    BY <1>2 DEF WireFrames
  <1>3. ASSUME thread[f] \notin Running, NEW n \in 0..Len(wire[f]),
               wire'[f] = SubSeq(wire[f], 1, n)
        PROVE  WireFrames(f)'
    <2>1. /\ DOMAIN wire'[f] = 1..n
          /\ DOMAIN wire[f] = 1..Len(wire[f])
          /\ \A i \in 1..n : wire'[f][i] = wire[f][i]
      BY <1>3
    <2>. QED
      BY <1>0, <1>3, <2>1 DEF WireFrames
  <1>. QED
    BY <1>1, <1>2, <1>3

LEMMA DropFrames ==
    ASSUME Ownership, \A f \in Ends : WireFrames(f), identity' = identity,
           NEW e \in Ends, NEW hs, NEW unread, DropWith(e, hs, unread),
           thread'[Other(e)] = thread[Other(e)],
           receiver'[Other(e)] = receiver[Other(e)],
           thread'[e] \in {thread[e], "ended", "failed"},
           receiver'[e] \in {receiver[e], "ended"},
           open[e] \ hs = {} => thread'[e] \notin Waiting,
           \/ unread = wire[Other(e)]
           \/ unread = <<>> /\ thread'[e] \notin Waiting
           \/ open[e] \ hs = {}
    PROVE  \A f \in Ends : WireFrames(f)'
  <1>. wire \in [Ends -> Seq(Frame)]
    BY DEF Ownership, TypeOK
  <1>1. wire'[e] = wire[e]
    BY TwoEnds DEF DropWith
  <1>2. WireFrames(e)'
    BY <1>1, FramesKept, TwoEnds
  <1>3. \/ wire'[Other(e)] = wire[Other(e)]
        \/ wire'[Other(e)] = <<>> /\ thread'[e] \notin Waiting
    BY TwoEnds DEF DropWith
  <1>4. WireFrames(Other(e))'
    BY <1>3, FramesKept, TwoEnds
  <1>. QED
    BY <1>2, <1>4, TwoEnds

LEMMA ReadsEveryFrameNow ==
    ASSUME Ownership, \A f \in Ends : SharedKey(f) /\ WireFrames(f),
           NEW e \in Ends, receiver[e] = "reading", HasFrame(e)
    PROVE  Decrypts(key[e], NextFrame(e))
  <1>1. /\ wire[Other(e)] \in Seq(Frame) /\ wire[Other(e)] # <<>>
        /\ thread[e] \notin Waiting
    BY TwoEnds DEF Ownership, TypeOK, HasFrame, Owns
  <1>2. NextFrame(e) = wire[Other(e)][1] /\ 1 \in DOMAIN wire[Other(e)]
    BY <1>1 DEF NextFrame
  <1>. QED
    BY <1>1, <1>2, TwoEnds DEF Decrypts, SharedKey, WireFrames, MayRead

LEMMA HandshakeStep == Handshake /\ [Next]_vars => Handshake'
  <1>. SUFFICES ASSUME Handshake, [Next]_vars
                PROVE  /\ identity' = identity /\ invited' = invited
                       /\ Invited'
                       /\ \A f \in Ends : SharedKey(f)' /\ WireFrames(f)'
    BY OwnershipStep DEF Handshake
  <1>. DEFINE Goal == /\ identity' = identity /\ invited' = invited
                      /\ Invited'
                      /\ \A f \in Ends : SharedKey(f)' /\ WireFrames(f)'
  <1>. Ownership /\ TypeOK /\ TcpTypeOK /\ Invited
    BY DEF Handshake, Ownership, TypeOK, TcpTypeOK
  <1>. \A e \in Ends : SharedKey(e) /\ WireFrames(e) /\ Owns(e) /\ ResetAfterClose(e)
    BY DEF Handshake, Ownership
  <1>. USE DEF Running, Waiting
  <1>1. CASE UNCHANGED <<tcp, ids, work>>
    BY <1>1 DEF Invited, SharedKey, WireFrames, MayRead, tcp, ids, work
  <1>2. ASSUME NEW e \in Ends, SendHello(e)
        PROVE  Goal
    <2>1. UNCHANGED <<identity, invited, receiver, key>> /\ Invited'
      BY <1>2 DEF SendHello, ids, Invited
    <2>2. thread'[e] = "await" /\ thread'[Other(e)] = thread[Other(e)]
      BY <1>2, TwoEnds DEF SendHello, TypeOK
    <2>3. wire'[Other(e)] = wire[Other(e)]
      BY <1>2, TwoEnds DEF SendHello, Write, TypeOK
    <2>4. \/ /\ Closed(Other(e))
             /\ wire'[e] = <<>>
          \/ /\ wire'[e] = <<CreateHello(identity[e], e)>>
      BY <1>2, TwoEnds DEF SendHello, Write, TypeOK, WireFrames
    <2>5. WireFrames(e)'
      BY <1>2, <2>1, <2>2, <2>4, TwoEnds
      DEF SendHello, WireFrames, MayRead, Owns, Closed
    <2>6. WireFrames(Other(e))'
      <3>1. MayRead(e)' <=> MayRead(e)
        BY <1>2, <2>1, <2>2 DEF SendHello, MayRead
      <3>. QED
        BY <1>2, <2>1, <2>2, <2>3, <3>1, TwoEnds DEF SendHello, WireFrames
    <2>7. \A f \in Ends : SharedKey(f)'
      BY <2>1, <2>2, TwoEnds DEF SharedKey
    <2>. QED
      BY <2>1, <2>5, <2>6, <2>7, TwoEnds
  <1>3. ASSUME NEW e \in Ends, RecvHello(e)
        PROVE  Goal
    <2>1. UNCHANGED <<identity, invited, open>>
      BY <1>3 DEF RecvHello, ids
    <2>2. /\ thread'[e] = "chat" /\ thread'[Other(e)] = thread[Other(e)]
          /\ receiver'[e] = "reading" /\ receiver'[Other(e)] = receiver[Other(e)]
          /\ key'[Other(e)] = key[Other(e)]
      BY <1>3, TwoEnds DEF RecvHello, TypeOK
    <2>3. /\ wire'[e] = wire[e]
          /\ wire'[Other(e)] = SubSeq(wire[Other(e)], 2, Len(wire[Other(e)]))
      BY <1>3, TwoEnds DEF RecvHello, Consume, Unread, TypeOK
    <2>4. wire[Other(e)] \in Seq(Frame) /\ wire[Other(e)] # <<>>
      BY <1>3, TwoEnds DEF RecvHello, HasFrame, TypeOK
    <2>5. NextFrame(e) = CreateHello(identity[Other(e)], Other(e))
      <3>1. NextFrame(e) = wire[Other(e)][1] /\ 1 \in DOMAIN wire[Other(e)]
        BY <2>4 DEF NextFrame
      <3>. QED
        BY <1>3, <3>1, TwoEnds DEF RecvHello, WireFrames, MayRead
    <2>6. key'[e] = Ends
      <3>1. key'[e] = {e, Other(e)}
        BY <1>3, <2>5 DEF RecvHello, DeriveSessionKey, CreateHello, TypeOK
      <3>. QED
        BY <3>1, TwoEnds
    <2>7. Invited'
      <3>1. CASE e = "joiner"
        BY <1>3, <2>1, <2>5, <3>1
        DEF RecvHello, Accepts, VerifyHello, Expected, CreateHello, Invited, Other
      <3>2. CASE e = "host"
        BY <2>1, <2>2, <3>2 DEF Invited, Other
      <3>. QED
        BY <3>1, <3>2 DEF Ends
    <2>8. WireFrames(e)'
      <3>1. MayRead(Other(e))' <=> MayRead(Other(e))
        BY <2>2 DEF MayRead
      <3>. QED
        BY <1>3, <2>1, <2>2, <2>3, <3>1, TwoEnds DEF RecvHello, WireFrames
    <2>9. WireFrames(Other(e))'
      <3>1. \A i \in DOMAIN wire'[Other(e)] :
               /\ i + 1 \in DOMAIN wire[Other(e)] /\ i + 1 # 1
               /\ wire'[Other(e)][i] = wire[Other(e)][i + 1]
        BY <2>3, <2>4
      <3>2. \A i \in DOMAIN wire[Other(e)] : i # 1 =>
               wire[Other(e)][i].kind = "chat" /\ wire[Other(e)][i].key = Ends
        BY <1>3, TwoEnds DEF RecvHello, WireFrames, MayRead
      <3>3. thread[Other(e)] # "hello"
        BY <2>4, TwoEnds DEF WireFrames
      <3>. QED
        BY <2>2, <3>1, <3>2, <3>3, TwoEnds DEF WireFrames
    <2>10. \A f \in Ends : SharedKey(f)'
      BY <2>2, <2>6, TwoEnds DEF SharedKey
    <2>. QED
      BY <2>1, <2>7, <2>8, <2>9, <2>10, TwoEnds
  <1>4. ASSUME NEW e \in Ends, SendChat(e)
        PROVE  Goal
    <2>1. UNCHANGED <<identity, invited, thread, receiver, key>>
      BY <1>4 DEF SendChat, ids, work
    <2>2. Invited' /\ \A f \in Ends : SharedKey(f)'
      BY <2>1 DEF Invited, SharedKey
    <2>3. wire'[Other(e)] = wire[Other(e)]
      BY <1>4, TwoEnds DEF SendChat, Write, TypeOK
    <2>4. WireFrames(Other(e))'
      BY <2>1, <2>3, TwoEnds DEF WireFrames, MayRead
    <2>5. WireFrames(e)'
      <3>1. CASE Closed(Other(e))
        BY <1>4, <2>1, <3>1, TwoEnds
        DEF SendChat, Write, WireFrames, MayRead, Owns, Closed
      <3>2. CASE ~ Closed(Other(e))
        <4>. DEFINE x == Encrypt(key[e], Head(outbound[e]))
        <4>1. wire'[e] = Append(wire[e], x) /\ x.kind = "chat" /\ x.key = Ends
          BY <1>4, <3>2 DEF SendChat, Write, SharedKey, Encrypt, TypeOK
        <4>. HIDE DEF x
        <4>2. /\ DOMAIN wire[e] = 1..Len(wire[e])
              /\ Len(wire[e]) \in Nat
              /\ DOMAIN wire'[e] = 1..(Len(wire[e]) + 1)
              /\ \A i \in 1..Len(wire[e]) : wire'[e][i] = wire[e][i]
              /\ wire'[e][Len(wire[e]) + 1] = x
          BY <4>1, AppendProperties DEF TypeOK
        <4>3. thread[Other(e)] \in Waiting => Len(wire[e]) # 0
          BY <1>4 DEF SendChat, WireFrames, TypeOK
        <4>. QED
          BY <1>4, <2>1, <4>1, <4>2, <4>3 DEF SendChat, WireFrames, MayRead
      <3>. QED
        BY <3>1, <3>2
    <2>. QED
      BY <2>1, <2>2, <2>4, <2>5, TwoEnds
  <1>5. ASSUME NEW e \in Ends, NEW hs \in {Handles, {"writer"}}, NEW unread,
               Fail(e, hs, unread),
               \/ thread[e] = "await" /\ hs = Handles
               \/ thread[e] = "chat" /\ hs = {"writer"} /\ unread = wire[Other(e)]
        PROVE  Goal
    <2>1. /\ UNCHANGED <<identity, invited, receiver, key>>
          /\ thread'[e] = "failed" /\ thread'[Other(e)] = thread[Other(e)]
      BY <1>5, TwoEnds DEF Fail, ids, TypeOK
    <2>2. hs = Handles => open[e] \ hs = {}
      BY DEF TypeOK
    <2>3. \A f \in Ends : WireFrames(f)'
      BY <1>5, <2>1, <2>2, DropFrames DEF Fail
    <2>. QED
      BY <2>1, <2>3, TwoEnds DEF Invited, SharedKey
  <1>6. ASSUME NEW e \in Ends, SendLoopEnds(e)
        PROVE  Goal
    <2>1. /\ UNCHANGED <<identity, invited, receiver, key>>
          /\ thread'[e] = "ended" /\ thread'[Other(e)] = thread[Other(e)]
      BY <1>6, TwoEnds DEF SendLoopEnds, ids, TypeOK
    <2>2. \A f \in Ends : WireFrames(f)'
      BY <1>6, <2>1, DropFrames DEF SendLoopEnds, Drop
    <2>. QED
      BY <2>1, <2>2, TwoEnds DEF Invited, SharedKey
  <1>7. ASSUME NEW e \in Ends, Receive(e)
        PROVE  Goal
    <2>1. UNCHANGED <<identity, invited, thread, receiver, key>>
      BY <1>7 DEF Receive, ids, work
    <2>2. /\ wire'[e] = wire[e]
          /\ wire'[Other(e)] = SubSeq(wire[Other(e)], 2, Len(wire[Other(e)]))
      BY <1>7, TwoEnds DEF Receive, Consume, Unread, TypeOK
    <2>3. WireFrames(e)'
      BY <2>1, <2>2, TwoEnds DEF WireFrames, MayRead
    <2>4. thread[e] \notin Waiting
      BY <1>7 DEF Receive, Owns
    <2>5. \A i \in DOMAIN wire'[Other(e)] :
             /\ i + 1 \in DOMAIN wire[Other(e)]
             /\ wire'[Other(e)][i] = wire[Other(e)][i + 1]
      BY SMTT(30), <1>7, <2>2, TwoEnds DEF TypeOK
    <2>6. wire[Other(e)] # <<>>
      BY <1>7 DEF Receive, HasFrame
    <2>7. WireFrames(Other(e))'
      BY <2>1, <2>4, <2>5, <2>6, TwoEnds DEF WireFrames, MayRead
    <2>. QED
      BY <2>1, <2>3, <2>7, TwoEnds DEF Invited, SharedKey
  <1>8. ASSUME NEW e \in Ends, ReceiveEnds(e)
        PROVE  Goal
    <2>1. /\ UNCHANGED <<identity, invited, thread, key>>
          /\ receiver'[e] = "ended" /\ receiver'[Other(e)] = receiver[Other(e)]
      BY <1>8, TwoEnds DEF ReceiveEnds, ids, TypeOK
    <2>2. thread[e] \notin Waiting
      BY <1>8 DEF ReceiveEnds, Owns
    <2>3. wire[Other(e)] = <<>>
      BY <1>8, <2>2, ReadsEveryFrameNow DEF ReceiveEnds, ReadFails, StreamOver, HasFrame
    <2>4. Unread(e) = <<>>
      BY <2>3, TwoEnds DEF Unread
    <2>5. \A f \in Ends : WireFrames(f)'
      BY <1>8, <2>1, <2>2, <2>4, DropFrames DEF ReceiveEnds
    <2>. QED
      BY <2>1, <2>5, TwoEnds DEF Invited, SharedKey
  <1>9. ASSUME NEW e \in Ends, Exit(e)
        PROVE  Goal
    <2>1. /\ UNCHANGED <<identity, invited, key>>
          /\ thread'[e] = "ended" /\ thread'[Other(e)] = thread[Other(e)]
          /\ receiver'[e] = "ended" /\ receiver'[Other(e)] = receiver[Other(e)]
      BY <1>9, TwoEnds DEF Exit, ids, TypeOK
    <2>2. \A f \in Ends : WireFrames(f)'
      BY <1>9, <2>1, DropFrames DEF Exit, Drop
    <2>. QED
      BY <2>1, <2>2, TwoEnds DEF Invited, SharedKey
  <1>10. ASSUME NEW e \in Ends, Kernel(e)
         PROVE  Goal
    <2>1. UNCHANGED <<identity, invited, thread, receiver, key>>
      BY <1>10 DEF Kernel, ids, work
    <2>2. wire'[e] = wire[e]
      BY <1>10, TwoEnds DEF Kernel, RstArrives, TypeOK
    <2>3. thread[Other(e)] \notin Running
      BY <1>10, TwoEnds DEF Kernel, RstArrives, ResetAfterClose, Closed, Owns
    <2>4. \E n \in 0..Len(wire[Other(e)]) :
             wire'[Other(e)] = SubSeq(wire[Other(e)], 1, n)
      BY <1>10, TwoEnds DEF Kernel, RstArrives, TypeOK
    <2>5. WireFrames(e)'
      BY <2>1, <2>2, FramesKept
    <2>6. WireFrames(Other(e))'
      BY <2>1, <2>3, <2>4, FramesKept, TwoEnds
    <2>. QED
      BY <2>1, <2>5, <2>6, TwoEnds DEF Invited, SharedKey
  <1>11. ASSUME NEW e \in Ends, RejectHello(e) \/ HelloNeverCame(e) \/ SendChatFails(e)
         PROVE  Goal
    BY <1>11, <1>5 DEF RejectHello, HelloNeverCame, SendChatFails
  <1>12. ASSUME NEW e \in Ends, SendMessage(e) \/ Drain(e) \/ ReplaceChat(e)
         PROVE  Goal
    BY <1>12, <1>1 DEF SendMessage, Drain, ReplaceChat
  <1>13. CASE UNCHANGED vars
    BY <1>1, <1>13 DEF vars
  <1>. QED
    BY <1>2, <1>3, <1>4, <1>6, <1>7, <1>8, <1>9, <1>10, <1>11, <1>12, <1>13
    DEF Next, SessionThread, ReceiveThread, User

LEMMA HandshakeInit == Init => Handshake
  BY OwnershipInit DEF Init, TcpInit, Handshake, Invited, SharedKey, WireFrames,
     MayRead, Waiting, Ends, Other

LEMMA HandshakeHolds == Spec => []Handshake
  BY HandshakeInit, HandshakeStep, PTL DEF Spec

\* No receive thread ever meets a frame that it cannot decrypt: whatever the
\* order of hello, messages, resets and exits, both ends hold one key.
THEOREM EveryFrameIsRead == Spec => []ReadsEveryFrame
  <1>1. Handshake => ReadsEveryFrame
    BY ReadsEveryFrameNow DEF Handshake, ReadsEveryFrame
  <1>. QED
    BY <1>1, HandshakeHolds, PTL
=============================================================================
