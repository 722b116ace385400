-------------------------- MODULE CliSessionProofs --------------------------
(***************************************************************************)
(* Proofs about CliSession, for every set of identities, every number of   *)
(* lines and every socket capacity: types, who gets to read anything, that *)
(* two processes do not end by themselves, the promise of Relay, and that  *)
(* every step brings a chat nearer to a state in which nothing is owed.    *)
(***************************************************************************)
EXTENDS CliSession, Integers, TLAPS

----------------------------------------------------------------------------
(* The inductive invariant.                                                *)

\* A process that has exited has an outcome.
Exits(e) == outcome[e] # "running" <=> main[e] = "exited"

\* There is one session key, and it takes a hello of the other end.
Keys(e) ==
    /\ main[e] \in {"hello", "await"} => key[e] = {} /\ receiver[e] = "none"
    /\ main[e] = "send" \/ receiver[e] = "reading" => key[e] = Ends

\* The joiner got past verify_hello only with the host its invite names.
Invited == key["joiner"] # {} => identity["host"] = invited

ChatOf(e, frame) == frame.kind = "chat" /\ frame.key = Ends /\ key[e] # {}

\* Each end writes its own hello, and chat frames once it has a key.
Frames(e) == \A i \in 1..Len(wire[e]) :
    wire[e][i] = CreateHello(identity[e], e) \/ ChatOf(e, wire[e][i])

\* What is printed at either end took the joiner's key.
PrintedByInvited(e) == printed[e] # <<>> => key["joiner"] # {}

\* As long as nobody has been interrupted and no handshake has failed, nothing
\* is closed, and the hello comes first.
Undisturbed == \A e \in Ends : outcome[e] \notin {"killed", "failed"}

Calm(e) ==
    /\ main[e] # "exited" /\ receiver[e] # "ended"
    /\ "reader" \in open[e] /\ rst[e] = "none"
    /\ receiver[e] = "reading" <=> main[e] \in {"send", "join"}
    /\ main[e] = "hello" => wire[e] = <<>> /\ main[Other(e)] \in {"hello", "await"}
    /\ \A i \in 1..Len(wire[e]) : wire[e][i].kind = "hello" =>
          i = 1 /\ main[Other(e)] \in {"hello", "await"}

Secrets == Invited /\ \A e \in Ends : Exits(e) /\ Keys(e) /\ Frames(e) /\ PrintedByInvited(e)

IInv == TypeOK /\ Secrets /\ (Undisturbed => \A e \in Ends : Calm(e))

----------------------------------------------------------------------------
(* Ends, sequences and frames.                                             *)

LEMMA TwoEnds ==
    /\ Ends = {"host", "joiner"}
    /\ \A e \in Ends : /\ Other(e) \in Ends /\ Other(e) # e /\ Other(Other(e)) = e
                       /\ \A f \in Ends : f = e \/ f = Other(e)
                       /\ {e, Other(e)} = Ends
  BY DEF Ends, Other

LEMMA AppendSeq == \A S : \A q \in Seq(S) : \A x \in S :
    /\ Append(q, x) \in Seq(S)
    /\ Len(q) \in Nat /\ Len(Append(q, x)) = Len(q) + 1
    /\ Append(q, x)[Len(q) + 1] = x
    /\ \A i \in 1..Len(q) : Append(q, x)[i] = q[i]
  OBVIOUS

LEMMA TailSeq == \A S : \A q \in Seq(S) : q # <<>> =>
    /\ Head(q) = q[1] /\ q[1] \in S /\ 1 \in 1..Len(q)
    /\ Tail(q) \in Seq(S)
  OBVIOUS

\* What is left of a sequence after its first element, and a prefix of it.
LEMMA RestSeq == \A S : \A q \in Seq(S) :
    /\ SubSeq(q, 2, Len(q)) \in Seq(S)
    /\ \A i \in 1..Len(SubSeq(q, 2, Len(q))) :
          SubSeq(q, 2, Len(q))[i] = q[i + 1] /\ i + 1 \in 1..Len(q) /\ i + 1 # 1
  OBVIOUS

LEMMA PrefixSeq == \A S : \A q \in Seq(S) : \A n \in 0..Len(q) :
    /\ SubSeq(q, 1, n) \in Seq(S)
    /\ \A i \in 1..Len(SubSeq(q, 1, n)) : SubSeq(q, 1, n)[i] = q[i] /\ i \in 1..Len(q)
  OBVIOUS

LEMMA EmptySeqs == \A S : <<>> \in Seq(S) /\ Len(<<>>) = 0
  OBVIOUS

LEMMA FrameTypes ==
    /\ \A i \in Identity, e \in Ends : CreateHello(i, e) \in Frame
    /\ \A k \in SUBSET Ends, n \in 1..MaxLines : Encrypt(k, n) \in Frame
    /\ \A f \in Frame : f.kind = "chat" => f.body \in 1..MaxLines
    /\ \A f \in Frame : f.kind = "hello" => f.exchange_public_key \in Ends
  BY DEF Frame, CreateHello, Encrypt

----------------------------------------------------------------------------
(* Type correctness.                                                       *)

TcpTypeOK ==
    /\ wire \in [Ends -> Seq(Frame)]
    /\ open \in [Ends -> SUBSET Handles]
    /\ rst \in [Ends -> {"none", "inflight", "arrived"}]

LEMMA WriteType ==
    ASSUME TcpTypeOK, NEW e \in Ends, NEW f \in Frame, Write(e, f)
    PROVE  TcpTypeOK'
  <1>1. Append(wire[e], f) \in Seq(Frame)
    BY AppendSeq DEF TcpTypeOK
  <1>. QED
    BY <1>1 DEF TcpTypeOK, Write

LEMMA ConsumeType ==
    ASSUME TcpTypeOK, NEW e \in Ends, Consume(e), UNCHANGED <<open, rst>>
    PROVE  TcpTypeOK'
  BY TwoEnds, RestSeq DEF TcpTypeOK, Consume, Unread

LEMMA UnreadType ==
    ASSUME TcpTypeOK, NEW e \in Ends
    PROVE  Unread(e) \in Seq(Frame) /\ wire[Other(e)] \in Seq(Frame)
  BY TwoEnds, RestSeq DEF TcpTypeOK, Unread

LEMMA DropType ==
    ASSUME TcpTypeOK, NEW e \in Ends, NEW hs, NEW unread \in Seq(Frame),
           DropWith(e, hs, unread)
    PROVE  TcpTypeOK'
  <1>1. open' \in [Ends -> SUBSET Handles]
    BY DEF TcpTypeOK, DropWith
  <1>2. rst' \in [Ends -> {"none", "inflight", "arrived"}]
    BY TwoEnds DEF TcpTypeOK, DropWith
  <1>3. wire' = [wire EXCEPT ![Other(e)] = unread] \/ wire' = [wire EXCEPT ![Other(e)] = <<>>]
    BY DEF DropWith
  <1>4. wire' \in [Ends -> Seq(Frame)]
    <2>1. <<>> \in Seq(Frame) /\ Other(e) \in Ends
      BY EmptySeqs, TwoEnds
    <2>2. \A q \in Seq(Frame) : [wire EXCEPT ![Other(e)] = q] \in [Ends -> Seq(Frame)]
      BY <2>1 DEF TcpTypeOK
    <2>. QED
      BY <1>3, <2>1, <2>2
  <1>. QED
    BY <1>1, <1>2, <1>4 DEF TcpTypeOK

LEMMA RstType ==
    ASSUME TcpTypeOK, NEW e \in Ends, RstArrives(e)
    PROVE  TcpTypeOK'
  BY TwoEnds, PrefixSeq DEF TcpTypeOK, RstArrives

LEMMA QuitType ==
    ASSUME TypeOK, NEW e \in Ends, NEW how \in {"failed", "finished", "killed"},
           NEW unread \in Seq(Frame), Quit(e, how, unread)
    PROVE  TypeOK'
  <1>1. TcpTypeOK'
    BY DropType DEF Quit, TypeOK, TcpTypeOK
  <1>. QED
    BY <1>1 DEF Quit, TypeOK, TcpTypeOK, ids, stdin

LEMMA InputType ==
    ASSUME TypeOK, NEW e \in Ends, input[e] # <<>>
    PROVE  NextLine(e) \in 0..MaxLines /\ Tail(input[e]) \in Seq(0..MaxLines)
  <1>1. input[e] \in Seq(0..MaxLines)
    BY DEF TypeOK
  <1>2. Head(input[e]) \in 0..MaxLines
    BY <1>1, TailSeq
  <1>3. Tail(input[e]) \in Seq(0..MaxLines)
    BY <1>1, TailSeq
  <1>. QED
    BY <1>2, <1>3 DEF NextLine

LEMMA SendLoopEndsType ==
    ASSUME TypeOK, NEW e \in Ends, SendLoopEnds(e),
           input' = input \/ (input[e] # <<>> /\ ReadLine(e)),
           unreadable' \in [Ends -> BOOLEAN]
    PROVE  TypeOK'
  <1>1. TcpTypeOK'
    BY DropType, UnreadType DEF SendLoopEnds, Drop, TypeOK, TcpTypeOK
  <1>2. input' \in [Ends -> Seq(0..MaxLines)]
    <2>1. CASE input' = input
      BY <2>1 DEF TypeOK
    <2>2. CASE input[e] # <<>> /\ ReadLine(e)
      BY <2>2, InputType DEF TypeOK, ReadLine
    <2>. QED
      BY <2>1, <2>2
  <1>. QED
    BY <1>1, <1>2 DEF SendLoopEnds, TypeOK, TcpTypeOK, ids

LEMMA LineType ==
    ASSUME TypeOK, NEW e \in Ends, input[e] # <<>>, NextLine(e) # Blank
    PROVE  NextLine(e) \in 1..MaxLines
  <1>1. NextLine(e) \in 0..MaxLines
    BY InputType
  <1>. QED
    BY <1>1, MaxLinesAssumption DEF Blank

LEMMA TypeStep == TypeOK /\ [Next]_vars => TypeOK'
  <1>. SUFFICES ASSUME TypeOK, [Next]_vars PROVE TypeOK'
    OBVIOUS
  <1>0. TcpTypeOK
    BY DEF TypeOK, TcpTypeOK
  <1>1. CASE UNCHANGED vars
    BY <1>1 DEF TypeOK, vars, tcp, ids, stdin
  <1>2. ASSUME NEW e \in Ends, SendHello(e) PROVE TypeOK'
    <2>1. TcpTypeOK'
      BY <1>0, <1>2, WriteType, FrameTypes DEF SendHello, TypeOK
    <2>. QED
      BY <1>2, <2>1 DEF SendHello, TypeOK, TcpTypeOK, ids, stdin
  <1>3. ASSUME NEW e \in Ends, RecvHello(e) PROVE TypeOK'
    <2>1. TcpTypeOK'
      BY <1>0, <1>3, ConsumeType DEF RecvHello
    <2>2. NextFrame(e) \in Frame /\ NextFrame(e).kind = "hello"
      BY <1>0, <1>3, TwoEnds, TailSeq DEF RecvHello, Accepts, HasFrame, NextFrame, TcpTypeOK
    <2>3. key' \in [Ends -> SUBSET Ends]
      BY <1>3, <2>2, FrameTypes DEF RecvHello, TypeOK, DeriveSessionKey
    <2>. QED
      BY <1>3, <2>1, <2>3 DEF RecvHello, TypeOK, TcpTypeOK, ids, stdin
  <1>4. ASSUME NEW e \in Ends, HandshakeFails(e) \/ Finish(e) \/ Interrupt(e) PROVE TypeOK'
    BY <1>0, <1>4, QuitType, UnreadType DEF HandshakeFails, Finish, Interrupt
  <1>5. ASSUME NEW e \in Ends, SkipLine(e) PROVE TypeOK'
    <2>1. input' \in [Ends -> Seq(0..MaxLines)]
      BY <1>5, TailSeq DEF SkipLine, ReadLine, TypeOK
    <2>. QED
      BY <1>5, <2>1 DEF SkipLine, TypeOK, tcp, ids
  <1>6. ASSUME NEW e \in Ends, SendLine(e) PROVE TypeOK'
    <2>1. Encrypt(key[e], NextLine(e)) \in Frame
      BY <1>6, LineType, FrameTypes DEF SendLine, TypeOK
    <2>2. TcpTypeOK'
      BY <1>0, <1>6, <2>1, WriteType DEF SendLine
    <2>3. input' \in [Ends -> Seq(0..MaxLines)]
      BY <1>6, TailSeq DEF SendLine, ReadLine, TypeOK
    <2>. QED
      BY <1>6, <2>2, <2>3 DEF SendLine, TypeOK, TcpTypeOK, ids
  <1>7. ASSUME NEW e \in Ends, SendFails(e) \/ InputIsOver(e) \/ StdinFails(e) PROVE TypeOK'
    <2>1. unreadable' \in [Ends -> BOOLEAN]
      BY <1>7 DEF SendFails, InputIsOver, StdinFails, TypeOK
    <2>. QED
      BY <1>7, <2>1, SendLoopEndsType DEF SendFails, InputIsOver, StdinFails
  <1>8. ASSUME NEW e \in Ends, Receive(e) PROVE TypeOK'
    <2>1. TcpTypeOK'
      BY <1>0, <1>8, ConsumeType DEF Receive
    <2>2. NextFrame(e) \in Frame /\ NextFrame(e).kind = "chat"
      BY <1>0, <1>8, TwoEnds, TailSeq DEF Receive, Decrypts, HasFrame, NextFrame, TcpTypeOK
    <2>3. printed' \in [Ends -> Seq(1..MaxLines)]
      BY <1>8, <2>2, FrameTypes, AppendSeq DEF Receive, TypeOK
    <2>. QED
      BY <1>8, <2>1, <2>3 DEF Receive, TypeOK, TcpTypeOK, ids, stdin
  <1>9. ASSUME NEW e \in Ends, ReceiveEnds(e) PROVE TypeOK'
    <2>1. TcpTypeOK'
      BY <1>0, <1>9, DropType, UnreadType DEF ReceiveEnds
    <2>. QED
      BY <1>9, <2>1 DEF ReceiveEnds, TypeOK, TcpTypeOK, ids, stdin
  <1>10. ASSUME NEW e \in Ends, Type(e) PROVE TypeOK'
    <2>1. typed[e] + 1 \in 1..MaxLines /\ typed[e] + 1 \in 0..MaxLines /\ Blank \in 0..MaxLines
      BY <1>10, MaxLinesAssumption DEF Type, TypeOK, Blank
    <2>2. PICK blank \in {<<>>, <<Blank>>} :
              input' = [input EXCEPT ![e] = @ \o blank \o <<typed[e] + 1>>]
      BY <1>10 DEF Type
    <2>3. blank \in Seq(0..MaxLines) /\ <<typed[e] + 1>> \in Seq(0..MaxLines)
      <3>1. \A n \in 0..MaxLines : <<n>> \in Seq(0..MaxLines)
        OBVIOUS
      <3>2. <<>> \in Seq(0..MaxLines)
        BY EmptySeqs
      <3>. QED
        BY <2>1, <3>1, <3>2
    <2>4. input[e] \o blank \in Seq(0..MaxLines)
      BY <2>3 DEF TypeOK
    <2>5. input[e] \o blank \o <<typed[e] + 1>> \in Seq(0..MaxLines)
      BY <2>3, <2>4
    <2>6. input' \in [Ends -> Seq(0..MaxLines)]
      BY <2>2, <2>5 DEF TypeOK
    <2>7. typed' \in [Ends -> 0..MaxLines]
      BY <1>10, <2>1 DEF Type, TypeOK
    <2>. QED
      BY <1>10, <2>6, <2>7 DEF Type, TypeOK, tcp, ids
  <1>11. ASSUME NEW e \in Ends, EndInput(e) PROVE TypeOK'
    BY <1>11 DEF EndInput, TypeOK, tcp, ids
  <1>12. ASSUME NEW e \in Ends, Kernel(e) PROVE TypeOK'
    <2>1. TcpTypeOK'
      BY <1>0, <1>12, RstType DEF Kernel
    <2>. QED
      BY <1>12, <2>1 DEF Kernel, TypeOK, TcpTypeOK, ids, stdin
  <1>. QED
    BY <1>1, <1>2, <1>3, <1>4, <1>5, <1>6, <1>7, <1>8, <1>9, <1>10, <1>11, <1>12
    DEF Next, MainThread, ReceiveThread, User

----------------------------------------------------------------------------
(* Keys, frames and what is printed.                                       *)

\* No frame of either direction is new.
Thinner == \A f \in Ends : \A i \in 1..Len(wire'[f]) :
    \E k \in 1..Len(wire[f]) : wire'[f][i] = wire[f][k]

LEMMA ConsumeThins ==
    ASSUME TypeOK, NEW e \in Ends, Consume(e)
    PROVE  Thinner
  <1>1. wire[Other(e)] \in Seq(Frame) /\ Other(e) \in Ends
    BY TwoEnds DEF TypeOK
  <1>2. /\ wire'[Other(e)] = SubSeq(wire[Other(e)], 2, Len(wire[Other(e)]))
        /\ \A f \in Ends : f # Other(e) => wire'[f] = wire[f]
    BY <1>1 DEF TypeOK, Consume, Unread
  <1>3. \A i \in 1..Len(wire'[Other(e)]) :
            wire'[Other(e)][i] = wire[Other(e)][i + 1] /\ i + 1 \in 1..Len(wire[Other(e)])
    BY <1>1, <1>2, RestSeq
  <1>. QED
    BY <1>2, <1>3 DEF Thinner

LEMMA RstThins ==
    ASSUME TypeOK, NEW e \in Ends, RstArrives(e)
    PROVE  Thinner
  <1>1. wire[Other(e)] \in Seq(Frame) /\ Other(e) \in Ends
    BY TwoEnds DEF TypeOK
  <1>2. PICK kept \in 0..Len(wire[Other(e)]) :
            wire' = [wire EXCEPT ![Other(e)] = SubSeq(@, 1, kept)]
    BY DEF RstArrives
  <1>3. /\ wire'[Other(e)] = SubSeq(wire[Other(e)], 1, kept)
        /\ \A f \in Ends : f # Other(e) => wire'[f] = wire[f]
    BY <1>1, <1>2 DEF TypeOK
  <1>4. \A i \in 1..Len(wire'[Other(e)]) :
            wire'[Other(e)][i] = wire[Other(e)][i] /\ i \in 1..Len(wire[Other(e)])
    BY <1>1, <1>3, PrefixSeq
  <1>. QED
    BY <1>3, <1>4 DEF Thinner

LEMMA DropThins ==
    ASSUME TypeOK, NEW e \in Ends, NEW hs, NEW unread \in {Unread(e), wire[Other(e)]},
           DropWith(e, hs, unread)
    PROVE  Thinner
  <1>1. wire[Other(e)] \in Seq(Frame) /\ Other(e) \in Ends
    BY TwoEnds DEF TypeOK
  <1>2. \A f \in Ends : f # Other(e) => wire'[f] = wire[f]
    BY <1>1 DEF TypeOK, DropWith
  <1>3. wire'[Other(e)] \in {Unread(e), wire[Other(e)], <<>>}
    BY <1>1 DEF TypeOK, DropWith
  <1>4. CASE wire'[Other(e)] = Unread(e)
    <2>1. \A i \in 1..Len(wire'[Other(e)]) :
              wire'[Other(e)][i] = wire[Other(e)][i + 1] /\ i + 1 \in 1..Len(wire[Other(e)])
      BY <1>1, <1>4, RestSeq DEF Unread
    <2>. QED
      BY <1>2, <2>1 DEF Thinner
  <1>5. CASE wire'[Other(e)] = wire[Other(e)]
    BY <1>2, <1>5 DEF Thinner
  <1>6. CASE wire'[Other(e)] = <<>>
    <2>1. 1..Len(wire'[Other(e)]) = {}
      BY <1>6, EmptySeqs
    <2>. QED
      BY <1>2, <2>1 DEF Thinner
  <1>. QED
    BY <1>3, <1>4, <1>5, <1>6

LEMMA ThinnerKeeps ==
    ASSUME Thinner, NEW f \in Ends, Frames(f), identity' = identity,
           key[f] # {} => key'[f] # {}
    PROVE  Frames(f)'
  BY DEF Thinner, Frames, ChatOf

LEMMA WriteKeeps ==
    ASSUME TypeOK, NEW e \in Ends, NEW frame \in Frame, Write(e, frame),
           frame = CreateHello(identity[e], e) \/ ChatOf(e, frame),
           \A f \in Ends : Frames(f), UNCHANGED <<identity, key>>
    PROVE  \A f \in Ends : Frames(f)'
  <1>1. SUFFICES ASSUME NEW f \in Ends, NEW i \in 1..Len(wire'[f])
                 PROVE  wire'[f][i] = CreateHello(identity[f], f) \/ ChatOf(f, wire'[f][i])
    BY DEF Frames, ChatOf
  <1>2. CASE wire'[f] = wire[f]
    BY <1>1, <1>2 DEF Frames
  <1>3. CASE f = e /\ wire'[e] = Append(wire[e], frame)
    <2>1. wire[e] \in Seq(Frame)
      BY DEF TypeOK
    <2>2. CASE i \in 1..Len(wire[e])
      BY <1>3, <2>1, <2>2, AppendSeq DEF Frames
    <2>3. CASE i = Len(wire[e]) + 1
      BY <1>3, <2>1, <2>3, AppendSeq
    <2>4. Len(wire[e]) \in Nat /\ Len(wire'[f]) = Len(wire[e]) + 1
      BY <1>3, <2>1, AppendSeq
    <2>. QED
      BY <1>1, <2>2, <2>3, <2>4
  <1>. QED
    BY <1>2, <1>3 DEF Write, TypeOK

\* A process that is gone has left no new frame and shown no new line.
LEMMA QuitSecrets ==
    ASSUME TypeOK, Secrets, NEW e \in Ends, NEW how \in {"failed", "finished", "killed"},
           NEW unread \in {Unread(e), wire[Other(e)]}, Quit(e, how, unread)
    PROVE  Secrets'
  <1>1. /\ main' = [main EXCEPT ![e] = "exited"]
        /\ receiver' = [receiver EXCEPT ![e] = "ended"]
        /\ outcome' = [outcome EXCEPT ![e] = how]
        /\ UNCHANGED <<identity, invited, key, printed>>
    BY DEF Quit, ids
  <1>2. Thinner
    BY DropThins DEF Quit
  <1>3. Invited' /\ \A f \in Ends : Frames(f)' /\ PrintedByInvited(f)'
    BY <1>1, <1>2, ThinnerKeeps DEF Secrets, Invited, PrintedByInvited
  <1>4. \A f \in Ends : Exits(f)' /\ Keys(f)'
    BY <1>1 DEF TypeOK, Secrets, Exits, Keys
  <1>. QED
    BY <1>3, <1>4 DEF Secrets

\* With the same keys, threads and outcomes, only the frames matter.
LEMMA SameThreads ==
    ASSUME Secrets, UNCHANGED <<ids, main, receiver, key, printed, outcome>>,
           \A f \in Ends : Frames(f)'
    PROVE  Secrets'
  <1>1. Invited' /\ \A f \in Ends : Exits(f)' /\ Keys(f)' /\ PrintedByInvited(f)'
    BY DEF Secrets, ids, Invited, Exits, Keys, PrintedByInvited
  <1>. QED
    BY <1>1 DEF Secrets

LEMMA SameFrames ==
    ASSUME Secrets, UNCHANGED <<wire, identity, key>>
    PROVE  \A f \in Ends : Frames(f)'
  BY DEF Secrets, Frames, ChatOf

\* A hello that has arrived is the other end's, and so both ends derive one key.
LEMMA HelloOfOther ==
    ASSUME TypeOK, Secrets, NEW e \in Ends, HasFrame(e)
    PROVE  /\ NextFrame(e) = wire[Other(e)][1] /\ 1 \in 1..Len(wire[Other(e)])
           /\ NextFrame(e).kind = "hello" =>
                 /\ NextFrame(e).identity_public_key = identity[Other(e)]
                 /\ DeriveSessionKey(e, NextFrame(e).exchange_public_key) = Ends
           /\ NextFrame(e).kind = "chat" => ChatOf(Other(e), NextFrame(e))
  <1>1. wire[Other(e)] \in Seq(Frame) /\ Other(e) \in Ends /\ wire[Other(e)] # <<>>
    BY TwoEnds DEF TypeOK, HasFrame
  <1>2. NextFrame(e) = wire[Other(e)][1] /\ 1 \in 1..Len(wire[Other(e)])
    BY <1>1, TailSeq DEF NextFrame
  <1>3. NextFrame(e) = CreateHello(identity[Other(e)], Other(e)) \/ ChatOf(Other(e), NextFrame(e))
    BY <1>1, <1>2 DEF Secrets, Frames
  <1>4. CASE NextFrame(e) = CreateHello(identity[Other(e)], Other(e))
    <2>1. /\ NextFrame(e).kind = "hello"
          /\ NextFrame(e).identity_public_key = identity[Other(e)]
          /\ NextFrame(e).exchange_public_key = Other(e)
      BY <1>4 DEF CreateHello
    <2>. QED
      BY <1>2, <2>1, TwoEnds DEF DeriveSessionKey
  <1>5. CASE ChatOf(Other(e), NextFrame(e))
    BY <1>2, <1>5 DEF ChatOf
  <1>. QED
    BY <1>3, <1>4, <1>5

LEMMA RecvHelloSecrets ==
    ASSUME TypeOK, Secrets, NEW e \in Ends, RecvHello(e)
    PROVE  Secrets'
  <1>1. /\ main[e] = "await" /\ HasFrame(e) /\ Consume(e)
        /\ NextFrame(e).kind = "hello" /\ VerifyHello(NextFrame(e), Expected(e))
        /\ key' = [key EXCEPT ![e] = DeriveSessionKey(e, NextFrame(e).exchange_public_key)]
        /\ receiver' = [receiver EXCEPT ![e] = "reading"]
        /\ main' = [main EXCEPT ![e] = "send"]
        /\ UNCHANGED <<identity, invited, printed, outcome>>
    BY DEF RecvHello, Accepts, ids
  <1>2. /\ NextFrame(e).identity_public_key = identity[Other(e)]
        /\ DeriveSessionKey(e, NextFrame(e).exchange_public_key) = Ends
    BY <1>1, HelloOfOther
  <1>3. key' = [key EXCEPT ![e] = Ends] /\ Ends # {}
    BY <1>1, <1>2, TwoEnds
  <1>4. Invited'
    <2>1. CASE e = "joiner"
      <3>1. identity["host"] = invited
        BY <1>1, <1>2, <2>1 DEF VerifyHello, Expected, Other
      <3>. QED
        BY <1>1, <3>1 DEF Invited
    <2>2. CASE e # "joiner"
      <3>1. key'["joiner"] = key["joiner"]
        BY <1>3, <2>2, TwoEnds DEF TypeOK
      <3>. QED
        BY <1>1, <3>1 DEF Secrets, Invited
    <2>. QED
      BY <2>1, <2>2
  <1>5. \A f \in Ends : Frames(f)'
    <2>1. \A f \in Ends : key[f] # {} => key'[f] # {}
      BY <1>3 DEF TypeOK
    <2>. QED
      BY <1>1, <2>1, ConsumeThins, ThinnerKeeps DEF Secrets
  <1>6. \A f \in Ends : PrintedByInvited(f)'
    <2>1. key["joiner"] # {} => key'["joiner"] # {}
      BY <1>3, TwoEnds DEF TypeOK
    <2>. QED
      BY <1>1, <2>1 DEF Secrets, PrintedByInvited
  <1>7. \A f \in Ends : Exits(f)'
    BY <1>1 DEF TypeOK, Secrets, Exits
  <1>8. \A f \in Ends : Keys(f)'
    BY <1>1, <1>3 DEF TypeOK, Secrets, Keys
  <1>. QED
    BY <1>4, <1>5, <1>6, <1>7, <1>8 DEF Secrets

LEMMA ReceiveSecrets ==
    ASSUME TypeOK, Secrets, NEW e \in Ends, Receive(e)
    PROVE  Secrets'
  <1>1. /\ receiver[e] = "reading" /\ HasFrame(e) /\ Consume(e)
        /\ NextFrame(e).kind = "chat"
        /\ printed' = [printed EXCEPT ![e] = Append(@, NextFrame(e).body)]
        /\ UNCHANGED <<identity, invited, main, receiver, key, outcome>>
    BY DEF Receive, Decrypts, ids
  <1>2. key[e] = Ends /\ key[Other(e)] # {}
    BY <1>1, HelloOfOther DEF Secrets, Keys, ChatOf
  <1>3. key["joiner"] # {}
    BY <1>2, TwoEnds
  <1>4. \A f \in Ends : Frames(f)'
    BY <1>1, ConsumeThins, ThinnerKeeps DEF Secrets
  <1>5. Invited' /\ \A f \in Ends : Exits(f)' /\ Keys(f)' /\ PrintedByInvited(f)'
    BY <1>1, <1>3 DEF Secrets, Invited, Exits, Keys, PrintedByInvited
  <1>. QED
    BY <1>4, <1>5 DEF Secrets

LEMMA SecretsStep == TypeOK /\ Secrets /\ [Next]_vars => Secrets'
  <1>. SUFFICES ASSUME TypeOK, Secrets, [Next]_vars PROVE Secrets'
    OBVIOUS
  <1>1. CASE UNCHANGED vars
    BY <1>1, SameThreads, SameFrames DEF vars, tcp, ids
  <1>2. ASSUME NEW e \in Ends, SendHello(e) PROVE Secrets'
    <2>1. /\ main[e] = "hello" /\ main' = [main EXCEPT ![e] = "await"]
          /\ UNCHANGED <<identity, invited, receiver, key, printed, outcome>>
      BY <1>2 DEF SendHello, ids
    <2>2. \A f \in Ends : Frames(f)'
      BY <1>2, <2>1, FrameTypes, WriteKeeps DEF SendHello, Secrets, TypeOK
    <2>3. \A f \in Ends : Exits(f)' /\ Keys(f)'
      BY <2>1 DEF TypeOK, Secrets, Exits, Keys
    <2>4. Invited' /\ \A f \in Ends : PrintedByInvited(f)'
      BY <2>1 DEF Secrets, Invited, PrintedByInvited
    <2>. QED
      BY <2>2, <2>3, <2>4 DEF Secrets
  <1>3. ASSUME NEW e \in Ends, RecvHello(e) PROVE Secrets'
    BY <1>3, RecvHelloSecrets
  <1>4. ASSUME NEW e \in Ends, HandshakeFails(e) \/ Finish(e) \/ Interrupt(e) PROVE Secrets'
    BY <1>4, QuitSecrets DEF HandshakeFails, Finish, Interrupt
  <1>5. ASSUME NEW e \in Ends, SkipLine(e) \/ Type(e) \/ EndInput(e) PROVE Secrets'
    <2>1. UNCHANGED <<wire, ids, main, receiver, key, printed, outcome>>
      BY <1>5 DEF SkipLine, Type, EndInput, tcp
    <2>. QED
      BY <2>1, SameThreads, SameFrames DEF ids
  <1>6. ASSUME NEW e \in Ends, SendLine(e) PROVE Secrets'
    <2>1. /\ main[e] = "send" /\ Write(e, Encrypt(key[e], NextLine(e)))
          /\ UNCHANGED <<ids, main, receiver, key, printed, outcome>>
      BY <1>6 DEF SendLine
    <2>2. key[e] = Ends /\ Ends # {}
      BY <2>1, TwoEnds DEF Secrets, Keys
    <2>3. Encrypt(key[e], NextLine(e)) \in Frame
      BY <1>6, LineType, FrameTypes DEF SendLine, TypeOK
    <2>4. ChatOf(e, Encrypt(key[e], NextLine(e)))
      BY <2>2 DEF ChatOf, Encrypt
    <2>5. \A f \in Ends : Frames(f)'
      BY <2>1, <2>3, <2>4, WriteKeeps DEF Secrets, ids
    <2>. QED
      BY <2>1, <2>5, SameThreads
  <1>7. ASSUME NEW e \in Ends, SendFails(e) \/ InputIsOver(e) \/ StdinFails(e) PROVE Secrets'
    <2>1. /\ main[e] = "send" /\ main' = [main EXCEPT ![e] = "join"]
          /\ DropWith(e, {"writer"}, wire[Other(e)])
          /\ UNCHANGED <<identity, invited, receiver, key, printed, outcome>>
      BY <1>7 DEF SendFails, InputIsOver, StdinFails, SendLoopEnds, Drop, ids
    <2>2. \A f \in Ends : Frames(f)'
      BY <2>1, DropThins, ThinnerKeeps DEF Secrets
    <2>3. \A f \in Ends : Exits(f)' /\ Keys(f)'
      BY <2>1 DEF TypeOK, Secrets, Exits, Keys
    <2>4. Invited' /\ \A f \in Ends : PrintedByInvited(f)'
      BY <2>1 DEF Secrets, Invited, PrintedByInvited
    <2>. QED
      BY <2>2, <2>3, <2>4 DEF Secrets
  <1>8. ASSUME NEW e \in Ends, Receive(e) PROVE Secrets'
    BY <1>8, ReceiveSecrets
  <1>9. ASSUME NEW e \in Ends, ReceiveEnds(e) PROVE Secrets'
    <2>1. /\ receiver[e] = "reading" /\ receiver' = [receiver EXCEPT ![e] = "ended"]
          /\ DropWith(e, {"reader"}, Unread(e))
          /\ UNCHANGED <<identity, invited, main, key, printed, outcome>>
      BY <1>9 DEF ReceiveEnds, ids
    <2>2. \A f \in Ends : Frames(f)'
      BY <2>1, DropThins, ThinnerKeeps DEF Secrets
    <2>3. \A f \in Ends : Exits(f)' /\ Keys(f)'
      BY <2>1 DEF TypeOK, Secrets, Exits, Keys
    <2>4. Invited' /\ \A f \in Ends : PrintedByInvited(f)'
      BY <2>1 DEF Secrets, Invited, PrintedByInvited
    <2>. QED
      BY <2>2, <2>3, <2>4 DEF Secrets
  <1>10. ASSUME NEW e \in Ends, Kernel(e) PROVE Secrets'
    <2>1. RstArrives(e) /\ UNCHANGED <<ids, main, receiver, key, printed, outcome>>
      BY <1>10 DEF Kernel
    <2>2. \A f \in Ends : Frames(f)'
      BY <2>1, RstThins, ThinnerKeeps DEF Secrets, ids
    <2>. QED
      BY <2>1, <2>2, SameThreads
  <1>. QED
    BY <1>1, <1>2, <1>3, <1>4, <1>5, <1>6, <1>7, <1>8, <1>9, <1>10
    DEF Next, MainThread, ReceiveThread, User

----------------------------------------------------------------------------
(* Nothing closes as long as nobody is interrupted.                        *)

AllCalm == \A e \in Ends : Calm(e)

\* Whatever a process leaves behind, it had a reason that disturbs.
LEMMA QuitDisturbs ==
    ASSUME TypeOK, NEW e \in Ends, NEW how \in {"failed", "killed"}, NEW unread,
           Quit(e, how, unread)
    PROVE  ~ Undisturbed'
  BY DEF Quit, TypeOK, Undisturbed

LEMMA CalmWrite ==
    ASSUME TypeOK, AllCalm, NEW e \in Ends, NEW frame \in Frame, Write(e, frame)
    PROVE  /\ UNCHANGED <<open, rst>>
           /\ wire[e] \in Seq(Frame)
           /\ wire'[e] = Append(wire[e], frame)
           /\ \A f \in Ends : f # e => wire'[f] = wire[f]
  <1>1. ~ Closed(Other(e))
    BY TwoEnds DEF AllCalm, Calm, Closed
  <1>. QED
    BY <1>1 DEF Write, TypeOK

LEMMA CalmHello ==
    ASSUME TypeOK, AllCalm, NEW e \in Ends, SendHello(e)
    PROVE  AllCalm'
  <1>1. /\ main[e] = "hello" /\ main' = [main EXCEPT ![e] = "await"]
        /\ UNCHANGED <<open, rst, receiver>>
        /\ wire'[e] = Append(wire[e], CreateHello(identity[e], e))
        /\ \A f \in Ends : f # e => wire'[f] = wire[f]
    BY CalmWrite, FrameTypes DEF SendHello, TypeOK
  <1>2. wire[e] = <<>> /\ main[Other(e)] \in {"hello", "await"}
    BY <1>1 DEF AllCalm, Calm
  <1>3. Len(wire'[e]) = 1
    BY <1>1, <1>2
  <1>4. main'[e] = "await" /\ main'[Other(e)] = main[Other(e)]
    BY <1>1, TwoEnds DEF TypeOK
  <1>5. Calm(e)'
    BY <1>1, <1>2, <1>3, <1>4, TwoEnds DEF AllCalm, Calm
  <1>6. Calm(Other(e))'
    BY <1>1, <1>2, <1>4, TwoEnds DEF AllCalm, Calm
  <1>. QED
    BY <1>5, <1>6, TwoEnds DEF AllCalm

LEMMA CalmLine ==
    ASSUME TypeOK, AllCalm, NEW e \in Ends, SendLine(e)
    PROVE  AllCalm'
  <1>1. /\ main[e] = "send" /\ UNCHANGED <<main, receiver>>
        /\ Write(e, Encrypt(key[e], NextLine(e)))
    BY DEF SendLine
  <1>2. Encrypt(key[e], NextLine(e)) \in Frame /\ Encrypt(key[e], NextLine(e)).kind = "chat"
    BY LineType, FrameTypes DEF SendLine, TypeOK, Encrypt
  <1>3. /\ UNCHANGED <<open, rst>> /\ wire[e] \in Seq(Frame)
        /\ wire'[e] = Append(wire[e], Encrypt(key[e], NextLine(e)))
        /\ \A f \in Ends : f # e => wire'[f] = wire[f]
    BY <1>1, <1>2, CalmWrite
  <1>4. ASSUME NEW i \in 1..Len(wire'[e]), wire'[e][i].kind = "hello"
        PROVE  i \in 1..Len(wire[e]) /\ wire'[e][i] = wire[e][i]
    <2>1. Len(wire[e]) \in Nat /\ Len(wire'[e]) = Len(wire[e]) + 1
      BY <1>2, <1>3, AppendSeq
    <2>2. wire'[e][Len(wire[e]) + 1] = Encrypt(key[e], NextLine(e))
      BY <1>2, <1>3, AppendSeq
    <2>3. i # Len(wire[e]) + 1
      BY <1>2, <1>4, <2>2
    <2>4. i \in 1..Len(wire[e])
      BY <2>1, <2>3
    <2>. QED
      BY <1>2, <1>3, <2>4, AppendSeq
  <1>5. Calm(e)'
    BY <1>1, <1>3, <1>4, TwoEnds DEF AllCalm, Calm
  <1>6. Calm(Other(e))'
    BY <1>1, <1>3, TwoEnds DEF AllCalm, Calm
  <1>. QED
    BY <1>5, <1>6, TwoEnds DEF AllCalm

LEMMA CalmConsume ==
    ASSUME TypeOK, NEW e \in Ends, Consume(e), HasFrame(e)
    PROVE  /\ wire'[e] = wire[e] /\ wire[Other(e)] # <<>>
           /\ \A i \in 1..Len(wire'[Other(e)]) :
                 /\ wire'[Other(e)][i] = wire[Other(e)][i + 1]
                 /\ i + 1 \in 1..Len(wire[Other(e)]) /\ i + 1 # 1
  <1>1. wire[Other(e)] \in Seq(Frame) /\ Other(e) \in Ends /\ Other(e) # e
    BY TwoEnds DEF TypeOK
  <1>2. /\ wire'[Other(e)] = SubSeq(wire[Other(e)], 2, Len(wire[Other(e)]))
        /\ wire'[e] = wire[e]
    BY <1>1 DEF TypeOK, Consume, Unread
  <1>. QED
    BY <1>1, <1>2, RestSeq DEF HasFrame

LEMMA CalmRecvHello ==
    ASSUME TypeOK, AllCalm, NEW e \in Ends, RecvHello(e)
    PROVE  AllCalm'
  <1>1. /\ main[e] = "await" /\ main' = [main EXCEPT ![e] = "send"]
        /\ receiver' = [receiver EXCEPT ![e] = "reading"]
        /\ UNCHANGED <<open, rst>> /\ Consume(e) /\ HasFrame(e)
    BY DEF RecvHello
  <1>2. /\ wire'[e] = wire[e] /\ wire[Other(e)] # <<>>
        /\ \A i \in 1..Len(wire'[Other(e)]) : wire'[Other(e)][i].kind # "hello"
    BY <1>1, CalmConsume, TwoEnds DEF AllCalm, Calm
  <1>3. main[Other(e)] # "hello"
    BY <1>2, TwoEnds DEF AllCalm, Calm
  <1>4. main'[e] = "send" /\ main'[Other(e)] = main[Other(e)]
    BY <1>1, TwoEnds DEF TypeOK
  <1>5. receiver'[e] = "reading" /\ receiver'[Other(e)] = receiver[Other(e)]
    BY <1>1, TwoEnds DEF TypeOK
  <1>6. Calm(e)'
    BY <1>1, <1>2, <1>4, <1>5, TwoEnds DEF AllCalm, Calm
  <1>7. Calm(Other(e))'
    BY <1>1, <1>2, <1>3, <1>4, <1>5, TwoEnds DEF AllCalm, Calm
  <1>. QED
    BY <1>6, <1>7, TwoEnds DEF AllCalm

LEMMA CalmReceive ==
    ASSUME TypeOK, AllCalm, NEW e \in Ends, Receive(e)
    PROVE  AllCalm'
  <1>1. UNCHANGED <<open, rst, main, receiver>> /\ Consume(e) /\ HasFrame(e)
    BY DEF Receive
  <1>2. /\ wire'[e] = wire[e] /\ wire[Other(e)] # <<>>
        /\ \A i \in 1..Len(wire'[Other(e)]) : wire'[Other(e)][i].kind # "hello"
    BY SMTT(30), <1>1, CalmConsume, TwoEnds DEF AllCalm, Calm
  <1>3. main[Other(e)] # "hello"
    BY <1>2, TwoEnds DEF AllCalm, Calm
  <1>4. Calm(e)' /\ Calm(Other(e))'
    BY <1>1, <1>2, <1>3, TwoEnds DEF AllCalm, Calm
  <1>. QED
    BY <1>4, TwoEnds DEF AllCalm

\* send_loop returning closes nothing: the receive thread has the other handle.
LEMMA CalmInputIsOver ==
    ASSUME TypeOK, AllCalm, NEW e \in Ends, InputIsOver(e) \/ StdinFails(e)
    PROVE  AllCalm'
  <1>1. /\ main[e] = "send" /\ main' = [main EXCEPT ![e] = "join"]
        /\ DropWith(e, {"writer"}, wire[Other(e)]) /\ UNCHANGED receiver
    BY DEF InputIsOver, StdinFails, SendLoopEnds, Drop
  <1>2. "reader" \in open[e] \ {"writer"} /\ open[e] \ {"writer"} # {}
    BY DEF AllCalm, Calm
  <1>3. /\ open' = [open EXCEPT ![e] = @ \ {"writer"}] /\ UNCHANGED rst
        /\ wire' = [wire EXCEPT ![Other(e)] = wire[Other(e)]]
    BY <1>1, <1>2 DEF DropWith
  <1>4. wire' = wire
    BY <1>3 DEF TypeOK
  <1>5. "reader" \in open'[e] /\ open'[Other(e)] = open[Other(e)]
    BY <1>2, <1>3, TwoEnds DEF TypeOK
  <1>6. main'[e] = "join" /\ main'[Other(e)] = main[Other(e)]
    BY <1>1, TwoEnds DEF TypeOK
  <1>7. Calm(e)'
    BY <1>1, <1>3, <1>4, <1>5, <1>6, TwoEnds DEF AllCalm, Calm
  <1>8. Calm(Other(e))'
    BY <1>1, <1>3, <1>4, <1>5, <1>6, TwoEnds DEF AllCalm, Calm
  <1>. QED
    BY <1>7, <1>8, TwoEnds DEF AllCalm

\* The receive thread has nothing to stumble over: every frame that waits for it
\* is a chat frame of the one key.
LEMMA CalmReads ==
    ASSUME TypeOK, Secrets, AllCalm, NEW e \in Ends
    PROVE  ~ ReceiveEnds(e)
  <1>1. SUFFICES ASSUME receiver[e] = "reading", ReadFails(e) PROVE FALSE
    BY DEF ReceiveEnds
  <1>2. ~ StreamOver(e)
    BY TwoEnds DEF AllCalm, Calm, StreamOver, Closed
  <1>3. HasFrame(e) /\ ~ Decrypts(key[e], NextFrame(e))
    BY <1>1, <1>2 DEF ReadFails
  <1>4. /\ NextFrame(e) = wire[Other(e)][1] /\ 1 \in 1..Len(wire[Other(e)])
        /\ NextFrame(e).kind = "chat" => ChatOf(Other(e), NextFrame(e))
    BY <1>3, HelloOfOther
  <1>5. NextFrame(e).kind # "hello"
    BY <1>1, <1>4, TwoEnds DEF AllCalm, Calm
  <1>6. NextFrame(e) \in Frame
    BY <1>4, TwoEnds DEF TypeOK
  <1>7. NextFrame(e).kind = "chat"
    BY <1>5, <1>6 DEF Frame, CreateHello
  <1>8. key[e] = Ends
    BY <1>1 DEF Secrets, Keys
  <1>. QED
    BY <1>3, <1>4, <1>7, <1>8 DEF ChatOf, Decrypts

LEMMA CalmStep ==
    ASSUME IInv, [Next]_vars, Undisturbed'
    PROVE  AllCalm'
  <1>0. TypeOK /\ Secrets
    BY DEF IInv
  <1>1. \A e \in Ends : ~ HandshakeFails(e) /\ ~ Interrupt(e)
    BY <1>0, QuitDisturbs DEF HandshakeFails, Interrupt
  <1>2. \A e \in Ends : Finish(e) => Undisturbed
    <2>1. SUFFICES ASSUME NEW e \in Ends, Finish(e) PROVE Undisturbed
      OBVIOUS
    <2>2. main[e] = "join" /\ outcome' = [outcome EXCEPT ![e] = "finished"]
      BY <2>1 DEF Finish, Quit
    <2>3. outcome[e] = "running"
      BY <1>0, <2>2 DEF Secrets, Exits
    <2>. QED
      BY <1>0, <2>2, <2>3 DEF TypeOK, Undisturbed
  <1>3. Undisturbed
    <2>1. CASE outcome' = outcome
      BY <2>1 DEF Undisturbed
    <2>2. CASE \E e \in Ends : Finish(e)
      BY <1>2, <2>2
    <2>. QED
      BY <1>1, <2>1, <2>2 DEF Next, MainThread, ReceiveThread, User, Kernel, vars, SendHello,
        RecvHello, SkipLine, SendLine, SendFails, InputIsOver, StdinFails, SendLoopEnds,
        Receive, ReceiveEnds, Type, EndInput
  <1>4. AllCalm
    BY <1>3 DEF IInv, AllCalm
  <1>5. \A e \in Ends : ~ Finish(e) /\ ~ SendFails(e) /\ ~ Kernel(e)
    BY <1>4 DEF AllCalm, Calm, Finish, SendFails, WriteFails, Kernel, RstArrives
  <1>6. \A e \in Ends : ~ ReceiveEnds(e)
    BY <1>0, <1>4, CalmReads
  <1>7. CASE UNCHANGED vars
    BY <1>4, <1>7 DEF AllCalm, Calm, vars, tcp
  <1>8. ASSUME NEW e \in Ends, SkipLine(e) \/ Type(e) \/ EndInput(e) PROVE AllCalm'
    BY <1>4, <1>8 DEF AllCalm, Calm, SkipLine, Type, EndInput, tcp
  <1>. QED
    BY <1>0, <1>1, <1>4, <1>5, <1>6, <1>7, <1>8, CalmHello, CalmLine, CalmRecvHello, CalmReceive,
       CalmInputIsOver
    DEF Next, MainThread, ReceiveThread, User

----------------------------------------------------------------------------
(* The theorems.                                                           *)

LEMMA InitInv == Init => IInv
  <1>. SUFFICES ASSUME Init PROVE IInv
    OBVIOUS
  <1>1. TypeOK
    <2>1. \A S : <<>> \in Seq(S)
      BY EmptySeqs
    <2>. QED
      BY <2>1, MaxLinesAssumption DEF Init, TcpInit, TypeOK, Handles
  <1>2. \A e \in Ends : 1..Len(wire[e]) = {}
    BY EmptySeqs DEF Init, TcpInit
  <1>3. Secrets
    BY <1>2, TwoEnds DEF Init, Secrets, Invited, Exits, Keys, Frames, PrintedByInvited
  <1>4. \A e \in Ends : Calm(e)
    BY <1>2, TwoEnds DEF Init, TcpInit, Calm, Handles
  <1>. QED
    BY <1>1, <1>3, <1>4 DEF IInv

\* The inductive invariant of two chatting CLI processes (run_session and
\* send_loop of p2p.rs): keys come from hellos, hellos come first, and nothing
\* closes before somebody is interrupted or a handshake fails.
THEOREM Invariance == Spec => []IInv
  <1>1. Init => IInv
    BY InitInv
  <1>2. IInv /\ [Next]_vars => IInv'
    BY TypeStep, SecretsStep, CalmStep DEF IInv, AllCalm
  <1>. QED
    BY <1>1, <1>2, PTL DEF Spec

\* Every variable of a chat between two CLI processes keeps its type.
THEOREM TypeCorrect == Spec => []TypeOK
  <1>1. IInv => TypeOK
    BY DEF IInv
  <1>. QED
    BY <1>1, Invariance, PTL

\* run_session of p2p.rs: a joiner whose connection was accepted by somebody
\* else than the inviter never prints a line, and has no line printed.
THEOREM StrangersStaySilent == Spec => []PrintsNoStranger
  <1>1. IInv => PrintsNoStranger
    BY DEF IInv, Secrets, Invited, PrintedByInvited, PrintsNoStranger
  <1>. QED
    BY <1>1, Invariance, PTL

\* join() after send_loop in run_session of p2p.rs: the end of both inputs does
\* not end a chat.
THEOREM ProcessesWaitForEachOther == Spec => []SomebodyMustInterrupt
  <1>1. IInv => SomebodyMustInterrupt
    <2>1. SUFFICES ASSUME IInv, Undisturbed, NEW e \in Ends, outcome[e] = "finished" PROVE FALSE
      BY DEF SomebodyMustInterrupt, Undisturbed
    <2>2. main[e] = "exited"
      BY <2>1 DEF IInv, Secrets, Exits
    <2>. QED
      BY <2>1, <2>2 DEF IInv, Calm
  <1>. QED
    BY <1>1, Invariance, PTL

----------------------------------------------------------------------------
(* What every line on its way is: the invariant behind the promise.        *)

\* The line that position i of an input stands for, or stands before.
LineAt(q, i) == IF q[i] # Blank THEN q[i] ELSE q[i + 1]

\* The first line that the process has not read.
FirstLine(e) == IF input[e] = <<>> THEN typed[e] + 1 ELSE LineAt(input[e], 1)

\* The lines of an input count on from one to the next, up to the last one typed.
Counts(q, last) ==
    /\ \A i \in 1..Len(q) : q[i] <= last
    /\ \A i \in 1..Len(q) : q[i] = Blank => i < Len(q) /\ q[i + 1] # Blank
    /\ \A i \in 1..(Len(q) - 1) : q[i] # Blank => LineAt(q, i + 1) = q[i] + 1
    /\ q # <<>> => q[Len(q)] = last

InputCounts(e) ==
    /\ Counts(input[e], typed[e])
    /\ \A n \in 1..typed[e] : n >= FirstLine(e) => Waits(e, n)

\* A thread has its handle until it ends, and a reset comes from a closed socket.
Holds(e) ==
    /\ main[e] \in {"hello", "await", "send"} => "writer" \in open[e]
    /\ receiver[e] # "ended" => "reader" \in open[e]
    /\ rst[e] # "none" => Closed(Other(e))

\* The hello is still to be read by e.
Before(e) == IF receiver[e] = "none" THEN 1 ELSE 0

\* What e has on the wire goes on where the print of the other end stops, and
\* its input goes on where the wire stops.
Flow(e) == receiver[Other(e)] # "ended" =>
    /\ receiver[Other(e)] = "none" => printed[Other(e)] = <<>>
    /\ main[e] = "hello" =>
          wire[e] = <<>> /\ receiver[Other(e)] = "none" /\ FirstLine(e) = 1
    /\ main[e] \in {"await", "send"} =>
          FirstLine(e) = Len(printed[Other(e)]) + Len(wire[e]) + 1 - Before(Other(e))
    /\ \A i \in 1..Len(wire[e]) :
          /\ wire[e][i].kind = "hello" <=> i = 1 /\ receiver[Other(e)] = "none"
          /\ wire[e][i].kind = "chat" =>
                /\ wire[e][i].body = Len(printed[Other(e)]) + i - Before(Other(e))
                /\ wire[e][i].body <= typed[e]

Good == \A e \in Ends : InputCounts(e) /\ Holds(e) /\ Flow(e)

LEMMA NoElements == \A S : \A q \in Seq(S) : q = <<>> <=> Len(q) = 0
  OBVIOUS

LEMMA TailIndex == \A S : \A q \in Seq(S) : q # <<>> =>
    /\ Len(q) \in Nat /\ Len(q) >= 1
    /\ Tail(q) \in Seq(S) /\ Len(Tail(q)) = Len(q) - 1
    /\ \A i \in 1..Len(Tail(q)) : Tail(q)[i] = q[i + 1]
    /\ Tail(q) = <<>> <=> Len(q) = 1
  <1>. SUFFICES ASSUME NEW S, NEW q \in Seq(S), q # <<>>
                PROVE  /\ Len(q) \in Nat /\ Len(q) >= 1
                       /\ Tail(q) \in Seq(S) /\ Len(Tail(q)) = Len(q) - 1
                       /\ \A i \in 1..Len(Tail(q)) : Tail(q)[i] = q[i + 1]
                       /\ Tail(q) = <<>> <=> Len(q) = 1
    OBVIOUS
  <1>1. /\ Len(q) \in Nat /\ Len(q) >= 1
        /\ Tail(q) \in Seq(S) /\ Len(Tail(q)) = Len(q) - 1
        /\ \A i \in 1..Len(Tail(q)) : Tail(q)[i] = q[i + 1]
    OBVIOUS
  <1>. QED
    BY <1>1, NoElements

LEMMA CountsTail ==
    ASSUME NEW last \in Nat, NEW q \in Seq(Nat), q # <<>>, Counts(q, last)
    PROVE  /\ Counts(Tail(q), last)
           /\ q[1] = Blank => Tail(q) # <<>> /\ LineAt(Tail(q), 1) = LineAt(q, 1)
           /\ q[1] # Blank =>
                 (IF Tail(q) = <<>> THEN last + 1 ELSE LineAt(Tail(q), 1)) = q[1] + 1
  <1>1. /\ Len(q) \in Nat /\ Len(q) >= 1
        /\ Tail(q) \in Seq(Nat) /\ Len(Tail(q)) = Len(q) - 1
        /\ \A i \in 1..Len(Tail(q)) : Tail(q)[i] = q[i + 1]
        /\ Tail(q) = <<>> <=> Len(q) = 1
    BY TailIndex
  <1>2. \A i \in 1..Len(Tail(q)) : i + 1 \in 1..Len(q) /\ i \in Nat
    BY <1>1
  <1>3. ASSUME NEW i \in 1..Len(Tail(q))
        PROVE  LineAt(Tail(q), i) = LineAt(q, i + 1)
    <2>1. Tail(q)[i] = q[i + 1] /\ i + 1 \in 1..Len(q)
      BY <1>1, <1>2
    <2>2. CASE q[i + 1] # Blank
      BY <2>1, <2>2 DEF LineAt
    <2>3. CASE q[i + 1] = Blank
      <3>1. i + 1 < Len(q)
        BY <2>1, <2>3 DEF Counts
      <3>2. i + 1 \in 1..Len(Tail(q))
        BY <1>1, <1>2, <3>1
      <3>3. Tail(q)[i + 1] = q[(i + 1) + 1]
        BY <1>1, <3>2
      <3>. QED
        BY <2>1, <2>3, <3>3 DEF LineAt
    <2>. QED
      BY <2>2, <2>3
  <1>4. \A i \in 1..Len(Tail(q)) : Tail(q)[i] <= last
    BY <1>1, <1>2 DEF Counts
  <1>5. ASSUME NEW i \in 1..Len(Tail(q)), Tail(q)[i] = Blank
        PROVE  i < Len(Tail(q)) /\ Tail(q)[i + 1] # Blank
    <2>1. q[i + 1] = Blank /\ i + 1 \in 1..Len(q)
      BY <1>1, <1>2, <1>5
    <2>2. i + 1 < Len(q) /\ q[(i + 1) + 1] # Blank
      BY <2>1 DEF Counts
    <2>3. i + 1 \in 1..Len(Tail(q))
      BY <1>1, <1>2, <2>2
    <2>4. Tail(q)[i + 1] = q[(i + 1) + 1]
      BY <1>1, <2>3
    <2>. QED
      BY <1>1, <1>2, <2>2, <2>3, <2>4
  <1>6. ASSUME NEW i \in 1..(Len(Tail(q)) - 1), Tail(q)[i] # Blank
        PROVE  LineAt(Tail(q), i + 1) = Tail(q)[i] + 1
    <2>1. i \in 1..Len(Tail(q)) /\ i + 1 \in 1..Len(Tail(q)) /\ i + 1 \in 1..(Len(q) - 1)
      BY <1>1
    <2>2. Tail(q)[i] = q[i + 1] /\ LineAt(Tail(q), i + 1) = LineAt(q, (i + 1) + 1)
      BY <1>1, <1>3, <2>1
    <2>. QED
      BY <1>6, <2>1, <2>2 DEF Counts
  <1>7. ASSUME Tail(q) # <<>> PROVE Tail(q)[Len(Tail(q))] = last
    <2>1. Len(Tail(q)) \in 1..Len(Tail(q)) /\ Len(Tail(q)) + 1 = Len(q)
      BY <1>1, <1>7
    <2>2. Tail(q)[Len(Tail(q))] = q[Len(q)]
      BY <1>1, <2>1
    <2>. QED
      BY <2>2 DEF Counts
  <1>8. Counts(Tail(q), last)
    BY <1>4, <1>5, <1>6, <1>7 DEF Counts
  <1>9. ASSUME q[1] = Blank PROVE Tail(q) # <<>> /\ LineAt(Tail(q), 1) = LineAt(q, 1)
    <2>1. 1 \in 1..Len(q)
      BY <1>1
    <2>2. 1 < Len(q) /\ q[1 + 1] # Blank
      BY <1>9, <2>1 DEF Counts
    <2>3. 1 \in 1..Len(Tail(q))
      BY <1>1, <2>2
    <2>4. LineAt(Tail(q), 1) = LineAt(q, 1 + 1)
      BY <1>3, <2>3
    <2>. QED
      BY SMTT(30), <1>1, <1>9, <2>2, <2>4 DEF LineAt
  <1>10. ASSUME q[1] # Blank
         PROVE  (IF Tail(q) = <<>> THEN last + 1 ELSE LineAt(Tail(q), 1)) = q[1] + 1
    <2>1. CASE Len(q) = 1
      BY <1>1, <2>1 DEF Counts
    <2>2. CASE Len(q) # 1
      <3>1. 1 \in 1..(Len(q) - 1) /\ 1 \in 1..Len(Tail(q))
        BY <1>1, <2>2
      <3>2. LineAt(q, 1 + 1) = q[1] + 1
        BY <1>10, <3>1 DEF Counts
      <3>3. LineAt(Tail(q), 1) = LineAt(q, 1 + 1)
        BY <1>3, <3>1
      <3>. QED
        BY <1>1, <2>2, <3>2, <3>3
    <2>. QED
      BY <2>1, <2>2
  <1>. QED
    BY <1>8, <1>9, <1>10

\* A line is typed, after a blank one or not.
LEMMA CountsType ==
    ASSUME NEW last \in Nat, NEW q \in Seq(Nat), Counts(q, last),
           NEW r \in Seq(Nat), \A i \in 1..Len(q) : r[i] = q[i],
           \/ Len(r) = Len(q) + 1 /\ r[Len(q) + 1] = last + 1
           \/ /\ Len(r) = Len(q) + 2
              /\ r[Len(q) + 1] = Blank /\ r[Len(q) + 2] = last + 1
    PROVE  /\ Counts(r, last + 1) /\ r # <<>>
           /\ LineAt(r, 1) = IF q = <<>> THEN last + 1 ELSE LineAt(q, 1)
  <1>1. /\ Len(q) \in Nat /\ Len(r) \in Nat /\ last + 1 # Blank /\ Blank \in Nat
        /\ \A i \in 1..Len(q) : q[i] \in Nat
    BY DEF Blank
  <1>2. r[Len(r)] = last + 1 /\ Len(r) > Len(q)
    BY <1>1
  <1>3. \A i \in 1..Len(r) :
            \/ i \in 1..Len(q) \/ i = Len(r)
            \/ r[i] = Blank /\ i = Len(q) + 1 /\ i + 1 = Len(r)
    BY <1>1
  <1>4. \A i \in 1..Len(r) : r[i] <= last + 1
    <2>1. \A i \in 1..Len(q) : r[i] <= last /\ r[i] \in Nat
      BY <1>1 DEF Counts
    <2>2. \A n \in Nat : n <= last => n <= last + 1
      OBVIOUS
    <2>3. Blank <= last + 1 /\ last + 1 <= last + 1
      BY DEF Blank
    <2>. QED
      BY <1>2, <1>3, <2>1, <2>2, <2>3
  <1>5. ASSUME NEW i \in 1..Len(r), r[i] = Blank PROVE i < Len(r) /\ r[i + 1] # Blank
    <2>1. CASE i \in 1..Len(q)
      <3>1. i < Len(q) /\ q[i + 1] # Blank
        BY <1>5, <2>1 DEF Counts
      <3>2. i + 1 \in 1..Len(q)
        BY <1>1, <2>1, <3>1
      <3>3. r[i + 1] = q[i + 1]
        BY <3>2
      <3>4. i < Len(r)
        BY <1>1, <1>2, <2>1
      <3>. QED
        BY <3>1, <3>3, <3>4
    <2>2. CASE i = Len(r)
      BY <1>1, <1>2, <1>5, <2>2
    <2>3. CASE i = Len(q) + 1 /\ i + 1 = Len(r)
      BY <1>1, <1>2, <2>3
    <2>. QED
      BY <1>3, <2>1, <2>2, <2>3
  \* The line after the last one of q.
  <1>6. LineAt(r, Len(q) + 1) = last + 1
    BY <1>1 DEF LineAt
  <1>7. ASSUME NEW i \in 1..Len(q) PROVE LineAt(r, i) = LineAt(q, i)
    <2>1. CASE q[i] # Blank
      BY <2>1 DEF LineAt
    <2>2. CASE q[i] = Blank
      <3>1. i < Len(q)
        BY <2>2 DEF Counts
      <3>2. i + 1 \in 1..Len(q)
        BY <1>1, <3>1
      <3>. QED
        BY <2>2, <3>2 DEF LineAt
    <2>. QED
      BY <2>1, <2>2
  <1>8. ASSUME NEW i \in 1..(Len(r) - 1), r[i] # Blank PROVE LineAt(r, i + 1) = r[i] + 1
    <2>1. i \in 1..Len(q)
      BY <1>1, <1>3, <1>8
    <2>2. CASE i = Len(q)
      <3>1. q[i] = last
        BY <1>1, <2>1, <2>2 DEF Counts
      <3>. QED
        BY <1>6, <2>1, <2>2, <3>1
    <2>3. CASE i # Len(q)
      <3>1. i \in 1..(Len(q) - 1) /\ i + 1 \in 1..Len(q) /\ q[i] # Blank
        <4>1. q[i] # Blank
          BY <1>8, <2>1
        <4>2. \A m, k \in Nat : (1 <= k /\ k <= m /\ k # m) => (k <= m - 1 /\ k + 1 <= m)
          OBVIOUS
        <4>3. i \in Nat /\ 1 <= i /\ i <= Len(q)
          BY <1>1, <2>1
        <4>4. i <= Len(q) - 1 /\ i + 1 <= Len(q)
          BY <1>1, <2>3, <4>2, <4>3
        <4>. QED
          BY <1>1, <4>1, <4>3, <4>4
      <3>2. LineAt(q, i + 1) = q[i] + 1
        BY <3>1 DEF Counts
      <3>. QED
        BY <1>7, <2>1, <3>1, <3>2
    <2>. QED
      BY <2>2, <2>3
  <1>9. Counts(r, last + 1)
    BY <1>2, <1>4, <1>5, <1>8 DEF Counts
  <1>10. r # <<>>
    BY <1>1, <1>2, NoElements
  <1>11. LineAt(r, 1) = IF q = <<>> THEN last + 1 ELSE LineAt(q, 1)
    <2>1. CASE q = <<>>
      <3>1. Len(q) = 0
        BY <2>1, EmptySeqs
      <3>. QED
        BY <1>6, <2>1, <3>1
    <2>2. CASE q # <<>>
      <3>1. 1 \in 1..Len(q)
        BY <1>1, <2>2, NoElements
      <3>. QED
        BY <1>7, <2>2, <3>1
    <2>. QED
      BY <2>1, <2>2
  <1>. QED
    BY <1>9, <1>10, <1>11

LEMMA InputNats ==
    ASSUME TypeOK, NEW e \in Ends
    PROVE  input[e] \in Seq(Nat) /\ typed[e] \in Nat
  <1>1. 0..MaxLines \subseteq Nat
    BY MaxLinesAssumption
  <1>2. input[e] \in Seq(0..MaxLines) /\ typed[e] \in 0..MaxLines
    BY DEF TypeOK
  <1>3. \A S, T : S \subseteq T => Seq(S) \subseteq Seq(T)
    OBVIOUS
  <1>4. Seq(0..MaxLines) \subseteq Seq(Nat)
    BY <1>1, <1>3, Zenon
  <1>. QED
    BY <1>1, <1>2, <1>4

\* One line of the input is read.
LEMMA LineRead ==
    ASSUME TypeOK, NEW e \in Ends, InputCounts(e), input[e] # <<>>, ReadLine(e), UNCHANGED typed
    PROVE  /\ InputCounts(e)'
           /\ NextLine(e) = Blank => FirstLine(e)' = FirstLine(e)
           /\ NextLine(e) # Blank => /\ FirstLine(e)' = FirstLine(e) + 1
                                     /\ FirstLine(e) = NextLine(e)
                                     /\ NextLine(e) <= typed[e] /\ NextLine(e) \in Nat \ {0}
           /\ \A f \in Ends : f # e => input'[f] = input[f]
  <1>1. input[e] \in Seq(Nat) /\ typed[e] \in Nat
    BY InputNats
  <1>2. input'[e] = Tail(input[e]) /\ \A f \in Ends : f # e => input'[f] = input[f]
    BY DEF ReadLine, TypeOK
  <1>3. /\ Counts(input[e], typed[e])
        /\ \A n \in 1..typed[e] : n >= FirstLine(e) => Waits(e, n)
    BY DEF InputCounts
  <1>4. /\ Counts(input'[e], typed[e])
        /\ input[e][1] = Blank =>
              input'[e] # <<>> /\ LineAt(input'[e], 1) = LineAt(input[e], 1)
        /\ input[e][1] # Blank =>
              (IF input'[e] = <<>> THEN typed[e] + 1 ELSE LineAt(input'[e], 1)) = input[e][1] + 1
    BY <1>1, <1>2, <1>3, CountsTail
  <1>5. NextLine(e) = input[e][1] /\ input[e][1] \in Nat /\ input[e][1] <= typed[e]
    BY <1>1, <1>3, TailSeq DEF NextLine, Counts
  <1>6. NextLine(e) # Blank => FirstLine(e) = NextLine(e)
    BY <1>5 DEF FirstLine, LineAt
  <1>7. /\ NextLine(e) = Blank => FirstLine(e)' = FirstLine(e)
        /\ NextLine(e) # Blank => FirstLine(e)' = FirstLine(e) + 1
    BY <1>2, <1>4, <1>5, <1>6 DEF FirstLine, Blank
  <1>8. ASSUME NEW n \in 1..typed[e], n >= FirstLine(e)'
        PROVE  Waits(e, n)'
    <2>1. n # NextLine(e) /\ n >= FirstLine(e)
      <3>1. n \in Nat /\ n # Blank
        BY <1>1 DEF Blank
      <3>. QED
        BY <1>5, <1>6, <1>7, <1>8, <3>1
    <2>2. PICK i \in 1..Len(input[e]) : input[e][i] = n
      BY <1>3, <2>1 DEF Waits
    <2>3. i # 1
      BY <1>5, <2>1, <2>2
    <2>4. i - 1 \in 1..Len(Tail(input[e])) /\ Tail(input[e])[i - 1] = input[e][(i - 1) + 1]
      BY <1>1, <2>2, <2>3, TailIndex
    <2>. QED
      BY <1>2, <2>2, <2>4 DEF Waits
  <1>. QED
    BY <1>2, <1>4, <1>5, <1>6, <1>7, <1>8 DEF InputCounts, Blank

LEMMA LineTyped ==
    ASSUME TypeOK, NEW e \in Ends, InputCounts(e), Type(e)
    PROVE  /\ InputCounts(e)' /\ FirstLine(e)' = FirstLine(e)
           /\ typed'[e] = typed[e] + 1
           /\ \A f \in Ends : f # e => input'[f] = input[f] /\ typed'[f] = typed[f]
  <1>1. input[e] \in Seq(Nat) /\ typed[e] \in Nat
    BY InputNats
  <1>2. /\ typed'[e] = typed[e] + 1
        /\ \A f \in Ends : f # e => typed'[f] = typed[f]
    BY DEF Type, TypeOK
  <1>3. PICK blank \in {<<>>, <<Blank>>} :
            input' = [input EXCEPT ![e] = @ \o blank \o <<typed[e] + 1>>]
    BY DEF Type
  <1>4. /\ input'[e] = input[e] \o blank \o <<typed[e] + 1>>
        /\ \A f \in Ends : f # e => input'[f] = input[f]
    BY <1>3 DEF TypeOK
  <1>5. /\ input'[e] \in Seq(Nat) /\ \A i \in 1..Len(input[e]) : input'[e][i] = input[e][i]
        /\ \/ /\ Len(input'[e]) = Len(input[e]) + 1
              /\ input'[e][Len(input[e]) + 1] = typed[e] + 1
           \/ /\ Len(input'[e]) = Len(input[e]) + 2
              /\ input'[e][Len(input[e]) + 1] = Blank
              /\ input'[e][Len(input[e]) + 2] = typed[e] + 1
    <2>1. typed[e] + 1 \in Nat /\ Blank \in Nat
      BY <1>1 DEF Blank
    <2>2. CASE blank = <<>>
      <3>1. input'[e] = Append(input[e], typed[e] + 1)
        BY <1>1, <1>4, <2>1, <2>2
      <3>. QED
        BY <1>1, <2>1, <3>1, AppendSeq
    <2>3. CASE blank = <<Blank>>
      <3>1. input'[e] = Append(Append(input[e], Blank), typed[e] + 1)
        BY <1>1, <1>4, <2>1, <2>3
      <3>2. /\ Append(input[e], Blank) \in Seq(Nat)
            /\ Len(input[e]) \in Nat /\ Len(Append(input[e], Blank)) = Len(input[e]) + 1
            /\ Append(input[e], Blank)[Len(input[e]) + 1] = Blank
            /\ \A i \in 1..Len(input[e]) : Append(input[e], Blank)[i] = input[e][i]
        BY <1>1, <2>1, AppendSeq
      <3>3. /\ input'[e] \in Seq(Nat)
            /\ Len(input'[e]) = Len(Append(input[e], Blank)) + 1
            /\ input'[e][Len(Append(input[e], Blank)) + 1] = typed[e] + 1
            /\ \A i \in 1..Len(Append(input[e], Blank)) :
                  input'[e][i] = Append(input[e], Blank)[i]
        BY <2>1, <3>1, <3>2, AppendSeq
      <3>. QED
        <4>1. \A i \in 1..Len(input[e]) : i \in 1..Len(Append(input[e], Blank))
          BY <3>2
        <4>2. Len(input[e]) + 1 \in 1..Len(Append(input[e], Blank))
          BY <3>2
        <4>3. \A i \in 1..Len(input[e]) : input'[e][i] = input[e][i]
          BY <3>2, <3>3, <4>1
        <4>4. input'[e][Len(input[e]) + 1] = Blank
          BY <3>2, <3>3, <4>2
        <4>5. Len(input'[e]) = Len(input[e]) + 2
          BY <3>2, <3>3
        <4>6. input'[e][Len(input[e]) + 2] = typed[e] + 1
          <5>1. Len(Append(input[e], Blank)) + 1 = Len(input[e]) + 2
            BY <3>2
          <5>. QED
            BY <3>3, <5>1
        <4>. QED
          BY <3>3, <4>3, <4>4, <4>5, <4>6
    <2>. QED
      BY <2>2, <2>3
  <1>6. Counts(input[e], typed[e])
    BY DEF InputCounts
  <1>7. /\ Counts(input'[e], typed[e] + 1) /\ input'[e] # <<>>
        /\ LineAt(input'[e], 1) = IF input[e] = <<>> THEN typed[e] + 1 ELSE LineAt(input[e], 1)
    BY <1>1, <1>5, <1>6, CountsType
  <1>8. Counts(input'[e], typed'[e]) /\ FirstLine(e)' = FirstLine(e)
    BY <1>2, <1>4, <1>7 DEF FirstLine
  <1>9. ASSUME NEW n \in 1..typed'[e], n >= FirstLine(e)
        PROVE  Waits(e, n)'
    <2>1. CASE n = typed[e] + 1
      <3>1. Len(input'[e]) \in 1..Len(input'[e]) /\ input'[e][Len(input'[e])] = typed[e] + 1
        BY <1>1, <1>5
      <3>. QED
        BY <2>1, <3>1 DEF Waits
    <2>2. CASE n # typed[e] + 1
      <3>1. n \in 1..typed[e]
        BY <1>1, <1>2, <2>2
      <3>2. PICK i \in 1..Len(input[e]) : input[e][i] = n
        BY <1>9, <3>1 DEF InputCounts, Waits
      <3>3. i \in 1..Len(input'[e]) /\ input'[e][i] = n
        BY SMTT(30), <1>1, <1>5, <3>2
      <3>. QED
        BY <3>3 DEF Waits
    <2>. QED
      BY <2>1, <2>2
  <1>. QED
    BY <1>2, <1>4, <1>8, <1>9 DEF InputCounts

----------------------------------------------------------------------------
(* The flow from one end to the other, step by step.                       *)

\* What does not touch a direction keeps it, unless the writer stops reading
\* its input, or the other end stops printing.
LEMMA FlowSame ==
    ASSUME NEW e \in Ends, Flow(e), typed[e] \in Nat, typed'[e] \in Nat, typed[e] <= typed'[e],
           TypeOK, receiver'[Other(e)] = receiver[Other(e)], printed'[Other(e)] = printed[Other(e)],
           wire'[e] = wire[e],
           \/ main'[e] \in {"join", "exited"}
           \/ /\ main'[e] = main[e] \/ (main[e] = "await" /\ main'[e] = "send")
              /\ FirstLine(e)' = FirstLine(e)
    PROVE  Flow(e)'
  <1>1. SUFFICES ASSUME receiver[Other(e)] # "ended" PROVE Flow(e)'
    BY DEF Flow
  <1>2. Before(Other(e))' = Before(Other(e))
    BY DEF Before
  <1>3. /\ receiver'[Other(e)] = "none" => printed'[Other(e)] = <<>>
        /\ main'[e] = "hello" =>
              wire'[e] = <<>> /\ receiver'[Other(e)] = "none" /\ FirstLine(e)' = 1
        /\ main'[e] \in {"await", "send"} =>
              FirstLine(e)' = Len(printed'[Other(e)]) + Len(wire'[e]) + 1 - Before(Other(e))
    BY <1>1 DEF Flow
  <1>4. ASSUME NEW i \in 1..Len(wire'[e])
        PROVE  /\ wire'[e][i].kind = "hello" <=> i = 1 /\ receiver'[Other(e)] = "none"
               /\ wire'[e][i].kind = "chat" =>
                     /\ wire'[e][i].body = Len(printed'[Other(e)]) + i - Before(Other(e))
                     /\ wire'[e][i].body <= typed'[e]
    <2>1. /\ wire[e][i].kind = "hello" <=> i = 1 /\ receiver[Other(e)] = "none"
          /\ wire[e][i].kind = "chat" =>
                /\ wire[e][i].body = Len(printed[Other(e)]) + i - Before(Other(e))
                /\ wire[e][i].body <= typed[e]
      BY <1>1, <1>4 DEF Flow
    <2>2. wire[e][i] \in Frame
      BY <1>4 DEF TypeOK
    <2>3. wire[e][i].kind = "chat" => wire[e][i].body \in Nat
      BY <2>2, FrameTypes
    <2>. QED
      BY <2>1, <2>3
  <1>. QED
    BY <1>2, <1>3, <1>4 DEF Flow

LEMMA FlowEnded ==
    ASSUME NEW e \in Ends, receiver'[Other(e)] = "ended"
    PROVE  Flow(e)'
  BY DEF Flow

\* What stays equal when a line moves from one place to the next.
LEMMA Sums == \A m, n, i, b \in Int :
    /\ (m + 1 - b) + (n - 1) + 1 - 0 = m + n + 1 - b
    /\ (m + 1 - b) + i - 0 = m + (i + 1) - b
    /\ m + (n + 1) + 1 - b = (m + n + 1 - b) + 1
    /\ m + (n + 1) - b = m + n + 1 - b
  OBVIOUS

\* The other end reads the first frame of e.
LEMMA FlowRead ==
    ASSUME TypeOK, NEW e \in Ends, Flow(e), HasFrame(Other(e)), Consume(Other(e)),
           receiver[Other(e)] # "ended", receiver'[Other(e)] = "reading",
           UNCHANGED typed, main'[e] = main[e], input'[e] = input[e],
           Len(printed'[Other(e)]) = Len(printed[Other(e)]) + 1 - Before(Other(e))
    PROVE  Flow(e)'
  <1>. DEFINE o == Other(e)
              w == wire[e]
  <1>1. /\ o \in Ends /\ Other(o) = e /\ w \in Seq(Frame) /\ w # <<>>
        /\ Len(printed[o]) \in Int /\ Before(o) \in Int
    <2>1. o \in Ends /\ Other(o) = e
      BY TwoEnds
    <2>2. printed[o] \in Seq(1..MaxLines) /\ w \in Seq(Frame)
      BY <2>1 DEF TypeOK
    <2>. QED
      BY <2>1, <2>2 DEF HasFrame, Before
  <1>2. /\ Len(w) \in Nat /\ Len(w) >= 1
        /\ wire'[e] = SubSeq(w, 2, Len(w)) /\ Len(wire'[e]) = Len(w) - 1
        /\ \A i \in 1..Len(wire'[e]) : /\ wire'[e][i] = w[i + 1] /\ i + 1 \in 1..Len(w)
                                       /\ i + 1 # 1 /\ i \in Nat
    <2>1. wire'[e] = SubSeq(w, 2, Len(w))
      BY <1>1 DEF TypeOK, Consume, Unread
    <2>2. Len(w) \in Nat /\ Len(w) >= 1
      BY <1>1, NoElements
    <2>3. Len(SubSeq(w, 2, Len(w))) = Len(w) - 1
      BY <1>1, <2>2
    <2>. QED
      BY <1>1, <2>1, <2>2, <2>3, RestSeq
  <1>3. main[e] # "hello"
    BY <1>1 DEF Flow
  <1>4. FirstLine(e)' = FirstLine(e) /\ Before(o)' = 0
    BY DEF FirstLine, Before
  <1>5. main[e] \in {"await", "send"} =>
            FirstLine(e)' = Len(printed'[o]) + Len(wire'[e]) + 1 - 0
    <2>1. main[e] \in {"await", "send"} =>
              FirstLine(e) = Len(printed[o]) + Len(w) + 1 - Before(o)
      BY DEF Flow
    <2>2. Len(printed'[o]) = Len(printed[o]) + 1 - Before(o) /\ Len(wire'[e]) = Len(w) - 1
      BY <1>2
    <2>3. Len(w) \in Int
      BY <1>2
    <2>4. (Len(printed[o]) + 1 - Before(o)) + (Len(w) - 1) + 1 - 0
            = Len(printed[o]) + Len(w) + 1 - Before(o)
      BY ZenonT(40), <1>1, <2>3, Sums
    <2>. QED
      BY <1>4, <2>1, <2>2, <2>4
  <1>6. ASSUME NEW i \in 1..Len(wire'[e])
        PROVE  /\ wire'[e][i].kind # "hello"
               /\ wire'[e][i].kind = "chat" =>
                     /\ wire'[e][i].body = Len(printed'[o]) + i - 0
                     /\ wire'[e][i].body <= typed'[e]
    <2>1. wire'[e][i] = w[i + 1] /\ i + 1 \in 1..Len(w) /\ i + 1 # 1 /\ i \in Nat
      BY <1>2
    <2>2. /\ w[i + 1].kind # "hello"
          /\ w[i + 1].kind = "chat" => /\ w[i + 1].body = Len(printed[o]) + (i + 1) - Before(o)
                                       /\ w[i + 1].body <= typed[e]
      BY <2>1 DEF Flow
    <2>3. i \in Int /\ Len(printed'[o]) = Len(printed[o]) + 1 - Before(o)
      BY <2>1
    <2>4. (Len(printed[o]) + 1 - Before(o)) + i - 0 = Len(printed[o]) + (i + 1) - Before(o)
      BY ZenonT(40), <1>1, <2>3, Sums
    <2>. QED
      BY <2>1, <2>2, <2>3, <2>4
  <1>. QED
    BY <1>3, <1>4, <1>5, <1>6 DEF Flow

\* e writes a frame: its hello, or the next line of its input.
LEMMA FlowWrite ==
    ASSUME TypeOK, NEW e \in Ends, Flow(e), Holds(Other(e)), NEW frame \in Frame, Write(e, frame),
           UNCHANGED <<receiver, printed, typed>>, typed[e] \in Nat,
           \/ /\ main[e] = "hello" /\ main'[e] = "await" /\ FirstLine(e)' = FirstLine(e)
              /\ frame.kind = "hello"
           \/ /\ main[e] = "send" /\ main'[e] = "send" /\ FirstLine(e)' = FirstLine(e) + 1
              /\ frame.kind = "chat" /\ frame.body = FirstLine(e)
              /\ FirstLine(e) \in Nat \ {0} /\ FirstLine(e) <= typed[e]
    PROVE  Flow(e)'
  <1>. DEFINE o == Other(e)
              w == wire[e]
  <1>1. SUFFICES ASSUME receiver[o] # "ended" PROVE Flow(e)'
    BY DEF Flow
  <1>2. /\ o \in Ends /\ w \in Seq(Frame) /\ Len(w) \in Nat
        /\ Len(printed[o]) \in Int /\ Before(o) \in Int /\ Before(o)' = Before(o)
    <2>1. o \in Ends
      BY TwoEnds
    <2>2. printed[o] \in Seq(1..MaxLines) /\ w \in Seq(Frame)
      BY <2>1 DEF TypeOK
    <2>. QED
      BY <2>1, <2>2 DEF Before
  <1>3. ~ Closed(o)
    BY <1>1 DEF Holds, Closed
  <1>4. wire'[e] = Append(w, frame)
    BY <1>3 DEF Write, TypeOK
  <1>5. /\ Len(wire'[e]) = Len(w) + 1 /\ wire'[e][Len(w) + 1] = frame
        /\ \A i \in 1..Len(w) : wire'[e][i] = w[i]
    BY <1>2, <1>4, AppendSeq
  <1>6. /\ receiver[o] = "none" => printed[o] = <<>>
        /\ \A i \in 1..Len(w) :
              /\ w[i].kind = "hello" <=> i = 1 /\ receiver[o] = "none"
              /\ w[i].kind = "chat" => /\ w[i].body = Len(printed[o]) + i - Before(o)
                                       /\ w[i].body <= typed[e]
    BY <1>1 DEF Flow
  <1>7. \A i \in 1..Len(wire'[e]) : i \in 1..Len(w) \/ i = Len(w) + 1
    BY <1>2, <1>5
  <1>8. CASE main[e] = "hello"
    <2>1. /\ main'[e] = "await" /\ FirstLine(e)' = FirstLine(e) /\ frame.kind = "hello"
          /\ w = <<>> /\ receiver[o] = "none" /\ FirstLine(e) = 1
      BY <1>1, <1>8 DEF Flow
    <2>2. Len(w) = 0 /\ Before(o) = 1 /\ Len(printed[o]) = 0
      BY <1>6, <2>1, EmptySeqs DEF Before
    <2>3. \A i \in 1..Len(wire'[e]) : i = 1 /\ wire'[e][i] = frame
      BY <1>5, <2>2
    <2>4. FirstLine(e)' = Len(printed'[o]) + Len(wire'[e]) + 1 - Before(o)'
      BY <1>2, <1>5, <2>1, <2>2
    <2>. QED
      BY <1>6, <2>1, <2>3, <2>4 DEF Flow
  <1>9. CASE main[e] = "send"
    <2>1. /\ main'[e] = "send" /\ FirstLine(e)' = FirstLine(e) + 1
          /\ frame.kind = "chat" /\ frame.body = FirstLine(e)
          /\ FirstLine(e) \in Nat \ {0} /\ FirstLine(e) <= typed[e]
      BY <1>9
    <2>2. FirstLine(e) = Len(printed[o]) + Len(w) + 1 - Before(o)
      BY <1>1, <1>9 DEF Flow
    <2>3. FirstLine(e)' = Len(printed'[o]) + Len(wire'[e]) + 1 - Before(o)'
      <3>1. Len(w) \in Int /\ Len(printed'[o]) = Len(printed[o])
        BY <1>2
      <3>2. Len(printed[o]) + (Len(w) + 1) + 1 - Before(o)
              = (Len(printed[o]) + Len(w) + 1 - Before(o)) + 1
        BY ZenonT(40), <1>2, <3>1, Sums
      <3>. QED
        BY <1>2, <1>5, <2>1, <2>2, <3>1, <3>2
    <2>4. ~ (Len(w) + 1 = 1 /\ receiver[o] = "none")
      <3>1. SUFFICES ASSUME Len(w) = 0, receiver[o] = "none" PROVE FALSE
        BY <1>2
      <3>2. Before(o) = 1 /\ Len(printed[o]) = 0
        BY <1>6, <3>1, EmptySeqs DEF Before
      <3>. QED
        BY <2>1, <2>2, <3>1, <3>2
    <2>5. ASSUME NEW i \in 1..Len(wire'[e])
          PROVE  /\ wire'[e][i].kind = "hello" <=> i = 1 /\ receiver[o] = "none"
                 /\ wire'[e][i].kind = "chat" =>
                       /\ wire'[e][i].body = Len(printed[o]) + i - Before(o)
                       /\ wire'[e][i].body <= typed[e]
      <3>1. CASE i \in 1..Len(w)
        BY <1>5, <1>6, <3>1
      <3>2. CASE i = Len(w) + 1
        <4>1. wire'[e][i] = frame
          BY <1>5, <3>2
        <4>2. frame.body = Len(printed[o]) + i - Before(o)
          <5>1. Len(w) \in Int
            BY <1>2
          <5>2. Len(printed[o]) + (Len(w) + 1) - Before(o)
                  = Len(printed[o]) + Len(w) + 1 - Before(o)
            BY ZenonT(40), <1>2, <5>1, Sums
          <5>. QED
            BY <2>1, <2>2, <3>2, <5>2
        <4>. QED
          BY <2>1, <2>4, <3>2, <4>1, <4>2
      <3>. QED
        BY <1>7, <3>1, <3>2
    <2>. QED
      BY <1>2, <1>6, <2>1, <2>3, <2>5 DEF Flow
  <1>. QED
    BY <1>8, <1>9

\* Frames of e are lost on their way: the last ones, of a writer that is gone.
LEMMA FlowReset ==
    ASSUME TypeOK, NEW e \in Ends, Flow(e), Holds(e), Holds(Other(e)), RstArrives(Other(e)),
           UNCHANGED <<receiver, printed, typed, main>>
    PROVE  Flow(e)'
  <1>1. Other(e) \in Ends /\ Other(Other(e)) = e /\ wire[e] \in Seq(Frame)
    BY TwoEnds DEF TypeOK
  <1>2. main[e] \notin {"hello", "await", "send"}
    BY <1>1 DEF RstArrives, Holds, Closed
  <1>3. PICK kept \in 0..Len(wire[e]) : wire' = [wire EXCEPT ![e] = SubSeq(@, 1, kept)]
    BY <1>1 DEF RstArrives
  <1>4. wire'[e] = SubSeq(wire[e], 1, kept)
    BY <1>3 DEF TypeOK
  <1>5. \A i \in 1..Len(wire'[e]) : wire'[e][i] = wire[e][i] /\ i \in 1..Len(wire[e])
    BY <1>1, <1>4, PrefixSeq
  <1>6. Before(Other(e))' = Before(Other(e))
    BY DEF Before
  <1>. QED
    BY <1>2, <1>5, <1>6 DEF Flow

LEMMA DropKeepsWritten ==
    ASSUME TypeOK, NEW e \in Ends, NEW hs, NEW unread, DropWith(e, hs, unread)
    PROVE  wire'[e] = wire[e]
  BY TwoEnds DEF DropWith, TypeOK

LEMMA InputSame ==
    ASSUME Good, UNCHANGED <<input, typed>>
    PROVE  \A f \in Ends : InputCounts(f)' /\ FirstLine(f)' = FirstLine(f)
  BY DEF Good, InputCounts, FirstLine, Waits

\* Handles are dropped by a thread that has no more use for them.
LEMMA DropHolds ==
    ASSUME TypeOK, Good, NEW e \in Ends, NEW hs, NEW unread, DropWith(e, hs, unread),
           \A f \in Ends : f # e => main'[f] = main[f] /\ receiver'[f] = receiver[f],
           main'[e] \in {"hello", "await", "send"} => main'[e] = main[e] /\ "writer" \notin hs,
           receiver'[e] # "ended" => receiver[e] # "ended" /\ "reader" \notin hs
    PROVE  \A f \in Ends : Holds(f)'
  <1>1. /\ open'[e] = open[e] \ hs /\ \A f \in Ends : f # e => open'[f] = open[f]
    BY DEF DropWith, TypeOK
  <1>2. /\ rst'[e] = rst[e]
        /\ rst'[Other(e)] # "none" => rst[Other(e)] # "none" \/ open'[e] = {}
    BY <1>1, TwoEnds DEF DropWith, TypeOK
  <1>3. Holds(e)'
    <2>1. rst'[e] # "none" => Closed(Other(e))'
      BY <1>1, <1>2, TwoEnds DEF Good, Holds, Closed
    <2>. QED
      BY <1>1, <2>1 DEF Good, Holds
  <1>4. Holds(Other(e))'
    <2>1. rst'[Other(e)] # "none" => Closed(Other(Other(e)))'
      BY <1>1, <1>2, TwoEnds DEF Good, Holds, Closed
    <2>. QED
      BY <1>1, <2>1, TwoEnds DEF Good, Holds
  <1>. QED
    BY <1>3, <1>4, TwoEnds

LEMMA QuitGood ==
    ASSUME TypeOK, Good, NEW e \in Ends, NEW how, NEW unread, Quit(e, how, unread)
    PROVE  Good'
  <1>1. /\ main'[e] = "exited" /\ receiver'[e] = "ended"
        /\ \A f \in Ends : f # e => main'[f] = main[f] /\ receiver'[f] = receiver[f]
        /\ UNCHANGED <<input, typed, printed>> /\ DropWith(e, Handles, unread)
    BY DEF Quit, TypeOK, stdin
  <1>2. \A f \in Ends : InputCounts(f)' /\ FirstLine(f)' = FirstLine(f)
    BY <1>1, InputSame
  <1>3. \A f \in Ends : Holds(f)'
    BY <1>1, DropHolds
  <1>4. Flow(Other(e))'
    BY <1>1, TwoEnds, FlowEnded
  <1>5. Flow(e)'
    <2>1. wire'[e] = wire[e]
      BY <1>1, DropKeepsWritten
    <2>2. typed[e] \in Nat /\ typed'[e] = typed[e]
      BY <1>1, InputNats
    <2>3. receiver'[Other(e)] = receiver[Other(e)] /\ printed'[Other(e)] = printed[Other(e)]
      BY <1>1, TwoEnds
    <2>4. Flow(e) /\ typed'[e] \in Nat /\ typed[e] <= typed'[e]
      BY <2>2 DEF Good
    <2>. QED
      BY <1>1, <2>1, <2>2, <2>3, <2>4, FlowSame
  <1>. QED
    BY <1>2, <1>3, <1>4, <1>5, TwoEnds DEF Good

\* A direction whose parts do not change.
LEMMA Untouched ==
    ASSUME TypeOK, Good, NEW e \in Ends, typed'[e] = typed[e], input'[e] = input[e],
           main'[e] = main[e] \/ (main[e] = "await" /\ main'[e] = "send"),
           receiver'[Other(e)] = receiver[Other(e)], printed'[Other(e)] = printed[Other(e)],
           wire'[e] = wire[e]
    PROVE  Flow(e)'
  <1>1. typed[e] \in Nat
    BY InputNats
  <1>2. FirstLine(e)' = FirstLine(e)
    BY DEF FirstLine
  <1>3. Flow(e) /\ typed'[e] \in Nat /\ typed[e] <= typed'[e]
    BY <1>1 DEF Good
  <1>. QED
    BY <1>1, <1>2, <1>3, FlowSame

LEMMA SendHelloGood ==
    ASSUME TypeOK, Good, NEW e \in Ends, SendHello(e)
    PROVE  Good'
  <1>1. /\ main[e] = "hello" /\ main'[e] = "await" /\ Write(e, CreateHello(identity[e], e))
        /\ \A f \in Ends : f # e => main'[f] = main[f] /\ wire'[f] = wire[f]
        /\ UNCHANGED <<input, typed, printed, receiver, open>>
    BY DEF SendHello, Write, TypeOK, stdin
  <1>2. \A f \in Ends : InputCounts(f)' /\ FirstLine(f)' = FirstLine(f)
    BY <1>1, InputSame
  <1>3. /\ CreateHello(identity[e], e) \in Frame
        /\ CreateHello(identity[e], e).kind = "hello"
    BY FrameTypes DEF TypeOK, CreateHello
  <1>4. Flow(e)'
    <2>1. Flow(e) /\ Holds(Other(e)) /\ typed[e] \in Nat
      BY TwoEnds, InputNats DEF Good
    <2>. QED
      BY <1>1, <1>2, <1>3, <2>1, FlowWrite
  <1>5. Flow(Other(e))'
    BY <1>1, TwoEnds, Untouched
  <1>6. \A f \in Ends : Holds(f)'
    BY <1>1, TwoEnds DEF Good, Holds, Write, TypeOK, Closed
  <1>. QED
    BY <1>2, <1>4, <1>5, <1>6, TwoEnds DEF Good

LEMMA SendLineGood ==
    ASSUME TypeOK, Good, NEW e \in Ends, SendLine(e)
    PROVE  Good'
  <1>1. /\ main[e] = "send" /\ Write(e, Encrypt(key[e], NextLine(e)))
        /\ input[e] # <<>> /\ NextLine(e) # Blank /\ ReadLine(e)
        /\ \A f \in Ends : f # e => wire'[f] = wire[f]
        /\ UNCHANGED <<typed, printed, receiver, main, open>>
    BY DEF SendLine, Write, TypeOK
  <1>2. /\ InputCounts(e)' /\ FirstLine(e)' = FirstLine(e) + 1 /\ FirstLine(e) = NextLine(e)
        /\ NextLine(e) <= typed[e] /\ NextLine(e) \in Nat \ {0}
        /\ \A f \in Ends : f # e => input'[f] = input[f]
    BY <1>1, LineRead DEF Good
  <1>3. /\ Encrypt(key[e], NextLine(e)) \in Frame
        /\ Encrypt(key[e], NextLine(e)).kind = "chat"
        /\ Encrypt(key[e], NextLine(e)).body = NextLine(e)
    BY <1>1, LineType, FrameTypes DEF TypeOK, Encrypt
  <1>4. Flow(e)'
    <2>1. Flow(e) /\ Holds(Other(e)) /\ typed[e] \in Nat /\ main'[e] = "send"
      BY <1>1, TwoEnds, InputNats DEF Good
    <2>. QED
      BY <1>1, <1>2, <1>3, <2>1, FlowWrite
  <1>5. Flow(Other(e))' /\ InputCounts(Other(e))'
    <2>1. Flow(Other(e))'
      BY <1>1, <1>2, TwoEnds, Untouched
    <2>2. InputCounts(Other(e))'
      BY <1>1, <1>2, TwoEnds DEF Good, InputCounts, FirstLine, Waits
    <2>. QED
      BY <2>1, <2>2
  <1>6. \A f \in Ends : Holds(f)'
    BY <1>1, TwoEnds DEF Good, Holds, Write, TypeOK, Closed
  <1>. QED
    BY <1>2, <1>4, <1>5, <1>6, TwoEnds DEF Good

LEMMA RecvHelloGood ==
    ASSUME TypeOK, Secrets, Good, NEW e \in Ends, RecvHello(e)
    PROVE  Good'
  <1>1. /\ main[e] = "await" /\ main'[e] = "send" /\ receiver'[e] = "reading"
        /\ HasFrame(e) /\ Consume(e) /\ wire'[e] = wire[e]
        /\ \A f \in Ends : f # e => main'[f] = main[f] /\ receiver'[f] = receiver[f]
        /\ UNCHANGED <<input, typed, printed, open, rst>>
    BY TwoEnds DEF RecvHello, Consume, TypeOK, stdin
  <1>2. receiver[e] = "none"
    BY <1>1 DEF Secrets, Keys
  <1>3. \A f \in Ends : InputCounts(f)' /\ FirstLine(f)' = FirstLine(f)
    BY <1>1, InputSame
  <1>4. Flow(e)'
    BY <1>1, TwoEnds, Untouched
  <1>5. Flow(Other(e))'
    <2>1. Other(e) \in Ends /\ Other(Other(e)) = e /\ Other(e) # e
      BY TwoEnds
    <2>2. Flow(Other(e))
      BY <2>1 DEF Good
    <2>3. Len(printed'[e]) = Len(printed[e]) + 1 - Before(e)
      <3>1. printed[e] \in Seq(1..MaxLines)
        BY DEF TypeOK
      <3>. QED
        BY <1>1, <1>2, <3>1 DEF Before
    <2>. QED
      BY <1>1, <1>2, <2>1, <2>2, <2>3, FlowRead
  <1>6. \A f \in Ends : Holds(f)'
    BY <1>1, <1>2 DEF Good, Holds, Closed
  <1>. QED
    BY <1>3, <1>4, <1>5, <1>6, TwoEnds DEF Good

LEMMA ReceiveGood ==
    ASSUME TypeOK, Good, NEW e \in Ends, Receive(e)
    PROVE  Good'
  <1>1. /\ receiver[e] = "reading" /\ HasFrame(e) /\ Consume(e) /\ wire'[e] = wire[e]
        /\ printed' = [printed EXCEPT ![e] = Append(@, NextFrame(e).body)]
        /\ UNCHANGED <<input, typed, open, rst, main, receiver>>
    BY TwoEnds DEF Receive, Consume, TypeOK, stdin
  <1>2. /\ NextFrame(e) \in Frame /\ NextFrame(e).kind = "chat"
        /\ NextFrame(e).body \in 1..MaxLines
    BY TwoEnds, TailSeq, FrameTypes DEF Receive, Decrypts, HasFrame, NextFrame, TypeOK
  <1>3. /\ Len(printed'[e]) = Len(printed[e]) + 1 /\ printed[e] \in Seq(1..MaxLines)
        /\ \A f \in Ends : f # e => printed'[f] = printed[f]
    <2>1. printed[e] \in Seq(1..MaxLines) /\ printed'[e] = Append(printed[e], NextFrame(e).body)
      BY <1>1 DEF TypeOK
    <2>. QED
      BY <1>1, <1>2, <2>1, AppendSeq DEF TypeOK
  <1>4. \A f \in Ends : InputCounts(f)' /\ FirstLine(f)' = FirstLine(f)
    BY <1>1, InputSame
  <1>5. Flow(e)'
    BY <1>1, <1>3, TwoEnds, Untouched
  <1>6. Flow(Other(e))'
    <2>1. Other(e) \in Ends /\ Other(Other(e)) = e /\ Other(e) # e
      BY TwoEnds
    <2>2. Flow(Other(e))
      BY <2>1 DEF Good
    <2>3. Len(printed'[e]) = Len(printed[e]) + 1 - Before(e)
      BY <1>1, <1>3 DEF Before
    <2>. QED
      BY <1>1, <2>1, <2>2, <2>3, FlowRead
  <1>7. \A f \in Ends : Holds(f)'
    BY <1>1 DEF Good, Holds, Closed
  <1>. QED
    BY <1>4, <1>5, <1>6, <1>7, TwoEnds DEF Good

\* send_loop returns: only if nobody reads at this end any more does that
\* close the socket.
LEMMA SendLoopEndsGood ==
    ASSUME TypeOK, Good, NEW e \in Ends, SendLoopEnds(e), main[e] = "send",
           UNCHANGED input \/ (input[e] # <<>> /\ ReadLine(e))
    PROVE  Good'
  <1>1. /\ main'[e] = "join" /\ DropWith(e, {"writer"}, wire[Other(e)])
        /\ \A f \in Ends : f # e => main'[f] = main[f]
        /\ UNCHANGED <<typed, printed, receiver>>
    BY DEF SendLoopEnds, Drop, TypeOK
  <1>2. /\ InputCounts(e)'
        /\ \A f \in Ends : f # e => input'[f] = input[f]
    <2>1. CASE UNCHANGED input
      BY <1>1, <2>1 DEF Good, InputCounts, FirstLine, Waits
    <2>2. CASE input[e] # <<>> /\ ReadLine(e)
      BY <1>1, <2>2, LineRead DEF Good
    <2>. QED
      BY <2>1, <2>2
  <1>3. InputCounts(Other(e))'
    BY <1>1, <1>2, TwoEnds DEF Good, InputCounts, FirstLine, Waits
  <1>4. \A f \in Ends : Holds(f)'
    BY <1>1, DropHolds
  <1>5. Flow(e)'
    <2>1. typed[e] \in Nat /\ wire'[e] = wire[e] /\ Flow(e)
      BY <1>1, InputNats, DropKeepsWritten DEF Good
    <2>2. typed'[e] \in Nat /\ typed[e] <= typed'[e]
      BY <1>1, <2>1
    <2>. QED
      BY <1>1, <2>1, <2>2, FlowSame
  <1>6. Flow(Other(e))'
    <2>1. CASE receiver[e] = "ended"
      BY <1>1, <2>1, TwoEnds, FlowEnded
    <2>2. CASE receiver[e] # "ended"
      <3>1. "reader" \in open[e] \ {"writer"}
        BY <2>2 DEF Good, Holds
      <3>2. wire' = [wire EXCEPT ![Other(e)] = wire[Other(e)]]
        BY <1>1, <3>1 DEF DropWith
      <3>3. wire'[Other(e)] = wire[Other(e)]
        BY <3>2 DEF TypeOK
      <3>. QED
        BY <1>1, <1>2, <3>3, TwoEnds, Untouched
    <2>. QED
      BY <2>1, <2>2
  <1>. QED
    BY <1>2, <1>3, <1>4, <1>5, <1>6, TwoEnds DEF Good

LEMMA ReceiveEndsGood ==
    ASSUME TypeOK, Good, NEW e \in Ends, ReceiveEnds(e)
    PROVE  Good'
  <1>1. /\ receiver'[e] = "ended" /\ DropWith(e, {"reader"}, Unread(e))
        /\ \A f \in Ends : f # e => receiver'[f] = receiver[f]
        /\ UNCHANGED <<input, typed, printed, main>>
    BY DEF ReceiveEnds, TypeOK, stdin
  <1>2. \A f \in Ends : InputCounts(f)' /\ FirstLine(f)' = FirstLine(f)
    BY <1>1, InputSame
  <1>3. \A f \in Ends : Holds(f)'
    BY <1>1, DropHolds
  <1>4. Flow(Other(e))'
    BY <1>1, TwoEnds, FlowEnded
  <1>5. Flow(e)'
    BY <1>1, TwoEnds, DropKeepsWritten, Untouched
  <1>. QED
    BY <1>2, <1>3, <1>4, <1>5, TwoEnds DEF Good

LEMMA TypeGood ==
    ASSUME TypeOK, Good, NEW e \in Ends, Type(e)
    PROVE  Good'
  <1>1. UNCHANGED <<wire, open, rst, main, receiver, printed>>
    BY DEF Type, tcp
  <1>2. /\ InputCounts(e)' /\ FirstLine(e)' = FirstLine(e) /\ typed'[e] = typed[e] + 1
        /\ \A f \in Ends : f # e => input'[f] = input[f] /\ typed'[f] = typed[f]
    BY LineTyped DEF Good
  <1>3. \A f \in Ends : Holds(f)'
    BY <1>1 DEF Good, Holds, Closed
  <1>4. Flow(e)'
    <2>1. typed[e] \in Nat /\ Flow(e)
      BY InputNats DEF Good
    <2>2. typed'[e] \in Nat /\ typed[e] <= typed'[e]
      BY <1>2, <2>1
    <2>. QED
      BY <1>1, <1>2, <2>1, <2>2, FlowSame
  <1>5. Flow(Other(e))' /\ InputCounts(Other(e))'
    <2>1. Flow(Other(e))'
      BY <1>1, <1>2, TwoEnds, Untouched
    <2>. QED
      BY <1>2, <2>1, TwoEnds DEF Good, InputCounts, FirstLine, Waits
  <1>. QED
    BY <1>2, <1>3, <1>4, <1>5, TwoEnds DEF Good

LEMMA SkipLineGood ==
    ASSUME TypeOK, Good, NEW e \in Ends, SkipLine(e)
    PROVE  Good'
  <1>1. /\ UNCHANGED <<wire, open, rst, main, receiver, printed, typed>>
        /\ input[e] # <<>> /\ NextLine(e) = Blank /\ ReadLine(e)
    BY DEF SkipLine, tcp
  <1>2. /\ InputCounts(e)' /\ FirstLine(e)' = FirstLine(e)
        /\ \A f \in Ends : f # e => input'[f] = input[f]
    BY <1>1, LineRead DEF Good
  <1>3. \A f \in Ends : Holds(f)'
    BY <1>1 DEF Good, Holds, Closed
  <1>4. Flow(e)'
    <2>1. typed[e] \in Nat /\ Flow(e)
      BY InputNats DEF Good
    <2>2. typed'[e] \in Nat /\ typed[e] <= typed'[e]
      BY <1>1, <2>1
    <2>. QED
      BY <1>1, <1>2, <2>1, <2>2, FlowSame
  <1>5. Flow(Other(e))' /\ InputCounts(Other(e))'
    <2>1. Flow(Other(e))'
      BY <1>1, <1>2, TwoEnds, Untouched
    <2>. QED
      BY <1>1, <1>2, <2>1, TwoEnds DEF Good, InputCounts, FirstLine, Waits
  <1>. QED
    BY <1>2, <1>3, <1>4, <1>5, TwoEnds DEF Good

LEMMA KernelGood ==
    ASSUME TypeOK, Good, NEW e \in Ends, Kernel(e)
    PROVE  Good'
  <1>1. /\ RstArrives(e) /\ wire'[e] = wire[e]
        /\ UNCHANGED <<input, typed, printed, main, receiver, open>>
    BY TwoEnds DEF Kernel, RstArrives, TypeOK, stdin
  <1>2. \A f \in Ends : InputCounts(f)' /\ FirstLine(f)' = FirstLine(f)
    BY <1>1, InputSame
  <1>3. \A f \in Ends : Holds(f)'
    <2>1. \A f \in Ends : rst'[f] # "none" => rst[f] # "none"
      BY <1>1 DEF RstArrives, TypeOK
    <2>. QED
      BY <1>1, <2>1 DEF Good, Holds, Closed
  <1>4. Flow(e)'
    BY <1>1, Untouched
  <1>5. Flow(Other(e))'
    <2>1. Other(e) \in Ends /\ Other(Other(e)) = e
      BY TwoEnds
    <2>2. Flow(Other(e)) /\ Holds(Other(e)) /\ Holds(e)
      BY <2>1 DEF Good
    <2>. QED
      BY <1>1, <2>1, <2>2, FlowReset
  <1>. QED
    BY <1>2, <1>3, <1>4, <1>5, TwoEnds DEF Good

LEMMA GoodStep == TypeOK /\ Secrets /\ Good /\ [Next]_vars => Good'
  <1>. SUFFICES ASSUME TypeOK, Secrets, Good, [Next]_vars PROVE Good'
    OBVIOUS
  <1>1. ASSUME UNCHANGED <<wire, open, rst, main, receiver, printed, typed, input>> PROVE Good'
    <2>1. \A e \in Ends : InputCounts(e)' /\ Holds(e)'
      BY <1>1, InputSame DEF Good, Holds, Closed
    <2>2. \A e \in Ends : Flow(e)'
      BY <1>1, Untouched
    <2>. QED
      BY <2>1, <2>2 DEF Good
  <1>2. CASE UNCHANGED vars
    BY <1>1, <1>2 DEF vars, tcp, stdin
  <1>3. ASSUME NEW e \in Ends, HandshakeFails(e) \/ Finish(e) \/ Interrupt(e) PROVE Good'
    BY <1>3, QuitGood DEF HandshakeFails, Finish, Interrupt
  <1>4. ASSUME NEW e \in Ends, SendFails(e) \/ InputIsOver(e) \/ StdinFails(e) PROVE Good'
    BY <1>4, SendLoopEndsGood DEF SendFails, InputIsOver, StdinFails
  <1>5. ASSUME NEW e \in Ends, EndInput(e) PROVE Good'
    BY <1>1, <1>5 DEF EndInput, tcp
  <1>. QED
    BY <1>2, <1>3, <1>4, <1>5, SendHelloGood, SendLineGood, RecvHelloGood, ReceiveGood,
       ReceiveEndsGood, TypeGood, SkipLineGood, KernelGood
    DEF Next, MainThread, ReceiveThread, User

----------------------------------------------------------------------------
(* The promise of Relay.                                                   *)

PromiseInv == IInv /\ Good

LEMMA PromiseInvAlways == Spec => []PromiseInv
  <1>1. Init => Good
    <2>1. SUFFICES ASSUME Init, NEW e \in Ends PROVE InputCounts(e) /\ Holds(e) /\ Flow(e)
      BY DEF Good
    <2>2. wire[e] = <<>> /\ input[e] = <<>> /\ printed[Other(e)] = <<>> /\ typed[e] = 0
      BY <2>1, TwoEnds DEF Init, TcpInit
    <2>3. main[e] = "hello" /\ receiver[e] = "none" /\ receiver[Other(e)] = "none"
      BY <2>1, TwoEnds DEF Init
    <2>4. Len(input[e]) = 0 /\ Len(wire[e]) = 0 /\ 1..0 = {} /\ 1..(0 - 1) = {}
      BY <2>2, EmptySeqs
    <2>5. InputCounts(e)
      BY <2>2, <2>4 DEF InputCounts, Counts
    <2>6. Holds(e)
      BY <2>1 DEF Holds, Init, TcpInit, Handles
    <2>7. Flow(e)
      BY <2>2, <2>3, <2>4 DEF Flow, FirstLine
    <2>. QED
      BY <2>5, <2>6, <2>7
  <1>2. IInv /\ Good /\ [Next]_vars => Good'
    BY GoodStep DEF IInv
  <1>. QED
    BY <1>1, <1>2, Invariance, PTL DEF Spec, PromiseInv

PhaseOf(state) ==
    CASE state = "none" -> "opening" [] state = "reading" -> "open" [] state = "ended" -> "over"

LEMMA PhaseKept == receiver' = receiver => phase' = phase
  BY DEF phase

LEMMA PhaseMoves ==
    ASSUME TypeOK, NEW e \in Ends, NEW state \in {"none", "reading", "ended"},
           receiver' = [receiver EXCEPT ![e] = state]
    PROVE  phase' = [phase EXCEPT ![e] = PhaseOf(state)]
  <1>1. /\ phase = [f \in Ends |-> PhaseOf(receiver[f])]
        /\ phase' = [f \in Ends |-> PhaseOf(receiver'[f])]
    BY DEF phase, PhaseOf
  <1>2. receiver'[e] = state /\ \A f \in Ends : f # e => receiver'[f] = receiver[f]
    BY DEF TypeOK
  <1>. QED
    BY <1>1, <1>2

LEMMA PhaseIs ==
    ASSUME TypeOK, NEW e \in Ends
    PROVE  /\ receiver[e] = "none" => phase[e] = "opening"
           /\ receiver[e] = "reading" => phase[e] = "open"
           /\ phase[e] = "over" <=> receiver[e] = "ended"
  BY DEF phase, TypeOK

\* A receive thread that ends, alone or with its process, ends the chat.
LEMMA PromiseEnds ==
    ASSUME TypeOK, NEW e \in Ends, receiver' = [receiver EXCEPT ![e] = "ended"],
           UNCHANGED <<typed, printed>>
    PROVE  Promise!Finish(e) \/ UNCHANGED <<phase, typed, printed>>
  <1>1. CASE receiver[e] = "ended"
    <2>1. receiver' = receiver
      BY <1>1 DEF TypeOK
    <2>. QED
      BY <2>1, PhaseKept
  <1>2. CASE receiver[e] # "ended"
    <2>1. phase' = [phase EXCEPT ![e] = "over"]
      BY PhaseMoves DEF PhaseOf
    <2>. QED
      BY <1>2, <2>1, PhaseIs DEF Promise!Finish
  <1>. QED
    BY <1>1, <1>2

LEMMA PromiseStep ==
    ASSUME PromiseInv, [Next]_vars
    PROVE  [Promise!Next]_<<phase, typed, printed>>
  <1>. DEFINE Stutter == UNCHANGED <<phase, typed, printed>>
  <1>0. TypeOK /\ Secrets /\ Good
    BY DEF PromiseInv, IInv
  <1>1. ASSUME UNCHANGED <<receiver, typed, printed>> PROVE Stutter
    BY <1>1, PhaseKept
  <1>2. CASE UNCHANGED vars
    BY <1>1, <1>2 DEF vars, stdin
  <1>3. ASSUME NEW e \in Ends,
               \/ SendHello(e) \/ SkipLine(e) \/ SendLine(e) \/ SendFails(e)
               \/ InputIsOver(e) \/ StdinFails(e) \/ EndInput(e) \/ Kernel(e)
        PROVE  Stutter
    BY <1>1, <1>3 DEF SendHello, SkipLine, SendLine, SendFails, InputIsOver, StdinFails,
                      SendLoopEnds, EndInput, Kernel, stdin
  <1>4. ASSUME NEW e \in Ends, HandshakeFails(e) \/ Finish(e) \/ Interrupt(e) \/ ReceiveEnds(e)
        PROVE  Promise!Finish(e) \/ Stutter
    <2>1. receiver' = [receiver EXCEPT ![e] = "ended"] /\ UNCHANGED <<typed, printed>>
      BY <1>4 DEF HandshakeFails, Finish, Interrupt, ReceiveEnds, Quit, stdin
    <2>. QED
      BY <1>0, <2>1, PromiseEnds
  <1>5. ASSUME NEW e \in Ends, RecvHello(e) PROVE Promise!Open(e)
    <2>1. /\ main[e] = "await" /\ receiver' = [receiver EXCEPT ![e] = "reading"]
          /\ UNCHANGED <<typed, printed>>
      BY <1>5 DEF RecvHello, stdin
    <2>2. phase[e] = "opening"
      BY <1>0, <2>1, PhaseIs DEF Secrets, Keys
    <2>3. phase' = [phase EXCEPT ![e] = "open"]
      BY <1>0, <2>1, PhaseMoves DEF PhaseOf
    <2>. QED
      BY <2>1, <2>2, <2>3 DEF Promise!Open
  <1>6. ASSUME NEW e \in Ends, Type(e) PROVE Promise!Send(e)
    <2>1. phase' = phase /\ UNCHANGED printed
      BY <1>6, PhaseKept DEF Type
    <2>. QED
      BY <1>6, <2>1 DEF Type, Promise!Send
  <1>7. ASSUME NEW e \in Ends, Receive(e) PROVE Promise!Show(e)
    <2>1. /\ receiver[e] = "reading" /\ HasFrame(e) /\ NextFrame(e).kind = "chat"
          /\ printed' = [printed EXCEPT ![e] = Append(@, NextFrame(e).body)]
          /\ UNCHANGED <<typed, receiver>>
      BY <1>7 DEF Receive, Decrypts, stdin
    <2>2. /\ Other(e) \in Ends /\ Other(Other(e)) = e /\ Flow(Other(e))
          /\ wire[Other(e)] \in Seq(Frame) /\ wire[Other(e)] # <<>>
          /\ typed[Other(e)] \in Nat /\ printed[e] \in Seq(1..MaxLines)
      BY <1>0, <2>1, TwoEnds, InputNats DEF Good, TypeOK, HasFrame
    <2>3. NextFrame(e) = wire[Other(e)][1] /\ 1 \in 1..Len(wire[Other(e)])
      BY <2>2, TailSeq DEF NextFrame
    <2>4. /\ NextFrame(e).body = Len(printed[e]) + 1 - Before(e)
          /\ NextFrame(e).body <= typed[Other(e)]
      BY <2>1, <2>2, <2>3 DEF Flow
    <2>5. Before(e) = 0 /\ Len(printed[e]) \in Nat
      BY <2>1, <2>2 DEF Before
    <2>6. NextFrame(e).body = Len(printed[e]) + 1
      BY <2>4, <2>5
    <2>7. Len(printed[e]) < typed[Other(e)]
      BY <2>2, <2>4, <2>5, <2>6
    <2>8. printed' = [printed EXCEPT ![e] = Append(@, Len(@) + 1)]
      BY <2>1, <2>6
    <2>9. phase[e] = "open" /\ phase' = phase
      BY <1>0, <2>1, PhaseIs, PhaseKept
    <2>. QED
      BY <2>1, <2>7, <2>8, <2>9 DEF Promise!Show
  <1>. QED
    BY <1>2, <1>3, <1>4, <1>5, <1>6, <1>7
    DEF Next, MainThread, ReceiveThread, User, Promise!Next

LEMMA PromiseInit == Init => Promise!Init
  <1>1. Init => phase = [e \in Ends |-> "opening"]
    BY DEF Init, phase
  <1>. QED
    BY <1>1 DEF Init, Promise!Init

\* run_session of p2p.rs implements Relay: what is typed at one end is printed
\* at the other one line by line in the order it was typed, blank lines left
\* out, none twice and none missing in between, however the threads of the two
\* processes run and wherever they are interrupted.
THEOREM KeepsPromiseAlways == Spec => KeepsPromise
  <1>1. PromiseInv /\ [Next]_vars => [Promise!Next]_<<phase, typed, printed>>
    BY PromiseStep
  <1>. QED
    BY <1>1, PromiseInit, PromiseInvAlways, PTL DEF Spec, KeepsPromise, Promise!Spec

----------------------------------------------------------------------------
(* A chat in which nobody can go on has done what it owes.                 *)

\* Who has exited has no handle left, who has not said hello has not been
\* heard, and who sends has a receive thread.
Tidy(e) ==
    /\ main[e] = "exited" => Closed(e)
    /\ main[e] = "hello" => wire[e] = <<>> /\ rst[e] = "none"
    /\ main[e] \in {"send", "join"} => receiver[e] # "none"

\* Who waits for the receive thread has written everything it was given, or
\* what it could read of it.
Written(e) == main[e] = "join" =>
    /\ (input[e] = <<>> /\ ended[e]) \/ unreadable[e]
    /\ FirstLine(e) = Len(printed[Other(e)]) + Len(wire[e]) + 1 - Before(Other(e))

LEMMA DropTidies ==
    ASSUME TypeOK, NEW e \in Ends, NEW hs, NEW unread \in {Unread(e), wire[Other(e)]},
           DropWith(e, hs, unread)
    PROVE  /\ open'[e] = open[e] \ hs /\ open'[Other(e)] = open[Other(e)]
           /\ wire'[e] = wire[e] /\ rst'[e] = rst[e]
           /\ wire[Other(e)] = <<>> =>
                 wire'[Other(e)] = <<>> /\ rst'[Other(e)] = rst[Other(e)]
  <1>. DEFINE o == Other(e)
  <1>. o \in Ends /\ o # e
    BY TwoEnds
  <1>1. wire[o] = <<>> => unread = <<>>
    BY DEF Unread
  <1>2. /\ open'[e] = open[e] \ hs /\ open'[o] = open[o]
        /\ wire'[e] = wire[e] /\ rst'[e] = rst[e]
    BY DEF DropWith, TypeOK
  <1>3. wire[o] = <<>> => wire'[o] = <<>> /\ rst'[o] = rst[o]
    BY <1>1 DEF DropWith, TypeOK
  <1>. QED
    BY <1>2, <1>3

LEMMA TidyKept ==
    ASSUME NEW f \in Ends, Tidy(f), main'[f] = main[f],
           receiver'[f] = receiver[f] \/ receiver'[f] # "none", open'[f] \subseteq open[f],
           main[f] = "hello" /\ wire[f] = <<>> => wire'[f] = <<>> /\ rst'[f] = rst[f]
    PROVE  Tidy(f)'
  BY DEF Tidy, Closed

LEMMA TidyStep ==
    TypeOK /\ (\A e \in Ends : Tidy(e)) /\ [Next]_vars => \A e \in Ends : Tidy(e)'
  <1>. SUFFICES ASSUME TypeOK, \A e \in Ends : Tidy(e), [Next]_vars
                PROVE  \A e \in Ends : Tidy(e)'
    OBVIOUS
  <1>1. CASE UNCHANGED vars
    BY <1>1 DEF vars, tcp, Tidy, Closed
  <1>2. ASSUME NEW e \in Ends, Tidy(e)', Tidy(Other(e))'
        PROVE  \A f \in Ends : Tidy(f)'
    BY <1>2, TwoEnds
  <1>3. ASSUME NEW e \in Ends, NEW how, NEW unread \in {Unread(e), wire[Other(e)]},
               Quit(e, how, unread)
        PROVE  \A f \in Ends : Tidy(f)'
    <2>1. /\ main'[e] = "exited" /\ open'[e] = open[e] \ Handles
          /\ main'[Other(e)] = main[Other(e)] /\ receiver'[Other(e)] = receiver[Other(e)]
          /\ open'[Other(e)] = open[Other(e)]
          /\ wire[Other(e)] = <<>> =>
                 wire'[Other(e)] = <<>> /\ rst'[Other(e)] = rst[Other(e)]
      BY <1>3, DropTidies, TwoEnds DEF Quit, TypeOK
    <2>2. Tidy(e)'
      <3>1. open[e] \subseteq Handles
        BY DEF TypeOK
      <3>. QED
        BY <2>1, <3>1 DEF Tidy, Closed
    <2>3. Tidy(Other(e))'
      BY <2>1, TwoEnds, TidyKept
    <2>. QED
      BY <1>2, <2>2, <2>3
  <1>4. ASSUME NEW e \in Ends, SendLoopEnds(e), main[e] = "send"
        PROVE  \A f \in Ends : Tidy(f)'
    <2>1. /\ main'[e] = "join" /\ receiver' = receiver
          /\ main'[Other(e)] = main[Other(e)] /\ open'[Other(e)] = open[Other(e)]
          /\ wire[Other(e)] = <<>> =>
                 wire'[Other(e)] = <<>> /\ rst'[Other(e)] = rst[Other(e)]
      BY <1>4, DropTidies, TwoEnds DEF SendLoopEnds, Drop, TypeOK
    <2>2. Tidy(e)'
      BY <1>4, <2>1 DEF Tidy
    <2>3. Tidy(Other(e))'
      BY <2>1, TwoEnds, TidyKept
    <2>. QED
      BY <1>2, <2>2, <2>3
  <1>5. ASSUME NEW e \in Ends, SendHello(e)
        PROVE  \A f \in Ends : Tidy(f)'
    <2>1. /\ main'[e] = "await" /\ receiver' = receiver /\ open' = open
          /\ UNCHANGED <<main[Other(e)], wire[Other(e)], rst[Other(e)]>>
      BY <1>5, TwoEnds DEF SendHello, Write, TypeOK
    <2>2. Tidy(e)'
      BY <2>1 DEF Tidy
    <2>3. Tidy(Other(e))'
      BY <2>1, TwoEnds, TidyKept
    <2>. QED
      BY <1>2, <2>2, <2>3
  <1>6. ASSUME NEW e \in Ends, RecvHello(e)
        PROVE  \A f \in Ends : Tidy(f)'
    <2>1. /\ main'[e] = "send" /\ receiver'[e] = "reading" /\ open' = open /\ rst' = rst
          /\ UNCHANGED <<main[Other(e)], receiver[Other(e)]>>
          /\ wire'[Other(e)] = Unread(e)
      BY <1>6, TwoEnds DEF RecvHello, Consume, TypeOK
    <2>2. Tidy(e)'
      BY <2>1 DEF Tidy
    <2>3. Tidy(Other(e))'
      BY <2>1, TwoEnds, TidyKept DEF Unread
    <2>. QED
      BY <1>2, <2>2, <2>3
  <1>7. ASSUME NEW e \in Ends, SkipLine(e) \/ Type(e) \/ EndInput(e)
        PROVE  \A f \in Ends : Tidy(f)'
    BY <1>7, TidyKept DEF SkipLine, Type, EndInput, tcp
  <1>8. ASSUME NEW e \in Ends, SendLine(e)
        PROVE  \A f \in Ends : Tidy(f)'
    <2>1. /\ main[e] = "send" /\ UNCHANGED <<main, receiver, open>>
          /\ UNCHANGED <<wire[Other(e)], rst[Other(e)]>>
      BY <1>8, TwoEnds DEF SendLine, Write, TypeOK
    <2>. QED
      BY <1>2, <2>1, TwoEnds, TidyKept
  <1>9. ASSUME NEW e \in Ends, Receive(e)
        PROVE  \A f \in Ends : Tidy(f)'
    <2>1. /\ UNCHANGED <<main, receiver, open, rst>>
          /\ wire'[e] = wire[e] /\ wire'[Other(e)] = Unread(e)
      BY <1>9, TwoEnds DEF Receive, Consume, TypeOK
    <2>2. wire[Other(e)] = <<>> => Unread(e) = <<>>
      BY DEF Unread
    <2>. QED
      BY <1>2, <2>1, <2>2, TwoEnds, TidyKept
  <1>10. ASSUME NEW e \in Ends, ReceiveEnds(e)
         PROVE  \A f \in Ends : Tidy(f)'
    <2>1. /\ main' = main /\ receiver'[e] = "ended" /\ receiver'[Other(e)] = receiver[Other(e)]
          /\ open'[e] \subseteq open[e] /\ open'[Other(e)] = open[Other(e)]
          /\ wire'[e] = wire[e] /\ rst'[e] = rst[e]
          /\ wire[Other(e)] = <<>> =>
                 wire'[Other(e)] = <<>> /\ rst'[Other(e)] = rst[Other(e)]
      BY <1>10, DropTidies, TwoEnds DEF ReceiveEnds, TypeOK
    <2>. QED
      BY <1>2, <2>1, TwoEnds, TidyKept
  <1>11. ASSUME NEW e \in Ends, Kernel(e)
         PROVE  \A f \in Ends : Tidy(f)'
    <2>1. /\ UNCHANGED <<main, receiver, open>> /\ rst[e] = "inflight"
          /\ wire'[e] = wire[e] /\ rst'[Other(e)] = rst[Other(e)]
          /\ wire[Other(e)] = <<>> => wire'[Other(e)] = <<>>
      <3>1. PICK n \in 0..Len(wire[Other(e)]) : wire'[Other(e)] = SubSeq(wire[Other(e)], 1, n)
        BY <1>11, TwoEnds DEF Kernel, RstArrives, TypeOK
      <3>2. wire[Other(e)] \in Seq(Frame)
        BY TwoEnds DEF TypeOK
      <3>3. wire[Other(e)] = <<>> => wire'[Other(e)] = <<>>
        BY <3>1, <3>2
      <3>. QED
        BY <1>11, <3>3, TwoEnds DEF Kernel, RstArrives, TypeOK
    <2>2. main[e] # "hello"
      BY <2>1 DEF Tidy
    <2>. QED
      BY <1>2, <2>1, <2>2, TwoEnds, TidyKept
  <1>. QED
    BY <1>1, <1>3, <1>4, <1>5, <1>6, <1>7, <1>8, <1>9, <1>10, <1>11
    DEF Next, MainThread, ReceiveThread, User, HandshakeFails, Finish, Interrupt,
        SendFails, InputIsOver, StdinFails

LEMMA WrittenKept ==
    ASSUME NEW f \in Ends, Written(f), main'[f] = main[f],
           UNCHANGED <<input[f], typed[f], ended[f], unreadable[f]>>,
           main[f] = "join" =>
               Len(printed'[Other(f)]) + Len(wire'[f]) + 1 - Before(Other(f))'
                 = Len(printed[Other(f)]) + Len(wire[f]) + 1 - Before(Other(f))
    PROVE  Written(f)'
  BY DEF Written, FirstLine

\* The frame that is read goes from the wire to the print, or is the hello.
LEMMA WrittenRead ==
    ASSUME TypeOK, NEW e \in Ends, Written(Other(e)), HasFrame(e),
           wire'[Other(e)] = Unread(e),
           UNCHANGED <<main[Other(e)], input[Other(e)], typed[Other(e)], ended[Other(e)],
                       unreadable[Other(e)]>>,
           \/ /\ receiver[e] = "none" /\ receiver'[e] = "reading" /\ printed'[e] = printed[e]
           \/ /\ receiver[e] = "reading" /\ receiver'[e] = "reading"
              /\ \E n \in 1..MaxLines : printed'[e] = Append(printed[e], n)
    PROVE  Written(Other(e))'
  <1>. DEFINE o == Other(e)
  <1>. o \in Ends /\ Other(o) = e
    BY TwoEnds
  <1>1. wire[o] \in Seq(Frame) /\ wire[o] # <<>> /\ printed[e] \in Seq(1..MaxLines)
    BY DEF TypeOK, HasFrame
  <1>2. Len(wire[o]) \in Nat /\ Len(wire'[o]) = Len(wire[o]) - 1
    BY <1>1 DEF Unread
  <1>3. Len(printed[e]) \in Nat
    BY <1>1
  <1>4. Len(printed'[e]) - Before(e)' = Len(printed[e]) - Before(e) + 1
    <2>1. CASE receiver[e] = "none" /\ receiver'[e] = "reading" /\ printed'[e] = printed[e]
      BY <1>3, <2>1 DEF Before
    <2>2. CASE /\ receiver[e] = "reading" /\ receiver'[e] = "reading"
               /\ \E n \in 1..MaxLines : printed'[e] = Append(printed[e], n)
      <3>1. Len(printed'[e]) = Len(printed[e]) + 1
        BY <1>1, <2>2, AppendSeq
      <3>. QED
        BY <1>3, <2>2, <3>1 DEF Before
    <2>. QED
      BY <2>1, <2>2
  <1>5. Before(e) \in {0, 1} /\ Before(e)' \in {0, 1} /\ Len(printed'[e]) \in Int
    <2>1. Before(e) \in {0, 1} /\ Before(e)' \in {0, 1}
      BY DEF Before
    <2>2. CASE printed'[e] = printed[e]
      BY <1>3, <2>1, <2>2
    <2>3. CASE \E n \in 1..MaxLines : printed'[e] = Append(printed[e], n)
      BY <1>1, <1>3, <2>1, <2>3, AppendSeq
    <2>. QED
      BY <2>1, <2>2, <2>3
  <1>6. Len(printed'[e]) + Len(wire'[o]) + 1 - Before(e)'
          = Len(printed[e]) + Len(wire[o]) + 1 - Before(e)
    <2>. DEFINE p == Len(printed[e])  w == Len(wire[o])   b == Before(e)
                q == Len(printed'[e]) v == Len(wire'[o])  c == Before(e)'
    <2>1. /\ p \in Int /\ w \in Int /\ b \in Int
          /\ q \in Int /\ v \in Int /\ c \in Int
          /\ v = w - 1 /\ q - c = p - b + 1
      BY <1>2, <1>3, <1>4, <1>5
    <2>. HIDE DEF p, w, b, q, v, c
    <2>2. q + v + 1 - c = p + w + 1 - b
      BY <2>1
    <2>. QED
      BY <2>2 DEF p, w, b, q, v, c
  <1>. QED
    BY <1>6, WrittenKept

AllWritten == Undisturbed => \A e \in Ends : Written(e)

LEMMA WrittenStep ==
    ASSUME PromiseInv, PromiseInv', AllWritten, Next
    PROVE  AllWritten'
  <1>. SUFFICES ASSUME Undisturbed' PROVE \A e \in Ends : Written(e)'
    BY DEF AllWritten
  <1>1. TypeOK /\ TypeOK' /\ Good
    BY DEF PromiseInv, IInv
  <1>2. ASSUME NEW e \in Ends, NEW how, NEW unread, Quit(e, how, unread)
        PROVE  FALSE
    <2>1. main'[e] = "exited"
      BY <1>1, <1>2 DEF Quit, TypeOK
    <2>. QED
      BY <2>1 DEF PromiseInv, IInv, Calm
  <1>3. \A e \in Ends : ~ HandshakeFails(e) /\ ~ Finish(e) /\ ~ Interrupt(e)
    BY <1>2 DEF HandshakeFails, Finish, Interrupt
  <1>4. outcome' = outcome
    BY <1>3 DEF Next, MainThread, ReceiveThread, User, SendHello, RecvHello, SkipLine,
                SendLine, SendFails, InputIsOver, StdinFails, SendLoopEnds, Receive,
                ReceiveEnds, Type, EndInput, Kernel
  <1>5. Undisturbed /\ \A e \in Ends : Calm(e) /\ Written(e)
    BY <1>4 DEF Undisturbed, PromiseInv, IInv, AllWritten
  <1>6. \A e \in Ends : ~ SendFails(e) /\ ~ Kernel(e)
    BY <1>5 DEF Calm, SendFails, WriteFails, Kernel, RstArrives
  <1>7. \A e \in Ends : ~ ReceiveEnds(e)
    <2>. SUFFICES ASSUME NEW e \in Ends, ReceiveEnds(e) PROVE FALSE
      OBVIOUS
    <2>1. receiver'[e] = "ended"
      BY <1>1 DEF ReceiveEnds, TypeOK
    <2>. QED
      BY <2>1 DEF PromiseInv, IInv, Calm
  <1>8. ASSUME NEW e \in Ends, Written(e)', Written(Other(e))'
        PROVE  \A f \in Ends : Written(f)'
    BY <1>8, TwoEnds
  <1>9. ASSUME NEW e \in Ends, SendHello(e) \/ SendLine(e)
        PROVE  \A f \in Ends : Written(f)'
    <2>1. /\ main'[e] # "join" /\ main'[Other(e)] = main[Other(e)]
          /\ UNCHANGED <<input[Other(e)], typed[Other(e)], ended[Other(e)],
                        unreadable[Other(e)]>>
          /\ wire'[Other(e)] = wire[Other(e)]
          /\ UNCHANGED <<printed, receiver>>
      BY SMTT(30), <1>1, <1>9, TwoEnds DEF SendHello, SendLine, ReadLine, Write, stdin, TypeOK
    <2>2. Written(e)'
      BY <2>1 DEF Written
    <2>3. Written(Other(e))'
      BY <1>5, <2>1, TwoEnds, WrittenKept DEF Before
    <2>. QED
      BY <1>8, <2>2, <2>3
  <1>10. ASSUME NEW e \in Ends, SkipLine(e) \/ Type(e) \/ EndInput(e)
         PROVE  \A f \in Ends : Written(f)'
    <2>1. /\ main'[e] = main[e] /\ main'[Other(e)] = main[Other(e)]
          /\ UNCHANGED <<input[Other(e)], typed[Other(e)], ended[Other(e)],
                        unreadable[Other(e)]>>
          /\ UNCHANGED <<wire, printed, receiver>>
      <3>1. CASE SkipLine(e)
        BY <1>1, <3>1, TwoEnds DEF SkipLine, ReadLine, tcp, TypeOK
      <3>2. CASE Type(e)
        <4>1. /\ UNCHANGED <<main, wire, printed, receiver, ended, unreadable>>
              /\ typed'[Other(e)] = typed[Other(e)]
          BY <1>1, <3>2, TwoEnds DEF Type, tcp, TypeOK
        <4>2. input'[Other(e)] = input[Other(e)]
          <5>1. PICK added : input' = [input EXCEPT ![e] = added]
            BY <3>2 DEF Type
          <5>. QED
            BY <1>1, <5>1, TwoEnds DEF TypeOK
        <4>. QED
          BY <4>1, <4>2
      <3>3. CASE EndInput(e)
        BY <1>1, <3>3, TwoEnds DEF EndInput, tcp, TypeOK
      <3>. QED
        BY <1>10, <3>1, <3>2, <3>3
    <2>2. Written(e)'
      <3>1. CASE SkipLine(e)
        BY <2>1, <3>1 DEF SkipLine, Written
      <3>2. CASE Type(e)
        <4>1. main[e] = "join" => unreadable'[e]
          BY <1>5, <3>2 DEF Type, Written
        <4>2. FirstLine(e)' = FirstLine(e)
          BY <1>1, <3>2, LineTyped DEF Good
        <4>. QED
          BY <1>5, <2>1, <4>1, <4>2 DEF Written, Before
      <3>3. CASE EndInput(e)
        <4>1. UNCHANGED <<input, typed, unreadable>> /\ (ended[e] => ended'[e])
          BY <3>3 DEF EndInput
        <4>2. FirstLine(e)' = FirstLine(e)
          BY <4>1 DEF FirstLine
        <4>. QED
          BY <1>5, <2>1, <4>1, <4>2 DEF Written, Before
      <3>. QED
        BY <1>10, <3>1, <3>2, <3>3
    <2>3. Written(Other(e))'
      BY <1>5, <2>1, TwoEnds, WrittenKept DEF Before
    <2>. QED
      BY <1>8, <2>2, <2>3
  <1>11. ASSUME NEW e \in Ends, RecvHello(e)
         PROVE  \A f \in Ends : Written(f)'
    <2>1. /\ main'[e] = "send" /\ main'[Other(e)] = main[Other(e)]
          /\ receiver'[e] = "reading" /\ HasFrame(e)
          /\ UNCHANGED <<input, typed, ended, unreadable, printed>> /\ wire'[Other(e)] = Unread(e)
      BY <1>1, <1>11, TwoEnds DEF RecvHello, Consume, stdin, TypeOK
    <2>2. receiver[e] = "none"
      BY <1>11 DEF RecvHello, PromiseInv, IInv, Secrets, Keys
    <2>3. Written(e)'
      BY <2>1 DEF Written
    <2>4. Written(Other(e))'
      BY <1>1, <1>5, <2>1, <2>2, TwoEnds, WrittenRead
    <2>. QED
      BY <1>8, <2>3, <2>4
  <1>12. ASSUME NEW e \in Ends, Receive(e)
         PROVE  \A f \in Ends : Written(f)'
    <2>1. /\ UNCHANGED <<main, receiver, input, typed, ended, unreadable>>
          /\ HasFrame(e) /\ receiver[e] = "reading"
          /\ wire'[Other(e)] = Unread(e) /\ wire'[e] = wire[e]
          /\ printed'[e] = Append(printed[e], NextFrame(e).body)
          /\ printed'[Other(e)] = printed[Other(e)]
      BY <1>1, <1>12, TwoEnds DEF Receive, Consume, stdin, TypeOK
    <2>2. NextFrame(e).body \in 1..MaxLines
      <3>1. NextFrame(e) \in Frame
        BY <1>1, <2>1, TwoEnds, TailSeq DEF NextFrame, HasFrame, TypeOK
      <3>. QED
        BY <1>12, <3>1, FrameTypes DEF Receive, Decrypts
    <2>3. Written(e)'
      BY <1>5, <2>1, WrittenKept DEF Before
    <2>4. Written(Other(e))'
      BY <1>1, <1>5, <2>1, <2>2, TwoEnds, WrittenRead
    <2>. QED
      BY <1>8, <2>3, <2>4
  <1>13. ASSUME NEW e \in Ends, InputIsOver(e) \/ StdinFails(e)
         PROVE  \A f \in Ends : Written(f)'
    <2>1. /\ UNCHANGED <<receiver, printed, input, typed, ended, unreadable[Other(e)]>>
          /\ main[e] = "send" /\ main'[e] = "join" /\ main'[Other(e)] = main[Other(e)]
          /\ (input[e] = <<>> /\ ended[e]) \/ unreadable'[e]
          /\ wire'[e] = wire[e]
      <3>1. wire'[e] = wire[e]
        BY <1>1, <1>13, DropKeepsWritten DEF InputIsOver, StdinFails, SendLoopEnds, Drop
      <3>. QED
        BY <1>1, <1>13, <3>1, TwoEnds DEF InputIsOver, StdinFails, SendLoopEnds, TypeOK
    <2>2. wire'[Other(e)] = wire[Other(e)]
      <3>1. "reader" \in open[e] \ {"writer"}
        BY <1>5 DEF Calm
      <3>2. DropWith(e, {"writer"}, wire[Other(e)])
        BY <1>13 DEF InputIsOver, StdinFails, SendLoopEnds, Drop
      <3>3. wire' = [wire EXCEPT ![Other(e)] = wire[Other(e)]]
        BY <3>1, <3>2 DEF DropWith
      <3>. QED
        BY <1>1, <3>3 DEF TypeOK
    <2>3. Written(e)'
      <3>1. receiver[Other(e)] # "ended" /\ Flow(e)
        BY <1>1, <1>5, TwoEnds DEF Calm, Good
      <3>2. FirstLine(e) = Len(printed[Other(e)]) + Len(wire[e]) + 1 - Before(Other(e))
        BY <2>1, <3>1 DEF Flow
      <3>. QED
        BY <2>1, <3>2 DEF Written, FirstLine, Before
    <2>4. Written(Other(e))'
      BY <1>5, <2>1, <2>2, TwoEnds, WrittenKept DEF Before
    <2>. QED
      BY <1>8, <2>3, <2>4
  <1>. QED
    BY <1>3, <1>6, <1>7, <1>9, <1>10, <1>11, <1>12, <1>13
    DEF Next, MainThread, ReceiveThread, User

EndsInv == PromiseInv /\ (\A e \in Ends : Tidy(e)) /\ AllWritten

LEMMA EndsInvAlways == Spec => []EndsInv
  <1>1. Init => (\A e \in Ends : Tidy(e)) /\ AllWritten
    BY DEF Init, TcpInit, Tidy, AllWritten, Written
  <1>2. PromiseInv /\ PromiseInv' /\ EndsInv /\ [Next]_vars => EndsInv'
    <2>. SUFFICES ASSUME PromiseInv, PromiseInv', EndsInv, [Next]_vars PROVE EndsInv'
      OBVIOUS
    <2>1. \A e \in Ends : Tidy(e)'
      BY TidyStep DEF EndsInv, PromiseInv, IInv
    <2>2. AllWritten'
      <3>1. CASE Next
        BY <3>1, WrittenStep DEF EndsInv
      <3>2. CASE UNCHANGED vars
        BY <3>2 DEF EndsInv, AllWritten, Undisturbed, Written, FirstLine, Before,
                    vars, tcp, stdin
      <3>. QED
        BY <3>1, <3>2
    <2>. QED
      BY <2>1, <2>2 DEF EndsInv
  <1>. QED
    BY <1>1, <1>2, PromiseInvAlways, PTL DEF Spec, EndsInv

Idle == \A e \in Ends : ~ MainCanStep(e) /\ ~ ReceiverCanStep(e) /\ ~ KernelCanStep(e)

\* What TypedIsPrinted and FollowsPeer promise for the end.
Delivered(e) == \A n \in 1..typed[e] :
    Len(printed[Other(e)]) >= n \/ Over \/ NeverRead(e, n)

Alone(e) == main[Other(e)] = "exited" /\ (ended[e] \/ main[e] = "join")

Followed(e) == Alone(e) => main[e] = "exited"

Settled == \A e \in Ends : Delivered(e) /\ Followed(e)

LEMMA FirstLinePositive ==
    ASSUME TypeOK, Good, NEW e \in Ends
    PROVE  FirstLine(e) \in Nat /\ FirstLine(e) >= 1
  <1>1. input[e] \in Seq(0..MaxLines) /\ typed[e] \in 0..MaxLines
    BY DEF TypeOK
  <1>2. \A i \in 1..Len(input[e]) : input[e][i] \in 0..MaxLines
    <2>1. \A S : \A q \in Seq(S) : \A i \in 1..Len(q) : q[i] \in S
      OBVIOUS
    <2>. QED
      BY <1>1, <2>1
  <1>3. CASE input[e] = <<>>
    BY <1>1, <1>3, MaxLinesAssumption DEF FirstLine
  <1>4. CASE input[e] # <<>>
    <2>1. Len(input[e]) \in Nat /\ 1 \in 1..Len(input[e])
      BY <1>1, <1>4, TailSeq
    <2>2. CASE input[e][1] # Blank
      BY <1>2, <1>4, <2>1, <2>2, MaxLinesAssumption DEF FirstLine, LineAt, Blank
    <2>3. CASE input[e][1] = Blank
      <3>1. 1 < Len(input[e]) /\ input[e][2] # Blank
        BY <2>1, <2>3 DEF Good, InputCounts, Counts
      <3>2. input[e][2] \in 0..MaxLines
        BY <1>2, <2>1, <3>1
      <3>. QED
        BY <1>4, <2>3, <3>1, <3>2, MaxLinesAssumption DEF FirstLine, LineAt, Blank
    <2>. QED
      BY <2>2, <2>3
  <1>. QED
    BY <1>3, <1>4

\* As long as both processes run, whoever waits has been given what there is.
LEMMA IdleDelivered ==
    ASSUME EndsInv, Idle, NEW e \in Ends
    PROVE  Delivered(e)
  <1>. SUFFICES ASSUME ~ Over, NEW n \in 1..typed[e]
                PROVE  Len(printed[Other(e)]) >= n \/ NeverRead(e, n)
    BY DEF Delivered
  <1>1. Undisturbed
    BY DEF Over, Undisturbed
  <1>2. TypeOK /\ Good /\ \A f \in Ends : Calm(f) /\ Written(f) /\ Keys(f)
    BY <1>1 DEF EndsInv, PromiseInv, IInv, AllWritten, Secrets
  <1>3. \A f \in Ends : wire[f] \in Seq(Frame) /\ printed[f] \in Seq(1..MaxLines)
    BY <1>2 DEF TypeOK
  <1>4. \A f \in Ends : wire[f] = <<>> => CanWrite(f)
    <2>1. SocketCap \in Nat \ {0} /\ Len(<<>>) = 0
      BY SocketCapAssumption
    <2>. QED
      BY <1>2, <2>1 DEF CanWrite, Calm
  <1>5. \A f \in Ends : main[f] \in {"await", "send", "join"}
    <2>1. \A f \in Ends : main[f] \in {"hello", "await", "send", "join"}
      BY <1>2 DEF Calm, TypeOK
    <2>2. \A f \in Ends : main[f] # "hello"
      BY <1>2, <1>4 DEF Calm, Idle, MainCanStep
    <2>. QED
      BY <2>1, <2>2
  <1>6. ASSUME NEW f \in Ends, main[f] = "await"
        PROVE  FALSE
    <2>. DEFINE o == Other(f)
    <2>1. o \in Ends /\ Other(o) = f
      BY TwoEnds
    <2>2. wire[o] = <<>> /\ receiver[f] = "none"
      BY <1>2, <1>6 DEF Idle, MainCanStep, HasFrame, Keys
    <2>3. Flow(o) /\ Written(o)
      BY <1>2, <2>1 DEF Good
    <2>4. printed[f] = <<>>
      BY <2>1, <2>2, <2>3 DEF Flow
    <2>5. FirstLine(o) = Len(printed[f]) + Len(wire[o]) + 1 - Before(f)
      BY <1>5, <2>1, <2>2, <2>3 DEF Flow, Written
    <2>6. FirstLine(o) = 0
      BY <2>2, <2>4, <2>5 DEF Before
    <2>. QED
      BY <1>2, <2>1, <2>6, FirstLinePositive
  <1>7. \A f \in Ends : main[f] \in {"send", "join"} /\ receiver[f] = "reading"
    BY <1>2, <1>5, <1>6 DEF Calm
  <1>8. wire[e] = <<>>
    BY <1>7, TwoEnds DEF Idle, ReceiverCanStep, HasFrame
  <1>9. input[e] = <<>> \/ unreadable[e]
    <2>1. main[e] = "join" => input[e] = <<>> \/ unreadable[e]
      BY <1>2 DEF Written
    <2>2. main[e] = "send" => input[e] = <<>>
      BY <1>4, <1>8 DEF Idle, MainCanStep
    <2>. QED
      BY <1>7, <2>1, <2>2
  <1>10. FirstLine(e) = Len(printed[Other(e)]) + Len(wire[e]) + 1 - Before(Other(e))
    <2>1. receiver[Other(e)] = "reading" /\ Flow(e) /\ Written(e)
      BY <1>2, <1>7, TwoEnds DEF Good
    <2>. QED
      BY <1>7, <2>1 DEF Flow, Written
  <1>11. typed[e] \in Nat /\ Len(printed[Other(e)]) \in Nat
    BY <1>2, <1>3, TwoEnds, MaxLinesAssumption DEF TypeOK
  <1>12. FirstLine(e) = Len(printed[Other(e)]) + 1
    <2>1. Len(wire[e]) = 0 /\ Before(Other(e)) = 0
      BY <1>7, <1>8, TwoEnds DEF Before
    <2>. QED
      BY <1>10, <1>11, <2>1
  <1>13. CASE input[e] = <<>>
    <2>1. FirstLine(e) = typed[e] + 1
      BY <1>13 DEF FirstLine
    <2>. QED
      BY <1>11, <1>12, <2>1
  <1>14. CASE unreadable[e]
    <2>1. Len(printed[Other(e)]) >= n \/ n >= FirstLine(e)
      BY <1>11, <1>12
    <2>2. n >= FirstLine(e) => Waits(e, n)
      BY <1>2 DEF Good, InputCounts
    <2>. QED
      BY <1>14, <2>1, <2>2 DEF NeverRead
  <1>. QED
    BY <1>9, <1>13, <1>14

\* Who has no more input and no peer finds the way out.
LEMMA IdleFollowed ==
    ASSUME EndsInv, Idle, NEW e \in Ends
    PROVE  Followed(e)
  <1>. SUFFICES ASSUME main[Other(e)] = "exited", ended[e] \/ main[e] = "join",
                       main[e] # "exited"
                PROVE  FALSE
    BY DEF Followed, Alone
  <1>1. TypeOK /\ Tidy(e) /\ Closed(Other(e))
    BY TwoEnds DEF EndsInv, PromiseInv, IInv, Tidy
  <1>2. rst[e] # "arrived" => CanWrite(e)
    BY <1>1 DEF CanWrite
  <1>3. HasFrame(e) \/ StreamOver(e)
    BY <1>1 DEF StreamOver
  <1>4. main[e] # "hello"
    BY <1>1, <1>2 DEF Tidy, Idle, MainCanStep
  <1>5. main[e] # "await"
    BY <1>3 DEF Idle, MainCanStep
  <1>6. main[e] # "send"
    BY <1>2 DEF Idle, MainCanStep, WriteFails
  <1>7. main[e] # "join"
    BY <1>1, <1>3 DEF Tidy, Idle, MainCanStep, ReceiverCanStep, TypeOK
  <1>. QED
    BY <1>1, <1>4, <1>5, <1>6, <1>7 DEF TypeOK

\* A state of a chat in which neither process can go on is one in which every
\* line typed is printed, unless one of the processes is gone or the line is
\* behind one that could not be read, and no process that has no more to send has
\* outlived its peer: the two ends never wait for each other with a line between
\* them (run_session of p2p.rs).
THEOREM IdleIsSettled == Spec => [](Idle => Settled)
  <1>1. EndsInv => (Idle => Settled)
    BY IdleDelivered, IdleFollowed DEF Settled
  <1>. QED
    BY <1>1, EndsInvAlways, PTL

----------------------------------------------------------------------------
(* Every step of a chat uses up some of the work that is left to do.       *)

MainWork(m) == [hello |-> 5, await |-> 3, send |-> 2, join |-> 1, exited |-> 0][m]

ReceiverWork(r) == [none |-> 1, reading |-> 1, ended |-> 0][r]

ResetWork(r) == [none |-> 2, inflight |-> 1, arrived |-> 0][r]

InputWork(over) == IF over THEN 0 ELSE 1

\* A line, which a blank one may come before, costs five steps at most.
Cost(m, r, k, o, u, i, w) == m + r + k + o + 5 * u + 2 * i + w

EndWork(e) ==
    Cost(MainWork(main[e]), ReceiverWork(receiver[e]), ResetWork(rst[e]),
         InputWork(ended[e]), MaxLines - typed[e], Len(input[e]), Len(wire[e]))

Work == EndWork("host") + EndWork("joiner")

LEMMA Ranks ==
    /\ MainWork("hello") = 5 /\ MainWork("await") = 3 /\ MainWork("send") = 2
    /\ MainWork("join") = 1 /\ MainWork("exited") = 0
    /\ ReceiverWork("none") = 1 /\ ReceiverWork("reading") = 1 /\ ReceiverWork("ended") = 0
    /\ ResetWork("none") = 2 /\ ResetWork("inflight") = 1 /\ ResetWork("arrived") = 0
    /\ InputWork(FALSE) = 1 /\ InputWork(TRUE) = 0
  BY DEF MainWork, ReceiverWork, ResetWork, InputWork

\* Every part of the work of an end is a natural number.
Counted(e) ==
    /\ MainWork(main[e]) \in Nat /\ ReceiverWork(receiver[e]) \in Nat
    /\ ResetWork(rst[e]) \in Nat /\ InputWork(ended[e]) \in Nat
    /\ typed[e] \in 0..MaxLines /\ Len(input[e]) \in Nat /\ Len(wire[e]) \in Nat

LEMMA WorkCounted ==
    ASSUME TypeOK, NEW e \in Ends
    PROVE  Counted(e)
  <1>1. /\ main[e] \in {"hello", "await", "send", "join", "exited"}
        /\ receiver[e] \in {"none", "reading", "ended"}
        /\ rst[e] \in {"none", "inflight", "arrived"} /\ typed[e] \in 0..MaxLines
    BY DEF TypeOK
  <1>2. input[e] \in Seq(0..MaxLines) /\ wire[e] \in Seq(Frame)
    BY DEF TypeOK
  <1>3. InputWork(ended[e]) \in Nat
    BY DEF InputWork
  <1>. QED
    BY <1>1, <1>2, <1>3, Ranks DEF Counted

WorkTypes == \A e \in Ends : Counted(e) /\ EndWork(e) \in Nat

LEMMA WorkTyped == TypeOK => WorkTypes
  <1>. SUFFICES ASSUME TypeOK, NEW e \in Ends
                PROVE  Counted(e) /\ EndWork(e) \in Nat
    BY DEF WorkTypes
  <1>1. Counted(e)
    BY WorkCounted
  <1>2. \A m, r, k, o, u, i, w \in Nat : Cost(m, r, k, o, u, i, w) \in Nat
    BY DEF Cost
  <1>3. MaxLines - typed[e] \in Nat
    BY <1>1, MaxLinesAssumption DEF Counted
  <1>. QED
    BY <1>1, <1>2, <1>3 DEF EndWork, Counted

\* What each kind of step costs the end e that takes it; d frames are taken off
\* what the other end wrote.
WritesHello(e) ==
    /\ MainWork(main'[e]) + 2 <= MainWork(main[e])
    /\ Len(wire'[e]) <= Len(wire[e]) + 1
    /\ UNCHANGED <<typed[e], input[e]>>

WritesLine(e) ==
    /\ Len(input'[e]) + 1 <= Len(input[e])
    /\ Len(wire'[e]) <= Len(wire[e]) + 1
    /\ UNCHANGED <<main[e], typed[e]>>

TypesLine(e) ==
    /\ typed'[e] = typed[e] + 1
    /\ Len(input'[e]) <= Len(input[e]) + 2
    /\ UNCHANGED <<main[e], wire[e]>>

ReadsOrStops(e, d) ==
    /\ \/ d = 1
       \/ MainWork(main'[e]) + 1 <= MainWork(main[e])
       \/ ReceiverWork(receiver'[e]) + 1 <= ReceiverWork(receiver[e])
       \/ ResetWork(rst'[e]) + 1 <= ResetWork(rst[e])
       \/ InputWork(ended'[e]) + 1 <= InputWork(ended[e])
       \/ Len(input'[e]) + 1 <= Len(input[e])
    /\ MainWork(main'[e]) <= MainWork(main[e])
    /\ Len(input'[e]) <= Len(input[e])
    /\ UNCHANGED <<typed[e], wire[e]>>

Pays(e, d) ==
    /\ ReceiverWork(receiver'[e]) <= ReceiverWork(receiver[e])
    /\ ResetWork(rst'[e]) <= ResetWork(rst[e])
    /\ InputWork(ended'[e]) <= InputWork(ended[e])
    /\ WritesHello(e) \/ WritesLine(e) \/ TypesLine(e) \/ ReadsOrStops(e, d)

LEMMA EndWorkLess ==
    ASSUME WorkTypes, WorkTypes', NEW e \in Ends, NEW d \in {0, 1}, Pays(e, d)
    PROVE  EndWork(e)' < EndWork(e) + d
  <1>. DEFINE m1 == MainWork(main[e])           m2 == MainWork(main'[e])
              r1 == ReceiverWork(receiver[e])   r2 == ReceiverWork(receiver'[e])
              k1 == ResetWork(rst[e])           k2 == ResetWork(rst'[e])
              o1 == InputWork(ended[e])         o2 == InputWork(ended'[e])
              u1 == MaxLines - typed[e]         u2 == MaxLines - typed'[e]
              i1 == Len(input[e])               i2 == Len(input'[e])
              w1 == Len(wire[e])                w2 == Len(wire'[e])
  <1>1. /\ EndWork(e) = Cost(m1, r1, k1, o1, u1, i1, w1)
        /\ EndWork(e)' = Cost(m2, r2, k2, o2, u2, i2, w2)
    BY DEF EndWork
  <1>2. /\ m1 \in Nat /\ r1 \in Nat /\ k1 \in Nat /\ o1 \in Nat /\ i1 \in Nat /\ w1 \in Nat
        /\ m2 \in Nat /\ r2 \in Nat /\ k2 \in Nat /\ o2 \in Nat /\ i2 \in Nat /\ w2 \in Nat
    BY DEF WorkTypes, Counted
  <1>3. /\ u1 \in Nat /\ u2 \in Nat
        /\ typed'[e] = typed[e] => u2 = u1
        /\ typed'[e] = typed[e] + 1 => u2 + 1 = u1
    <2>1. typed[e] \in 0..MaxLines /\ typed'[e] \in 0..MaxLines
      BY DEF WorkTypes, Counted
    <2>. QED
      BY <2>1, MaxLinesAssumption
  <1>4. /\ main'[e] = main[e] => m2 = m1
        /\ input'[e] = input[e] => i2 = i1
        /\ wire'[e] = wire[e] => w2 = w1
    OBVIOUS
  <1>5. /\ r2 <= r1 /\ k2 <= k1 /\ o2 <= o1
        /\ \/ m2 + 2 <= m1 /\ w2 <= w1 + 1 /\ u2 = u1 /\ i2 = i1
           \/ i2 + 1 <= i1 /\ w2 <= w1 + 1 /\ u2 = u1 /\ m2 = m1
           \/ u2 + 1 = u1 /\ i2 <= i1 + 2 /\ m2 = m1 /\ w2 = w1
           \/ /\ \/ d = 1 \/ m2 + 1 <= m1 \/ r2 + 1 <= r1
                 \/ k2 + 1 <= k1 \/ o2 + 1 <= o1 \/ i2 + 1 <= i1
              /\ m2 <= m1 /\ i2 <= i1 /\ u2 = u1 /\ w2 = w1
    <2>1. r2 <= r1 /\ k2 <= k1 /\ o2 <= o1
      BY DEF Pays
    <2>2. CASE WritesHello(e)
      BY <1>3, <1>4, <2>1, <2>2 DEF WritesHello
    <2>3. CASE WritesLine(e)
      BY <1>3, <1>4, <2>1, <2>3 DEF WritesLine
    <2>4. CASE TypesLine(e)
      BY <1>3, <1>4, <2>1, <2>4 DEF TypesLine
    <2>5. CASE ReadsOrStops(e, d)
      BY <1>3, <1>4, <2>1, <2>5 DEF ReadsOrStops
    <2>. QED
      BY <2>2, <2>3, <2>4, <2>5 DEF Pays
  <1>. HIDE DEF m1, r1, k1, o1, u1, i1, w1, m2, r2, k2, o2, u2, i2, w2
  <1>. QED
    BY <1>1, <1>2, <1>3, <1>5 DEF Cost

\* What a step of e leaves of the other end's work.
Spares(o, d) ==
    /\ UNCHANGED <<main[o], receiver[o], typed[o], input[o], ended[o]>>
    /\ Len(wire'[o]) + d <= Len(wire[o])
    /\ ResetWork(rst'[o]) <= ResetWork(rst[o])

LEMMA WorkLess ==
    ASSUME WorkTypes, WorkTypes', NEW e \in Ends, NEW d \in {0, 1},
           Pays(e, d), Spares(Other(e), d)
    PROVE  Work' < Work
  <1>. DEFINE o == Other(e)
  <1>. o \in Ends
    BY TwoEnds
  <1>. HIDE DEF o
  <1>1. EndWork(o)' + d <= EndWork(o)
    <2>. DEFINE m == MainWork(main[o])        r == ReceiverWork(receiver[o])
                n == InputWork(ended[o])      u == MaxLines - typed[o]
                i == Len(input[o])
                k1 == ResetWork(rst[o])       k2 == ResetWork(rst'[o])
                w1 == Len(wire[o])            w2 == Len(wire'[o])
    <2>1. /\ EndWork(o) = Cost(m, r, k1, n, u, i, w1)
          /\ EndWork(o)' = Cost(m, r, k2, n, u, i, w2)
      BY DEF EndWork, Spares, o
    <2>2. /\ m \in Nat /\ r \in Nat /\ k1 \in Nat /\ k2 \in Nat /\ n \in Nat
          /\ i \in Nat /\ w1 \in Nat /\ w2 \in Nat
      BY DEF WorkTypes, Counted
    <2>3. u \in Nat
      <3>1. typed[o] \in 0..MaxLines
        BY DEF WorkTypes, Counted
      <3>. QED
        BY <3>1, MaxLinesAssumption
    <2>4. w2 + d <= w1 /\ k2 <= k1
      BY DEF Spares, o
    <2>. HIDE DEF m, r, n, u, i, k1, k2, w1, w2
    <2>. QED
      BY <2>1, <2>2, <2>3, <2>4 DEF Cost
  <1>2. EndWork(e)' < EndWork(e) + d
    BY EndWorkLess
  <1>3. /\ EndWork(e) \in Nat /\ EndWork(e)' \in Nat
        /\ EndWork(o) \in Nat /\ EndWork(o)' \in Nat
    BY DEF WorkTypes
  <1>4. Work = EndWork(e) + EndWork(o) /\ Work' = EndWork(e)' + EndWork(o)'
    <2>1. \/ e = "host" /\ o = "joiner"
          \/ e = "joiner" /\ o = "host"
      BY DEF Ends, Other, o
    <2>2. /\ EndWork("host") \in Nat /\ EndWork("host")' \in Nat
          /\ EndWork("joiner") \in Nat /\ EndWork("joiner")' \in Nat
      BY DEF WorkTypes, Ends
    <2>. QED
      BY <2>1, <2>2 DEF Work
  <1>. QED
    BY <1>1, <1>2, <1>3, <1>4

\* What Write, DropWith, reading the wire and reading the input cost.
LEMMA WriteCosts ==
    ASSUME TypeOK, NEW e \in Ends, NEW frame \in Frame, Write(e, frame)
    PROVE  /\ Len(wire'[e]) <= Len(wire[e]) + 1 /\ ResetWork(rst'[e]) <= ResetWork(rst[e])
           /\ wire'[Other(e)] = wire[Other(e)] /\ rst'[Other(e)] = rst[Other(e)]
  <1>1. /\ wire[e] \in Seq(Frame) /\ Len(wire[e]) \in Nat
        /\ Len(Append(wire[e], frame)) = Len(wire[e]) + 1
    BY AppendSeq DEF TypeOK
  <1>2. wire'[e] = wire[e] \/ wire'[e] = Append(wire[e], frame)
    BY DEF Write, TypeOK
  <1>3. rst'[e] = rst[e] \/ (rst'[e] = "inflight" /\ rst[e] \in {"none", "inflight"})
    BY DEF Write, TypeOK
  <1>4. ResetWork(rst'[e]) <= ResetWork(rst[e])
    BY <1>3, WorkCounted, Ranks DEF Counted
  <1>. QED
    BY <1>1, <1>2, <1>4, TwoEnds DEF Write, TypeOK

LEMMA UnreadCosts ==
    ASSUME TypeOK, NEW e \in Ends
    PROVE  /\ Len(Unread(e)) \in Nat /\ Len(wire[Other(e)]) \in Nat
           /\ Len(Unread(e)) <= Len(wire[Other(e)])
           /\ HasFrame(e) => Len(Unread(e)) + 1 <= Len(wire[Other(e)])
  <1>1. wire[Other(e)] \in Seq(Frame)
    BY TwoEnds DEF TypeOK
  <1>2. Len(wire[Other(e)]) \in Nat /\ (wire[Other(e)] = <<>> <=> Len(wire[Other(e)]) = 0)
    BY <1>1
  <1>3. Len(Unread(e)) = IF wire[Other(e)] = <<>> THEN 0 ELSE Len(wire[Other(e)]) - 1
    <2>1. \A S : \A q \in Seq(S) :
              Len(SubSeq(q, 2, Len(q))) = IF q = <<>> THEN 0 ELSE Len(q) - 1
      OBVIOUS
    <2>. QED
      BY <1>1, <2>1 DEF Unread
  <1>. QED
    BY <1>2, <1>3 DEF HasFrame

LEMMA DropCosts ==
    ASSUME TypeOK, NEW e \in Ends, NEW hs, NEW unread \in {Unread(e), wire[Other(e)]},
           DropWith(e, hs, unread)
    PROVE  /\ wire'[e] = wire[e] /\ rst'[e] = rst[e]
           /\ Len(wire'[Other(e)]) <= Len(wire[Other(e)])
           /\ ResetWork(rst'[Other(e)]) <= ResetWork(rst[Other(e)])
  <1>. DEFINE o == Other(e)
  <1>. o \in Ends /\ o # e
    BY TwoEnds
  <1>1. Len(wire[o]) \in Nat /\ Len(<<>>) = 0 /\ Len(unread) <= Len(wire[o])
    BY UnreadCosts DEF TypeOK
  <1>2. wire'[o] = unread \/ wire'[o] = <<>>
    BY DEF DropWith, TypeOK
  <1>3. rst'[o] = rst[o] \/ (rst'[o] = "inflight" /\ rst[o] \in {"none", "inflight"})
    BY DEF DropWith, TypeOK
  <1>4. ResetWork(rst'[o]) <= ResetWork(rst[o])
    BY <1>3, WorkCounted, Ranks DEF Counted
  <1>5. wire'[e] = wire[e] /\ rst'[e] = rst[e]
    BY DEF DropWith, TypeOK
  <1>6. Len(wire'[o]) <= Len(wire[o])
    BY <1>1, <1>2
  <1>. QED
    BY <1>4, <1>5, <1>6

LEMMA ReadLineCosts ==
    ASSUME TypeOK, NEW e \in Ends, input[e] # <<>>, ReadLine(e)
    PROVE  /\ Len(input'[e]) \in Nat /\ Len(input[e]) \in Nat
           /\ Len(input'[e]) + 1 <= Len(input[e]) /\ input'[Other(e)] = input[Other(e)]
  <1>1. input[e] \in Seq(0..MaxLines) /\ input'[e] = Tail(input[e])
    BY DEF ReadLine, TypeOK
  <1>2. \A S : \A q \in Seq(S) : q # <<>> =>
            Len(q) \in Nat /\ Len(Tail(q)) \in Nat /\ Len(Tail(q)) + 1 = Len(q)
    OBVIOUS
  <1>3. /\ Len(input[e]) \in Nat /\ Len(input'[e]) \in Nat
        /\ Len(input'[e]) + 1 = Len(input[e])
    BY <1>1, <1>2
  <1>. QED
    BY <1>3, TwoEnds DEF ReadLine, TypeOK

LEMMA WorkStep == TypeOK /\ Secrets /\ [Next]_vars => UNCHANGED vars \/ Work' < Work
  <1>. SUFFICES ASSUME TypeOK, Secrets, Next PROVE Work' < Work
    OBVIOUS
  <1>1. WorkTypes /\ WorkTypes'
    BY TypeStep, WorkTyped, PTL
  <1>. \A e \in Ends : Counted(e)
    BY <1>1 DEF WorkTypes
  <1>2. ASSUME NEW e \in Ends, NEW d \in {0, 1}, Pays(e, d), Spares(Other(e), d)
        PROVE  Work' < Work
    BY <1>1, <1>2, WorkLess
  <1>3. ASSUME NEW e \in Ends, NEW how, NEW unread \in {Unread(e), wire[Other(e)]},
               Quit(e, how, unread), main[e] # "exited"
        PROVE  Work' < Work
    <2>1. /\ main'[e] = "exited" /\ main'[Other(e)] = main[Other(e)]
          /\ receiver'[e] = "ended" /\ receiver'[Other(e)] = receiver[Other(e)]
          /\ UNCHANGED <<typed, input, ended>>
      BY <1>3, TwoEnds DEF Quit, stdin, TypeOK
    <2>2. /\ wire'[e] = wire[e] /\ rst'[e] = rst[e]
          /\ Len(wire'[Other(e)]) <= Len(wire[Other(e)])
          /\ ResetWork(rst'[Other(e)]) <= ResetWork(rst[Other(e)])
      BY <1>3, DropCosts DEF Quit
    <2>3. main[e] \in {"hello", "await", "send", "join"}
      BY <1>3 DEF TypeOK
    <2>4. Pays(e, 0)
      BY <2>1, <2>2, <2>3, Ranks DEF Pays, ReadsOrStops, Counted
    <2>5. Spares(Other(e), 0)
      BY <1>1, <2>1, <2>2, TwoEnds DEF Spares, WorkTypes, Counted
    <2>. QED
      BY <1>2, <2>4, <2>5
  <1>4. ASSUME NEW e \in Ends, SendLoopEnds(e), main[e] = "send",
               UNCHANGED input \/ (input[e] # <<>> /\ ReadLine(e))
        PROVE  Work' < Work
    <2>1. /\ main'[e] = "join" /\ main'[Other(e)] = main[Other(e)]
          /\ UNCHANGED <<receiver, typed, ended>>
      BY <1>4, TwoEnds DEF SendLoopEnds, TypeOK
    <2>2. /\ wire'[e] = wire[e] /\ rst'[e] = rst[e]
          /\ Len(wire'[Other(e)]) <= Len(wire[Other(e)])
          /\ ResetWork(rst'[Other(e)]) <= ResetWork(rst[Other(e)])
      BY <1>4, DropCosts DEF SendLoopEnds, Drop
    <2>3. /\ Len(input'[e]) <= Len(input[e])
          /\ input'[Other(e)] = input[Other(e)]
      <3>1. CASE UNCHANGED input
        BY <3>1 DEF Counted
      <3>2. CASE input[e] # <<>> /\ ReadLine(e)
        BY <3>2, ReadLineCosts
      <3>. QED
        BY <1>4, <3>1, <3>2
    <2>4. Pays(e, 0)
      BY <1>4, <2>1, <2>2, <2>3, Ranks DEF Pays, ReadsOrStops, Counted
    <2>5. Spares(Other(e), 0)
      BY <1>1, <2>1, <2>2, <2>3, TwoEnds DEF Spares, WorkTypes, Counted
    <2>. QED
      BY <1>2, <2>4, <2>5
  <1>5. ASSUME NEW e \in Ends, SendHello(e)
        PROVE  Work' < Work
    <2>1. CreateHello(identity[e], e) \in Frame
      BY FrameTypes DEF TypeOK
    <2>2. /\ Len(wire'[e]) <= Len(wire[e]) + 1 /\ ResetWork(rst'[e]) <= ResetWork(rst[e])
          /\ wire'[Other(e)] = wire[Other(e)] /\ rst'[Other(e)] = rst[Other(e)]
      BY <1>5, <2>1, WriteCosts DEF SendHello
    <2>3. /\ main[e] = "hello" /\ main'[e] = "await" /\ main'[Other(e)] = main[Other(e)]
          /\ UNCHANGED <<receiver, typed, input, ended>>
      BY <1>5, TwoEnds DEF SendHello, stdin, TypeOK
    <2>4. Pays(e, 0)
      BY <2>2, <2>3, Ranks DEF Pays, WritesHello, Counted
    <2>5. Spares(Other(e), 0)
      BY <2>2, <2>3, TwoEnds DEF Spares, Counted
    <2>. QED
      BY <1>2, <2>4, <2>5
  <1>6. ASSUME NEW e \in Ends, RecvHello(e)
        PROVE  Work' < Work
    <2>1. /\ main[e] = "await" /\ main'[e] = "send" /\ main'[Other(e)] = main[Other(e)]
          /\ receiver[e] = "none" /\ receiver'[e] = "reading"
          /\ receiver'[Other(e)] = receiver[Other(e)]
          /\ UNCHANGED <<rst, typed, input, ended>>
          /\ wire'[e] = wire[e] /\ wire'[Other(e)] = Unread(e)
      BY <1>6, TwoEnds DEF RecvHello, Consume, Secrets, Keys, stdin, TypeOK
    <2>2. Len(Unread(e)) + 1 <= Len(wire[Other(e)])
      BY <1>6, UnreadCosts DEF RecvHello
    <2>3. Pays(e, 1)
      BY <2>1, Ranks DEF Pays, ReadsOrStops, Counted
    <2>4. Spares(Other(e), 1)
      BY <2>1, <2>2, TwoEnds DEF Spares, Counted
    <2>. QED
      BY <1>2, <2>3, <2>4
  <1>7. ASSUME NEW e \in Ends, SkipLine(e)
        PROVE  Work' < Work
    <2>1. UNCHANGED <<main, receiver, wire, rst, typed, ended>>
      BY <1>7 DEF SkipLine, tcp
    <2>2. /\ Len(input'[e]) + 1 <= Len(input[e]) /\ Len(input'[e]) <= Len(input[e])
          /\ input'[Other(e)] = input[Other(e)]
      BY <1>7, ReadLineCosts DEF SkipLine
    <2>3. Pays(e, 0)
      BY <2>1, <2>2 DEF Pays, ReadsOrStops, Counted
    <2>4. Spares(Other(e), 0)
      BY <2>1, <2>2, TwoEnds DEF Spares, Counted
    <2>. QED
      BY <1>2, <2>3, <2>4
  <1>8. ASSUME NEW e \in Ends, SendLine(e)
        PROVE  Work' < Work
    <2>1. Encrypt(key[e], NextLine(e)) \in Frame
      BY <1>8, LineType, FrameTypes DEF SendLine, TypeOK
    <2>2. /\ Len(wire'[e]) <= Len(wire[e]) + 1 /\ ResetWork(rst'[e]) <= ResetWork(rst[e])
          /\ wire'[Other(e)] = wire[Other(e)] /\ rst'[Other(e)] = rst[Other(e)]
      BY <1>8, <2>1, WriteCosts DEF SendLine
    <2>3. Len(input'[e]) + 1 <= Len(input[e]) /\ input'[Other(e)] = input[Other(e)]
      BY <1>8, ReadLineCosts DEF SendLine
    <2>4. UNCHANGED <<main, receiver, typed, ended>>
      BY <1>8 DEF SendLine
    <2>5. Pays(e, 0)
      BY <2>2, <2>3, <2>4 DEF Pays, WritesLine, Counted
    <2>6. Spares(Other(e), 0)
      BY <2>2, <2>3, <2>4, TwoEnds DEF Spares, Counted
    <2>. QED
      BY <1>2, <2>5, <2>6
  <1>9. ASSUME NEW e \in Ends, Receive(e)
        PROVE  Work' < Work
    <2>1. /\ UNCHANGED <<main, receiver, rst, typed, input, ended>>
          /\ wire'[e] = wire[e] /\ wire'[Other(e)] = Unread(e)
      BY <1>9, TwoEnds DEF Receive, Consume, stdin, TypeOK
    <2>2. Len(Unread(e)) + 1 <= Len(wire[Other(e)])
      BY <1>9, UnreadCosts DEF Receive
    <2>3. Pays(e, 1)
      BY <2>1 DEF Pays, ReadsOrStops, Counted
    <2>4. Spares(Other(e), 1)
      BY <2>1, <2>2, TwoEnds DEF Spares, Counted
    <2>. QED
      BY <1>2, <2>3, <2>4
  <1>10. ASSUME NEW e \in Ends, ReceiveEnds(e)
         PROVE  Work' < Work
    <2>1. /\ receiver[e] = "reading" /\ receiver'[e] = "ended"
          /\ receiver'[Other(e)] = receiver[Other(e)]
          /\ UNCHANGED <<main, typed, input, ended>>
      BY <1>10, TwoEnds DEF ReceiveEnds, stdin, TypeOK
    <2>2. /\ wire'[e] = wire[e] /\ rst'[e] = rst[e]
          /\ Len(wire'[Other(e)]) <= Len(wire[Other(e)])
          /\ ResetWork(rst'[Other(e)]) <= ResetWork(rst[Other(e)])
      BY <1>10, DropCosts DEF ReceiveEnds
    <2>3. Pays(e, 0)
      BY <2>1, <2>2, Ranks DEF Pays, ReadsOrStops, Counted
    <2>4. Spares(Other(e), 0)
      BY <1>1, <2>1, <2>2, TwoEnds DEF Spares, WorkTypes, Counted
    <2>. QED
      BY <1>2, <2>3, <2>4
  <1>11. ASSUME NEW e \in Ends, Type(e)
         PROVE  Work' < Work
    <2>1. /\ UNCHANGED <<main, receiver, wire, rst, ended>>
          /\ typed'[e] = typed[e] + 1 /\ typed'[Other(e)] = typed[Other(e)]
      BY <1>11, TwoEnds DEF Type, tcp, TypeOK
    <2>2. Len(input'[e]) <= Len(input[e]) + 2 /\ input'[Other(e)] = input[Other(e)]
      <3>1. PICK blank \in {<<>>, <<Blank>>} :
              input' = [input EXCEPT ![e] = @ \o blank \o <<typed[e] + 1>>]
        BY <1>11 DEF Type
      <3>2. blank \in Seq(Int) /\ Len(blank) \in {0, 1}
        <4>1. blank = <<>> \/ blank = <<0>>
          BY DEF Blank
        <4>2. <<>> \in Seq(Int) /\ Len(<<>>) = 0 /\ <<0>> \in Seq(Int) /\ Len(<<0>>) = 1
          OBVIOUS
        <4>. QED
          BY <4>1, <4>2
      <3>3. /\ input'[e] = (input[e] \o blank) \o <<typed[e] + 1>>
            /\ input'[Other(e)] = input[Other(e)]
        BY <3>1, TwoEnds DEF TypeOK
      <3>4. input[e] \in Seq(Int) /\ blank \in Seq(Int) /\ <<typed[e] + 1>> \in Seq(Int)
        <4>1. input[e] \in Seq(0..MaxLines) /\ typed[e] \in Int
          BY MaxLinesAssumption DEF TypeOK
        <4>2. \A S, T : S \subseteq T => Seq(S) \subseteq Seq(T)
          OBVIOUS
        <4>3. input[e] \in Seq(Int)
          BY <4>1, <4>2, MaxLinesAssumption
        <4>4. \A n \in Int : <<n>> \in Seq(Int)
          OBVIOUS
        <4>. QED
          BY <3>2, <4>1, <4>3, <4>4
      <3>5. \A p, q, r \in Seq(Int) : Len((p \o q) \o r) = Len(p) + Len(q) + Len(r)
        OBVIOUS
      <3>6. Len(input'[e]) = Len(input[e]) + Len(blank) + Len(<<typed[e] + 1>>)
        BY <3>3, <3>4, <3>5
      <3>7. Len(input[e]) \in Nat /\ Len(<<typed[e] + 1>>) = 1
        BY DEF Counted
      <3>. DEFINE a == Len(input[e])  b == Len(blank)  c == Len(input'[e])
      <3>8. a \in Nat /\ b \in {0, 1} /\ c = a + b + 1
        BY <3>2, <3>6, <3>7
      <3>. HIDE DEF a, b, c
      <3>9. c <= a + 2
        BY <3>8
      <3>. QED
        BY <3>3, <3>9 DEF a, c
    <2>3. Pays(e, 0)
      BY <2>1, <2>2 DEF Pays, TypesLine, Counted
    <2>4. Spares(Other(e), 0)
      BY SMTT(30), <2>1, <2>2, TwoEnds DEF Spares, Counted
    <2>. QED
      BY <1>2, <2>3, <2>4
  <1>12. ASSUME NEW e \in Ends, EndInput(e)
         PROVE  Work' < Work
    <2>1. /\ UNCHANGED <<main, receiver, wire, rst, typed, input>>
          /\ ended[e] = FALSE /\ ended'[e] = TRUE /\ ended'[Other(e)] = ended[Other(e)]
      <3>1. UNCHANGED <<main, receiver, wire, rst, typed, input>>
        BY <1>12 DEF EndInput, tcp
      <3>2. ended[e] \in BOOLEAN /\ ~ ended[e] /\ ended' = [ended EXCEPT ![e] = TRUE]
        BY <1>12 DEF EndInput, TypeOK
      <3>3. ended'[e] = TRUE /\ ended'[Other(e)] = ended[Other(e)]
        BY <3>2, TwoEnds DEF TypeOK
      <3>4. ended[e] = FALSE
        BY <3>2
      <3>. QED
        BY <3>1, <3>3, <3>4
    <2>2. Pays(e, 0)
      <3>1. InputWork(ended[e]) = 1 /\ InputWork(ended'[e]) = 0
        BY <2>1, Ranks
      <3>. QED
        BY <2>1, <3>1 DEF Pays, ReadsOrStops, Counted
    <2>3. Spares(Other(e), 0)
      BY <2>1, TwoEnds DEF Spares, Counted
    <2>. QED
      BY <1>2, <2>2, <2>3
  <1>13. ASSUME NEW e \in Ends, Kernel(e)
         PROVE  Work' < Work
    <2>1. /\ UNCHANGED <<main, receiver, typed, input, ended>>
          /\ rst[e] = "inflight" /\ rst'[e] = "arrived"
          /\ rst'[Other(e)] = rst[Other(e)] /\ wire'[e] = wire[e]
      BY <1>13, TwoEnds DEF Kernel, RstArrives, stdin, TypeOK
    <2>2. Len(wire'[Other(e)]) <= Len(wire[Other(e)])
      <3>1. PICK n \in 0..Len(wire[Other(e)]) :
              wire'[Other(e)] = SubSeq(wire[Other(e)], 1, n)
        BY <1>13, TwoEnds DEF Kernel, RstArrives, TypeOK
      <3>2. wire[Other(e)] \in Seq(Frame)
        BY TwoEnds DEF TypeOK
      <3>3. \A S : \A q \in Seq(S) : \A m \in 0..Len(q) : Len(SubSeq(q, 1, m)) = m
        OBVIOUS
      <3>. QED
        BY <3>1, <3>2, <3>3
    <2>3. Pays(e, 0)
      BY <2>1, Ranks DEF Pays, ReadsOrStops, Counted
    <2>4. Spares(Other(e), 0)
      BY SMTT(30), <1>1, <2>1, <2>2, TwoEnds DEF Spares, WorkTypes, Counted
    <2>. QED
      BY <1>2, <2>3, <2>4
  <1>14. ASSUME NEW e \in Ends, HandshakeFails(e) \/ Finish(e) \/ Interrupt(e)
         PROVE  Work' < Work
    BY <1>3, <1>14 DEF HandshakeFails, Finish, Interrupt
  <1>15. ASSUME NEW e \in Ends, SendFails(e) \/ InputIsOver(e) \/ StdinFails(e)
         PROVE  Work' < Work
    BY <1>4, <1>15 DEF SendFails, InputIsOver, StdinFails
  <1>. QED
    BY <1>5, <1>6, <1>7, <1>8, <1>9, <1>10, <1>11, <1>12, <1>13, <1>14, <1>15
    DEF Next, MainThread, ReceiveThread, User

LEMMA InvStep == EndsInv /\ [Next]_vars => UNCHANGED vars \/ Work' < Work
  BY WorkStep DEF EndsInv, PromiseInv, IInv

\* Whatever the threads and the users of the two processes do, in whatever
\* order, every step leaves less to be done (run_session, receive_loop and
\* send_loop of p2p.rs).
THEOREM ChatWorkFalls == Spec => [][Work' < Work]_vars
  <1>1. EndsInv /\ [Next]_vars => [Work' < Work]_vars
    BY InvStep
  <1>. QED
    BY <1>1, EndsInvAlways, PTL DEF Spec

Bounded == Work \in Nat /\ Work <= 18 + 10 * MaxLines

\* A chat in which n lines at most are typed at each end is over, or waits for
\* somebody at a keyboard, after 2 * (9 + 5 * n) steps at the latest.
THEOREM ChatIsBounded == Spec => []Bounded
  <1>1. Init => Bounded
    <2>. SUFFICES ASSUME Init PROVE Bounded
      OBVIOUS
    <2>1. ASSUME NEW e \in Ends PROVE EndWork(e) = 9 + 5 * MaxLines
      <3>1. /\ main[e] = "hello" /\ receiver[e] = "none" /\ rst[e] = "none"
            /\ ended[e] = FALSE /\ typed[e] = 0 /\ input[e] = <<>> /\ wire[e] = <<>>
        BY DEF Init, TcpInit
      <3>2. EndWork(e) = Cost(5, 1, 2, 1, MaxLines - 0, 0, 0)
        BY <3>1, Ranks DEF EndWork
      <3>. QED
        BY <3>2, MaxLinesAssumption DEF Cost
    <2>. QED
      BY <2>1, MaxLinesAssumption DEF Bounded, Work, Ends
  <1>2. EndsInv /\ [Next]_vars => (Bounded => Bounded')
    <2>. SUFFICES ASSUME EndsInv, [Next]_vars, Bounded PROVE Bounded'
      OBVIOUS
    <2>1. TypeOK /\ TypeOK'
      BY TypeStep DEF EndsInv, PromiseInv, IInv
    <2>2. WorkTypes'
      BY <2>1, WorkTyped, PTL
    <2>3. Work' \in Nat
      BY <2>2 DEF Work, WorkTypes, Ends
    <2>4. UNCHANGED vars => Work' = Work
      BY DEF vars, tcp, stdin, Work, EndWork
    <2>. QED
      BY <2>3, <2>4, InvStep, MaxLinesAssumption DEF Bounded
  <1>. QED
    BY <1>1, <1>2, EndsInvAlways, PTL DEF Spec

----------------------------------------------------------------------------
(* While anything is left that a thread may do, some of it is done.        *)

Less(k) == Work < k

MainBusy(k, e) == Work = k /\ MainCanStep(e)

ReceiverBusy(k, e) == Work = k /\ ReceiverCanStep(e)

KernelBusy(k, e) == Work = k /\ KernelCanStep(e)

EndBusy(k, e) == MainBusy(k, e) \/ ReceiverBusy(k, e) \/ KernelBusy(k, e)

EndGetsOn(k, e) == EndBusy(k, e) ~> Less(k)

\* Whoever can go on is left alone by the others, or the work gets less.
LEMMA EndGoesOn ==
    ASSUME NEW k \in Nat, NEW e \in Ends
    PROVE  []EndsInv /\ [][Next]_vars /\ ThreadsFair(e) /\ []GuardsEnable => EndGetsOn(k, e)
  <1>1. EndsInv /\ [Next]_vars =>
           /\ MainBusy(k, e) => MainBusy(k, e)' \/ Less(k)'
           /\ ReceiverBusy(k, e) => ReceiverBusy(k, e)' \/ Less(k)'
           /\ KernelBusy(k, e) => KernelBusy(k, e)' \/ Less(k)'
    <2>1. UNCHANGED vars => Work' = Work
      BY DEF vars, tcp, stdin, Work, EndWork
    <2>2. UNCHANGED vars =>
              /\ MainCanStep(e)' = MainCanStep(e)
              /\ ReceiverCanStep(e)' = ReceiverCanStep(e)
              /\ KernelCanStep(e)' = KernelCanStep(e)
      BY DEF vars, tcp, stdin, MainCanStep, ReceiverCanStep, KernelCanStep,
             CanWrite, Closed, HasFrame, StreamOver, WriteFails, NextLine
    <2>. QED
      BY <2>1, <2>2, InvStep DEF MainBusy, ReceiverBusy, KernelBusy, Less
  <1>2. /\ MainThread(e) => Next
        /\ ReceiveThread(e) => Next
        /\ Kernel(e) => Next
    BY DEF Next
  <1>3. EndsInv =>
           /\ MainBusy(k, e) /\ <<MainThread(e)>>_vars => Less(k)'
           /\ ReceiverBusy(k, e) /\ <<ReceiveThread(e)>>_vars => Less(k)'
           /\ KernelBusy(k, e) /\ <<Kernel(e)>>_vars => Less(k)'
    BY <1>2, InvStep DEF MainBusy, ReceiverBusy, KernelBusy, Less
  <1>4. GuardsEnable =>
           MainGuardEnables(e) /\ ReceiverGuardEnables(e) /\ KernelGuardEnables(e)
    BY DEF GuardsEnable
  <1>5. /\ MainBusy(k, e) => MainCanStep(e)
        /\ ReceiverBusy(k, e) => ReceiverCanStep(e)
        /\ KernelBusy(k, e) => KernelCanStep(e)
    BY DEF MainBusy, ReceiverBusy, KernelBusy
  <1>. DEFINE Env == []EndsInv /\ [][Next]_vars /\ ThreadsFair(e) /\ []GuardsEnable
  <1>6. Env => (MainBusy(k, e) ~> Less(k))
    BY <1>1, <1>3, <1>4, <1>5, PTL DEF ThreadsFair, MainGuardEnables
  <1>7. Env => (ReceiverBusy(k, e) ~> Less(k))
    BY <1>1, <1>3, <1>4, <1>5, PTL DEF ThreadsFair, ReceiverGuardEnables
  <1>8. Env => (KernelBusy(k, e) ~> Less(k))
    BY <1>1, <1>3, <1>4, <1>5, PTL DEF ThreadsFair, KernelGuardEnables
  <1>. QED
    BY <1>6, <1>7, <1>8, PTL DEF EndGetsOn, EndBusy

\* Whatever is left to do, either some of it is done or the chat has settled
\* what it owes: every line that could be read is printed or a process is gone,
\* and no process that has no more to send outlives its peer.
THEOREM ChatGoesOn ==
    ASSUME NEW k \in Nat
    PROVE  FairSpec /\ []GuardsEnable => (Work = k ~> Work < k \/ Settled)
  <1>1. FairSpec => Spec /\ ThreadsFair("host") /\ ThreadsFair("joiner")
    BY DEF FairSpec, Fairness, Ends
  <1>2. Spec => []EndsInv /\ [][Next]_vars /\ [](Idle => Settled)
    BY EndsInvAlways, IdleIsSettled, PTL DEF Spec
  <1>3. Work = k => EndBusy(k, "host") \/ EndBusy(k, "joiner") \/ Idle
    BY DEF EndBusy, MainBusy, ReceiverBusy, KernelBusy, Idle, Ends
  <1>4. ASSUME NEW e \in Ends
        PROVE  FairSpec /\ []GuardsEnable /\ ThreadsFair(e) => EndGetsOn(k, e)
    BY <1>1, <1>2, EndGoesOn, PTL
  <1>5. FairSpec /\ []GuardsEnable => EndGetsOn(k, "host") /\ EndGetsOn(k, "joiner")
    BY <1>1, <1>4 DEF Ends
  <1>6. Less(k) => Work < k
    BY DEF Less
  <1>. QED
    BY <1>1, <1>2, <1>3, <1>5, <1>6, PTL DEF EndGetsOn

----------------------------------------------------------------------------
(* What has been settled stays settled.                                    *)

\* Nobody takes back a line, an exit or the end of an input.
LEMMA Lasting ==
    ASSUME NEW e \in Ends, NEW n \in Nat
    PROVE  TypeOK /\ [Next]_vars =>
              /\ typed[e] >= n => typed'[e] >= n
              /\ main[e] = "exited" => main'[e] = "exited"
              /\ main[e] = "join" => main'[e] \in {"join", "exited"}
              /\ ended[e] => ended'[e]
  <1>. SUFFICES ASSUME TypeOK, [Next]_vars
                PROVE  /\ typed[e] >= n => typed'[e] >= n
                       /\ main[e] = "exited" => main'[e] = "exited"
                       /\ main[e] = "join" => main'[e] \in {"join", "exited"}
                       /\ ended[e] => ended'[e]
    OBVIOUS
  <1>1. CASE UNCHANGED vars
    BY <1>1 DEF vars, stdin
  <1>2. typed[e] \in Nat
    BY MaxLinesAssumption DEF TypeOK
  <1>3. ASSUME NEW d \in Ends, MainThread(d)
        PROVE  /\ typed' = typed /\ ended' = ended
               /\ main[d] # "exited" /\ (main[d] = "join" => main'[d] = "exited")
               /\ \A f \in Ends : f # d => main'[f] = main[f]
    BY <1>3 DEF MainThread, SendHello, RecvHello, HandshakeFails, SkipLine, SendLine,
                SendFails, InputIsOver, Finish, SendLoopEnds, Quit, stdin, TypeOK
  <1>4. ASSUME NEW d \in Ends, Interrupt(d) \/ StdinFails(d)
        PROVE  /\ typed' = typed /\ ended' = ended
               /\ main[d] # "exited" /\ (main[d] = "join" => main'[d] = "exited")
               /\ \A f \in Ends : f # d => main'[f] = main[f]
    BY <1>4 DEF Interrupt, StdinFails, SendLoopEnds, Quit, stdin, TypeOK
  <1>5. ASSUME NEW d \in Ends, ReceiveThread(d) \/ Kernel(d)
        PROVE  main' = main /\ typed' = typed /\ ended' = ended
    BY <1>5 DEF ReceiveThread, Receive, ReceiveEnds, Kernel, stdin
  <1>6. ASSUME NEW d \in Ends, Type(d)
        PROVE  main' = main /\ ended' = ended /\ typed'[e] \in {typed[e], typed[e] + 1}
    BY <1>6 DEF Type, TypeOK
  <1>7. ASSUME NEW d \in Ends, EndInput(d)
        PROVE  main' = main /\ typed' = typed /\ (ended[e] => ended'[e])
    <2>1. main' = main /\ typed' = typed /\ ended' = [ended EXCEPT ![d] = TRUE]
      BY <1>7 DEF EndInput
    <2>2. ended'[e] = IF e = d THEN TRUE ELSE ended[e]
      BY <2>1 DEF TypeOK
    <2>. QED
      BY <2>1, <2>2
  <1>. QED
    BY <1>1, <1>2, <1>3, <1>4, <1>5, <1>6, <1>7 DEF Next, User

SettlesAgain == []<>Settled

LEMMA TypedLasts ==
    ASSUME NEW e \in Ends, NEW n \in 1..MaxLines
    PROVE  Spec /\ SettlesAgain =>
               (typed[e] >= n ~> Len(printed[Other(e)]) >= n \/ Over \/ NeverRead(e, n))
  <1>. DEFINE Typed == typed[e] >= n
              Done == Len(printed[Other(e)]) >= n \/ Over \/ NeverRead(e, n)
  <1>1. EndsInv /\ [Next]_vars => (Typed => Typed')
    BY Lasting, MaxLinesAssumption DEF EndsInv, PromiseInv, IInv
  <1>2. EndsInv /\ Settled => (Typed => Done)
    <2>. SUFFICES ASSUME EndsInv, Settled, Typed PROVE Done
      OBVIOUS
    <2>1. typed[e] \in Nat
      BY MaxLinesAssumption DEF EndsInv, PromiseInv, IInv, TypeOK
    <2>2. n \in 1..typed[e]
      BY <2>1, MaxLinesAssumption
    <2>. QED
      BY <2>2 DEF Settled, Delivered
  <1>. HIDE DEF Typed, Done
  <1>3. Spec /\ SettlesAgain => (Typed ~> Done)
    BY <1>1, <1>2, EndsInvAlways, PTL DEF Spec, SettlesAgain
  <1>. QED
    BY <1>3 DEF Typed, Done

LEMMA ExitLasts ==
    ASSUME NEW e \in Ends
    PROVE  Spec /\ SettlesAgain => (Alone(e) ~> main[e] = "exited")
  <1>. DEFINE Gone == main[e] = "exited"
  <1>1. EndsInv /\ [Next]_vars => (Alone(e) => Alone(e)' \/ Gone')
    <2>. SUFFICES ASSUME EndsInv, [Next]_vars PROVE Alone(e) => Alone(e)' \/ Gone'
      OBVIOUS
    <2>1. TypeOK /\ 0 \in Nat /\ Other(e) \in Ends
      BY TwoEnds DEF EndsInv, PromiseInv, IInv
    <2>. QED
      BY <2>1, Lasting DEF Alone
  <1>2. Settled => (Alone(e) => Gone)
    BY DEF Settled, Followed
  <1>. HIDE DEF Gone
  <1>3. Spec /\ SettlesAgain => (Alone(e) ~> Gone)
    BY <1>1, <1>2, EndsInvAlways, PTL DEF Spec, SettlesAgain
  <1>. QED
    BY <1>3 DEF Gone

\* A chat that settles again and again keeps the two promises of the CLI that
\* take fairness: a typed line is printed, and a process follows its peer.
THEOREM SettlingSuffices == Spec /\ SettlesAgain => TypedIsPrinted /\ FollowsPeer
  <1>1. Spec /\ SettlesAgain => TypedIsPrinted
    <2>. SUFFICES ASSUME NEW e \in Ends, NEW n \in 1..MaxLines
                  PROVE  Spec /\ SettlesAgain =>
                    (typed[e] >= n ~> Len(printed[Other(e)]) >= n \/ Over \/ NeverRead(e, n))
      BY DEF TypedIsPrinted
    <2>. QED
      BY TypedLasts
  <1>2. Spec /\ SettlesAgain => FollowsPeer
    <2>. SUFFICES ASSUME NEW e \in Ends
                  PROVE  Spec /\ SettlesAgain => (Alone(e) ~> main[e] = "exited")
      BY DEF FollowsPeer, Alone
    <2>. QED
      BY ExitLasts
  <1>. QED
    BY <1>1, <1>2
=============================================================================
