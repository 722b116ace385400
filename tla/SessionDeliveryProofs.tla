----------------------- MODULE SessionDeliveryProofs -----------------------
(***************************************************************************)
(* What each user is shown: the messages of the other one, in order, none  *)
(* twice and none skipped, from the invited host only.                     *)
(***************************************************************************)
EXTENDS SessionProofs

----------------------------------------------------------------------------
(* The event queue.                                                        *)

LEMMA QueuedAppendOther ==
    ASSUME NEW q \in Seq(EventType), NEW k \in Nat, NEW r \in Nat, NEW v \in EventType,
           Queued(q, k, r), v.kind # "Incoming"
    PROVE  Queued(Append(q, v), k, r)
  <1>. DEFINE p == Append(q, v)
  <1>1. /\ DOMAIN q = 1..Len(q) /\ Len(q) \in Nat
        /\ DOMAIN p = 1..(Len(q) + 1)
        /\ p[Len(q) + 1] = v
        /\ \A i \in 1..Len(q) : p[i] = q[i]
    OBVIOUS
  <1>. HIDE DEF p
  <1>. QED
    BY SMTT(30), <1>1 DEF Queued, p

LEMMA QueuedAppendNext ==
    ASSUME NEW q \in Seq(EventType), NEW k \in Nat, NEW r \in Nat, k <= r,
           NEW v \in EventType, v.kind = "Incoming", v.body = r + 1,
           Queued(q, k, r)
    PROVE  Queued(Append(q, v), k, r + 1)
  <1>. DEFINE p == Append(q, v)
  <1>1. /\ DOMAIN q = 1..Len(q) /\ Len(q) \in Nat
        /\ DOMAIN p = 1..(Len(q) + 1)
        /\ p[Len(q) + 1] = v
        /\ \A i \in 1..Len(q) : p[i] = q[i]
    OBVIOUS
  <1>. HIDE DEF p
  <1>2. \A i \in DOMAIN p : p[i].kind = "Incoming" => p[i].body > k /\ p[i].body <= r + 1
    BY <1>1, EventTypes, MaxSendAssumption DEF Queued
  <1>3. \A i, j \in DOMAIN p :
          i < j /\ p[i].kind = "Incoming" /\ p[j].kind = "Incoming"
             => p[i].body < p[j].body
    <2>. SUFFICES ASSUME NEW i \in DOMAIN p, NEW j \in DOMAIN p, i < j,
                         p[i].kind = "Incoming", p[j].kind = "Incoming"
                  PROVE  p[i].body < p[j].body
      OBVIOUS
    <2>1. i \in DOMAIN q /\ p[i] = q[i]
      BY <1>1
    <2>2. CASE j \in DOMAIN q
      BY <1>1, <2>1, <2>2 DEF Queued
    <2>3. CASE j = Len(q) + 1
      <3>1. p[i].body <= r /\ p[i].body \in Nat
        BY <2>1, EventTypes, MaxSendAssumption DEF Queued
      <3>. QED
        BY <1>1, <2>3, <3>1
    <2>. QED
      BY <1>1, <2>2, <2>3
  <1>4. \A n \in (k + 1)..(r + 1) : \E i \in DOMAIN p :
          p[i].kind = "Incoming" /\ p[i].body = n
    <2>. SUFFICES ASSUME NEW n \in (k + 1)..(r + 1)
                  PROVE  \E i \in DOMAIN p : p[i].kind = "Incoming" /\ p[i].body = n
      OBVIOUS
    <2>1. CASE n = r + 1
      BY <1>1, <2>1
    <2>2. CASE n \in (k + 1)..r
      <3>1. PICK i \in DOMAIN q : q[i].kind = "Incoming" /\ q[i].body = n
        BY <2>2 DEF Queued
      <3>2. i \in DOMAIN p /\ p[i] = q[i]
        BY <1>1
      <3>. QED
        BY <3>1, <3>2
    <2>. QED
      BY <2>1, <2>2
  <1>. QED
    BY <1>2, <1>3, <1>4 DEF Queued, p

LEMMA QueuedTailOther ==
    ASSUME NEW q \in Seq(EventType), NEW k \in Nat, NEW r \in Nat,
           q # <<>>, Queued(q, k, r), Head(q).kind # "Incoming"
    PROVE  Queued(Tail(q), k, r)
  <1>. DEFINE p == Tail(q)
  <1>1. /\ DOMAIN q = 1..Len(q) /\ Len(q) \in Nat /\ Len(q) >= 1
        /\ DOMAIN p = 1..(Len(q) - 1)
        /\ Head(q) = q[1]
        /\ \A i \in 1..(Len(q) - 1) : p[i] = q[i + 1]
    BY TailSeq
  <1>. HIDE DEF p
  <1>2. \A n \in (k + 1)..r : \E i \in DOMAIN p :
          p[i].kind = "Incoming" /\ p[i].body = n
    <2>. SUFFICES ASSUME NEW n \in (k + 1)..r
                  PROVE  \E i \in DOMAIN p : p[i].kind = "Incoming" /\ p[i].body = n
      OBVIOUS
    <2>1. PICK i \in DOMAIN q : q[i].kind = "Incoming" /\ q[i].body = n
      BY DEF Queued
    <2>2. i # 1
      BY <1>1, <2>1
    <2>3. i - 1 \in DOMAIN p /\ p[i - 1] = q[i]
      BY <1>1, <2>2
    <2>. QED
      BY <2>1, <2>3
  <1>. QED
    BY SMTT(30), <1>1, <1>2 DEF Queued, p

LEMMA QueuedTailNext ==
    ASSUME NEW q \in Seq(EventType), NEW k \in Nat, NEW r \in Nat,
           q # <<>>, Queued(q, k, r), Head(q).kind = "Incoming"
    PROVE  Head(q).body = k + 1 /\ k + 1 <= r /\ Queued(Tail(q), k + 1, r)
  <1>. DEFINE p == Tail(q)
  <1>1. /\ DOMAIN q = 1..Len(q) /\ Len(q) \in Nat /\ Len(q) >= 1
        /\ DOMAIN p = 1..(Len(q) - 1)
        /\ Head(q) = q[1]
        /\ \A i \in 1..(Len(q) - 1) : p[i] = q[i + 1]
    BY TailSeq
  <1>. \A i \in DOMAIN q : q[i] \in EventType
    OBVIOUS
  <1>. HIDE DEF p
  <1>2. q[1].body \in Nat /\ q[1].body > k /\ q[1].body <= r
    BY <1>1, EventTypes, MaxSendAssumption DEF Queued
  <1>3. q[1].body = k + 1
    <2>1. PICK i \in DOMAIN q : q[i].kind = "Incoming" /\ q[i].body = k + 1
      BY <1>2 DEF Queued
    <2>2. i = 1 \/ q[1].body < q[i].body
      BY <1>1, <2>1 DEF Queued
    <2>. QED
      BY <1>2, <2>1, <2>2
  <1>4. \A n \in (k + 2)..r : \E i \in DOMAIN p :
          p[i].kind = "Incoming" /\ p[i].body = n
    <2>. SUFFICES ASSUME NEW n \in (k + 2)..r
                  PROVE  \E i \in DOMAIN p : p[i].kind = "Incoming" /\ p[i].body = n
      OBVIOUS
    <2>1. PICK i \in DOMAIN q : q[i].kind = "Incoming" /\ q[i].body = n
      BY DEF Queued
    <2>2. i # 1
      BY <1>3, <2>1
    <2>3. i - 1 \in DOMAIN p /\ p[i - 1] = q[i]
      BY <1>1, <2>2
    <2>. QED
      BY <2>1, <2>3
  <1>5. \A i \in DOMAIN p : p[i].kind = "Incoming" => p[i].body > k + 1 /\ p[i].body <= r
    <2>. SUFFICES ASSUME NEW i \in DOMAIN p, p[i].kind = "Incoming"
                  PROVE  p[i].body > k + 1 /\ p[i].body <= r
      OBVIOUS
    <2>1. i + 1 \in DOMAIN q /\ p[i] = q[i + 1] /\ 1 < i + 1
      BY <1>1
    <2>. QED
      BY <1>1, <1>3, <2>1, EventTypes, MaxSendAssumption DEF Queued
  <1>6. \A i, j \in DOMAIN p :
          i < j /\ p[i].kind = "Incoming" /\ p[j].kind = "Incoming"
             => p[i].body < p[j].body
    <2>. SUFFICES ASSUME NEW i \in DOMAIN p, NEW j \in DOMAIN p, i < j,
                         p[i].kind = "Incoming", p[j].kind = "Incoming"
                  PROVE  p[i].body < p[j].body
      OBVIOUS
    <2>1. /\ i + 1 \in DOMAIN q /\ p[i] = q[i + 1]
          /\ j + 1 \in DOMAIN q /\ p[j] = q[j + 1] /\ i + 1 < j + 1
      BY <1>1
    <2>. QED
      BY <2>1 DEF Queued
  <1>. QED
    BY <1>1, <1>2, <1>3, <1>4, <1>5, <1>6 DEF Queued, p

----------------------------------------------------------------------------
(* The frames on the wire and the outbound channel.                        *)

LEMMA HellosIs == \A q : Hellos(q) \in {0, 1}
  BY DEF Hellos

LEMMA CarriesBound ==
    ASSUME NEW q \in Seq(Frame), NEW r \in Nat, NEW m, Carries(q, r, m)
    PROVE  m \in Nat /\ r <= m
  <1>1. Len(q) \in Nat /\ (q # <<>> => Len(q) >= 1)
    OBVIOUS
  <1>. QED
    BY <1>1 DEF Carries, Hellos

LEMMA CarriesHello ==
    ASSUME NEW r \in Nat, NEW m, Carries(<<>>, r, m), NEW h \in Frame, h.kind = "hello"
    PROVE  Carries(<<h>>, r, m)
  <1>1. Hellos(<<>>) = 0
    BY DEF Hellos
  <1>2. <<h>> # <<>> /\ <<h>>[1] = h /\ Len(<<h>>) = 1 /\ DOMAIN <<h>> = {1}
    OBVIOUS
  <1>3. Hellos(<<h>>) = 1
    BY <1>2 DEF Hellos
  <1>. QED
    BY <1>1, <1>2, <1>3 DEF Carries

LEMMA CarriesChat ==
    ASSUME NEW q \in Seq(Frame), NEW r \in Nat, NEW m \in Nat, Carries(q, r, m),
           NEW x \in Frame, x.kind = "chat", x.body = m + 1
    PROVE  Carries(Append(q, x), r, m + 1)
  <1>. DEFINE p == Append(q, x)
  <1>1. /\ DOMAIN q = 1..Len(q) /\ Len(q) \in Nat /\ (q = <<>> <=> Len(q) = 0)
        /\ DOMAIN p = 1..(Len(q) + 1) /\ Len(p) = Len(q) + 1 /\ p # <<>>
        /\ p[Len(q) + 1] = x
        /\ \A i \in 1..Len(q) : p[i] = q[i]
    OBVIOUS
  <1>. HIDE DEF p
  <1>2. Hellos(p) = Hellos(q) /\ Hellos(q) \in {0, 1}
    BY <1>1 DEF Hellos
  <1>. QED
    BY <1>1, <1>2 DEF Carries, p

LEMMA RestOfFrames ==
    ASSUME NEW q \in Seq(Frame), q # <<>>
    PROVE  /\ DOMAIN q = 1..Len(q) /\ Len(q) \in Nat /\ Len(q) >= 1
           /\ SubSeq(q, 2, Len(q)) \in Seq(Frame)
           /\ DOMAIN SubSeq(q, 2, Len(q)) = 1..(Len(q) - 1)
           /\ Len(SubSeq(q, 2, Len(q))) = Len(q) - 1
           /\ \A i \in 1..(Len(q) - 1) : SubSeq(q, 2, Len(q))[i] = q[i + 1]
  BY RestSeq

LEMMA CarriesAfterHello ==
    ASSUME NEW q \in Seq(Frame), NEW r \in Nat, NEW m \in Nat, Carries(q, r, m),
           q # <<>>, q[1].kind = "hello", \A i \in DOMAIN q : i # 1 => q[i].kind = "chat"
    PROVE  Carries(SubSeq(q, 2, Len(q)), r, m)
  <1>. DEFINE n == Len(q)
              p == SubSeq(q, 2, n)
  <1>1. /\ DOMAIN q = 1..n /\ n \in Nat /\ n >= 1
        /\ p \in Seq(Frame) /\ DOMAIN p = 1..(n - 1) /\ Len(p) = n - 1
        /\ \A i \in 1..(n - 1) : p[i] = q[i + 1]
    BY RestOfFrames
  <1>2. Hellos(q) = 1 /\ r + n - 1 = m /\ \A i \in 2..n : q[i].body = r + i - 1
    BY <1>1 DEF Carries, Hellos
  <1>. HIDE DEF p, n
  <1>3. \A i \in DOMAIN p : p[i].kind = "chat" /\ p[i].body = r + i
    <2>. SUFFICES ASSUME NEW i \in 1..(n - 1)
                  PROVE  p[i].kind = "chat" /\ p[i].body = r + i
      BY <1>1
    <2>1. i + 1 \in 2..n /\ i + 1 \in DOMAIN q /\ i + 1 # 1 /\ r + (i + 1) - 1 = r + i
      BY <1>1
    <2>2. p[i] = q[i + 1]
      BY <1>1
    <2>. QED
      BY <1>2, <2>1, <2>2
  <1>4. Hellos(p) = 0
    BY <1>1, <1>3 DEF Hellos
  <1>5. Carries(p, r, m)
    BY <1>1, <1>2, <1>3, <1>4 DEF Carries
  <1>. QED
    BY <1>5 DEF p, n

LEMMA CarriesAfterChat ==
    ASSUME NEW q \in Seq(Frame), NEW r \in Nat, NEW m \in Nat, Carries(q, r, m),
           q # <<>>, \A i \in DOMAIN q : q[i].kind = "chat"
    PROVE  q[1].body = r + 1 /\ r + 1 <= m /\ Carries(SubSeq(q, 2, Len(q)), r + 1, m)
  <1>. DEFINE n == Len(q)
              p == SubSeq(q, 2, n)
  <1>1. /\ DOMAIN q = 1..n /\ n \in Nat /\ n >= 1
        /\ p \in Seq(Frame) /\ DOMAIN p = 1..(n - 1) /\ Len(p) = n - 1
        /\ \A i \in 1..(n - 1) : p[i] = q[i + 1]
    BY RestOfFrames
  <1>2. Hellos(q) = 0 /\ r + n = m /\ \A i \in 1..n : q[i].body = r + i
    BY <1>1 DEF Carries, Hellos
  <1>. HIDE DEF p, n
  <1>3. \A i \in DOMAIN p : p[i].kind = "chat" /\ p[i].body = r + 1 + i
    <2>. SUFFICES ASSUME NEW i \in 1..(n - 1)
                  PROVE  p[i].kind = "chat" /\ p[i].body = r + 1 + i
      BY <1>1
    <2>1. i + 1 \in 1..n /\ i + 1 \in DOMAIN q /\ r + (i + 1) = r + 1 + i
      BY <1>1
    <2>2. p[i] = q[i + 1]
      BY <1>1
    <2>. QED
      BY <1>2, <2>1, <2>2
  <1>4. Hellos(p) = 0
    BY <1>1, <1>3 DEF Hellos
  <1>5. Carries(p, r + 1, m)
    BY <1>1, <1>2, <1>3, <1>4 DEF Carries
  <1>6. q[1].body = r + 1 /\ r + 1 <= m
    BY <1>1, <1>2
  <1>. QED
    BY <1>5, <1>6 DEF p, n

LEMMA CarriesPrefix ==
    ASSUME NEW q \in Seq(Frame), NEW r \in Nat, NEW m \in Nat, Carries(q, r, m),
           NEW n \in 0..Len(q)
    PROVE  \E k \in r..m : Carries(SubSeq(q, 1, n), r, k)
  <1>. DEFINE p == SubSeq(q, 1, n)
  <1>1. /\ DOMAIN q = 1..Len(q) /\ Len(q) \in Nat /\ n \in Nat
        /\ DOMAIN p = 1..n /\ Len(p) = n /\ (p = <<>> <=> n = 0)
        /\ n # 0 => q # <<>> /\ 1 \in DOMAIN p
        /\ \A i \in 1..n : p[i] = q[i]
    BY PrefixSeq
  <1>. HIDE DEF p
  <1>2. Hellos(q) \in {0, 1} /\ Hellos(p) \in {0, 1} /\ (n # 0 => Hellos(p) = Hellos(q))
        /\ (n = 0 => Hellos(p) = 0) /\ r <= m
    BY <1>1, CarriesBound DEF Hellos
  <1>3. r + n - Hellos(p) \in r..m
    BY <1>1, <1>2 DEF Carries
  <1>4. Carries(p, r, r + n - Hellos(p))
    BY <1>1, <1>2 DEF Carries
  <1>. QED
    BY <1>3, <1>4 DEF p

LEMMA UnsentAppend ==
    ASSUME NEW q \in Seq(1..MaxSend), NEW w \in Nat, NEW s \in Nat, Unsent(q, w, s)
    PROVE  Unsent(Append(q, s + 1), w, s + 1)
  <1>. DEFINE p == Append(q, s + 1)
  <1>1. /\ DOMAIN q = 1..Len(q) /\ Len(q) \in Nat
        /\ DOMAIN p = 1..(Len(q) + 1) /\ Len(p) = Len(q) + 1
        /\ p[Len(q) + 1] = s + 1
        /\ \A i \in 1..Len(q) : p[i] = q[i]
    BY AppendProperties
  <1>. HIDE DEF p
  <1>. QED
    BY <1>1 DEF Unsent, p

LEMMA UnsentTail ==
    ASSUME NEW q \in Seq(1..MaxSend), NEW w \in Nat, NEW s \in Nat, Unsent(q, w, s),
           q # <<>>
    PROVE  Head(q) = w + 1 /\ w + 1 <= s /\ Unsent(Tail(q), w + 1, s)
  <1>. DEFINE p == Tail(q)
  <1>1. /\ DOMAIN q = 1..Len(q) /\ Len(q) \in Nat /\ Len(q) >= 1
        /\ DOMAIN p = 1..(Len(q) - 1) /\ Len(p) = Len(q) - 1 /\ Head(q) = q[1]
        /\ \A i \in DOMAIN p : p[i] = q[i + 1]
    BY TailSeq
  <1>. HIDE DEF p
  <1>. QED
    BY <1>1 DEF Unsent, p

----------------------------------------------------------------------------
(* The pipeline of one direction, from f to o.                             *)

\* Whoever stops, drops or resets something takes no message forward: the
\* same r and w still describe the pipeline.
LEMMA PipelineKept ==
    ASSUME TypeOK, NEW f \in Ends, NEW o \in Ends,
           NEW r \in 0..MaxSend, NEW w \in 0..MaxSend, Pipeline(f, o, r, w),
           shown'[o] = shown[o], sent'[f] = sent[f],
           handle'[o] = "held" =>
              /\ handle[o] = "held"
              /\ \/ events'[o] = events[o]
                 \/ \E v \in EventType :
                       v.kind # "Incoming" /\ events'[o] = Append(events[o], v),
           MayRead(o)' =>
              /\ MayRead(o)
              /\ \/ wire'[f] = wire[f]
                 \/ /\ ~ Intact(f)'
                    /\ \E n \in 0..Len(wire[f]) : wire'[f] = SubSeq(wire[f], 1, n),
           Intact(f)' => Intact(f) /\ outbound'[f] = outbound[f]
    PROVE  Pipeline(f, o, r, w)'
  <1>. /\ shown[o] \in Seq(1..MaxSend) /\ events[o] \in Seq(EventType)
       /\ wire[f] \in Seq(Frame) /\ sent[f] \in Nat /\ r \in Nat /\ w \in Nat
    BY MaxSendAssumption DEF TypeOK
  <1>1. /\ Len(shown'[o]) <= r /\ r <= w /\ w <= sent'[f]
        /\ \A i \in DOMAIN shown'[o] : shown'[o][i] = i
    BY DEF Pipeline
  <1>2. handle'[o] = "held" => Queued(events'[o], Len(shown'[o]), r)
    <2>. SUFFICES ASSUME handle'[o] = "held"
                  PROVE  Queued(events'[o], Len(shown[o]), r)
      OBVIOUS
    <2>. Queued(events[o], Len(shown[o]), r) /\ Len(shown[o]) \in Nat
      BY DEF Pipeline
    <2>1. CASE events'[o] = events[o]
      BY <2>1
    <2>2. ASSUME NEW v \in EventType, v.kind # "Incoming",
                 events'[o] = Append(events[o], v)
          PROVE  Queued(events'[o], Len(shown[o]), r)
      BY <2>2, QueuedAppendOther
    <2>. QED
      BY <2>1, <2>2
  <1>3. ASSUME MayRead(o)'
        PROVE  \E m \in r..w : Carries(wire'[f], r, m) /\ (Intact(f)' => m = w)
    <2>1. PICK m \in r..w : Carries(wire[f], r, m) /\ (Intact(f) => m = w)
      BY <1>3 DEF Pipeline
    <2>2. CASE wire'[f] = wire[f]
      BY <2>1, <2>2
    <2>3. ASSUME ~ Intact(f)', NEW n \in 0..Len(wire[f]),
                 wire'[f] = SubSeq(wire[f], 1, n)
          PROVE  \E k \in r..w : Carries(wire'[f], r, k)
      <3>1. m \in Nat /\ m <= w
        BY <2>1
      <3>2. PICK k \in r..m : Carries(SubSeq(wire[f], 1, n), r, k)
        BY <2>1, <3>1, CarriesPrefix
      <3>. QED
        BY <2>3, <3>1, <3>2
    <2>. QED
      BY <1>3, <2>2, <2>3
  <1>4. Intact(f)' => Unsent(outbound'[f], w, sent'[f])
    BY DEF Pipeline
  <1>. QED
    BY <1>1, <1>2, <1>3, <1>4 DEF Pipeline

\* SendHello puts no message on the wire.
LEMMA HelloSent ==
    ASSUME Handshake, NEW f \in Ends, NEW o \in Ends, o = Other(f), SendHello(f),
           NEW r \in 0..MaxSend, NEW w \in 0..MaxSend, Pipeline(f, o, r, w)
    PROVE  Pipeline(f, o, r, w)'
  <1>. TypeOK /\ WireFrames(f) /\ r \in Nat /\ w \in Nat
    BY MaxSendAssumption DEF Handshake, Ownership
  <1>1. wire[f] = <<>> /\ identity[f] \in Identity
    BY DEF SendHello, WireFrames, TypeOK
  <1>2. MayRead(o)' <=> MayRead(o)
    BY TwoEnds DEF SendHello, MayRead, TypeOK
  <1>3. Intact(f) /\ Intact(f)'
    BY DEF SendHello, Intact, Running, Waiting, TypeOK
  <1>4. MayRead(o) => ~ Closed(o)
    BY DEF MayRead, Handshake, Ownership, Owns, Closed
  <1>5. MayRead(o) => wire'[f] = <<CreateHello(identity[f], f)>>
    <2>1. ~ Closed(o) => wire'[f] = Append(wire[f], CreateHello(identity[f], f))
      BY DEF SendHello, Write, TypeOK
    <2>. QED
      BY <1>1, <1>4, <2>1
  <1>6. ASSUME MayRead(o)
        PROVE  Carries(wire'[f], r, w)
    <2>1. CreateHello(identity[f], f) \in Frame /\ CreateHello(identity[f], f).kind = "hello"
      BY <1>1, FrameTypes DEF CreateHello
    <2>2. Carries(<<>>, r, w)
      BY <1>1, <1>3, <1>6 DEF Pipeline
    <2>. QED
      BY <1>5, <1>6, <2>1, <2>2, CarriesHello
  <1>7. UNCHANGED <<shown, sent, handle, events, outbound>>
    BY DEF SendHello, ui
  <1>8. r <= w
    BY DEF Pipeline
  <1>. QED
    BY <1>2, <1>3, <1>6, <1>7, <1>8 DEF Pipeline

\* RecvHello takes the hello off the wire, and no message.
LEMMA HelloReceived ==
    ASSUME Handshake, NEW f \in Ends, NEW o \in Ends, f = Other(o), o = Other(f),
           RecvHello(o),
           NEW r \in 0..MaxSend, NEW w \in 0..MaxSend, Pipeline(f, o, r, w)
    PROVE  Pipeline(f, o, r, w)'
  <1>. TypeOK /\ WireFrames(f) /\ r \in Nat /\ w \in Nat
    BY MaxSendAssumption DEF Handshake, Ownership
  <1>1. wire[f] # <<>> /\ wire'[f] = SubSeq(wire[f], 2, Len(wire[f]))
    BY DEF RecvHello, HasFrame, Consume, Unread, TypeOK
  <1>2. wire[f] \in Seq(Frame) /\ 1 \in DOMAIN wire[f]
    BY <1>1 DEF TypeOK
  <1>3. MayRead(o) /\ thread[o] \in Waiting
    BY DEF RecvHello, MayRead, Waiting
  <1>4. /\ wire[f][1].kind = "hello"
        /\ \A i \in DOMAIN wire[f] : i # 1 => wire[f][i].kind = "chat"
    BY <1>2, <1>3 DEF WireFrames, CreateHello
  <1>5. UNCHANGED <<shown, sent, handle, outbound>> /\ (Intact(f)' <=> Intact(f))
    BY TwoEnds DEF RecvHello, Intact, ui, TypeOK
  <1>6. handle[o] = "held" => Queued(events'[o], Len(shown[o]), r)
    <2>1. Event("Connected", 0) \in EventType /\ Event("Connected", 0).kind = "Connected"
      BY EventTypes DEF Event
    <2>2. handle[o] = "held" => events'[o] = Append(events[o], Event("Connected", 0))
      BY DEF RecvHello, Emit, TypeOK
    <2>3. /\ handle[o] = "held" => Queued(events[o], Len(shown[o]), r)
          /\ Len(shown[o]) \in Nat /\ events[o] \in Seq(EventType)
      BY DEF Pipeline, TypeOK
    <2>. QED
      BY <2>1, <2>2, <2>3, QueuedAppendOther
  <1>7. \E m \in r..w : Carries(wire'[f], r, m) /\ (Intact(f) => m = w)
    <2>1. PICK m \in r..w : Carries(wire[f], r, m) /\ (Intact(f) => m = w)
      BY <1>3 DEF Pipeline
    <2>2. m \in Nat
      BY <2>1
    <2>. QED
      BY <1>1, <1>2, <1>4, <2>1, <2>2, CarriesAfterHello
  <1>. QED
    BY <1>5, <1>6, <1>7 DEF Pipeline

\* SendChat writes message w + 1.
LEMMA ChatSent ==
    ASSUME Handshake, NEW f \in Ends, NEW o \in Ends, o = Other(f), SendChat(f),
           NEW r \in 0..MaxSend, NEW w \in 0..MaxSend, Pipeline(f, o, r, w)
    PROVE  w + 1 \in 0..MaxSend /\ Pipeline(f, o, r, w + 1)'
  <1>. TypeOK /\ r \in Nat /\ w \in Nat
    BY MaxSendAssumption DEF Handshake, Ownership
  <1>1. Intact(f) /\ outbound[f] # <<>>
    BY DEF SendChat, Intact, Running
  <1>2. /\ outbound[f] \in Seq(1..MaxSend) /\ sent[f] \in Nat /\ sent[f] <= MaxSend
        /\ outbound'[f] = Tail(outbound[f])
    BY MaxSendAssumption DEF SendChat, TypeOK
  <1>3. /\ Head(outbound[f]) = w + 1 /\ w + 1 <= sent[f]
        /\ Unsent(outbound'[f], w + 1, sent[f])
    <2>1. Unsent(outbound[f], w, sent[f])
      BY <1>1 DEF Pipeline
    <2>. QED
      BY <1>1, <1>2, <2>1, UnsentTail
  <1>4. UNCHANGED <<shown, sent, handle, events, thread, receiver>>
    BY DEF SendChat, work, ui
  <1>5. MayRead(o) => ~ Closed(o)
    BY DEF MayRead, Handshake, Ownership, Owns, Closed
  <1>6. ASSUME MayRead(o)
        PROVE  Carries(wire'[f], r, w + 1)
    <2>1. wire'[f] = Append(wire[f], Encrypt(key[f], w + 1))
      BY <1>3, <1>5, <1>6 DEF SendChat, Write, TypeOK
    <2>2. /\ Encrypt(key[f], w + 1) \in Frame
          /\ Encrypt(key[f], w + 1).kind = "chat" /\ Encrypt(key[f], w + 1).body = w + 1
      <3>1. key[f] \in SUBSET Ends /\ w + 1 \in 1..MaxSend
        BY <1>2, <1>3, MaxSendAssumption DEF TypeOK
      <3>. QED
        BY <3>1, FrameTypes DEF Encrypt
    <2>3. Carries(wire[f], r, w) /\ wire[f] \in Seq(Frame)
      BY <1>1, <1>6 DEF Pipeline, TypeOK
    <2>. QED
      BY <2>1, <2>2, <2>3, CarriesChat
  <1>7. (MayRead(o)' <=> MayRead(o)) /\ (Intact(f)' <=> Intact(f))
    BY <1>4 DEF MayRead, Intact
  <1>8. w + 1 \in 0..MaxSend /\ r <= w + 1
    BY <1>2, <1>3, MaxSendAssumption DEF Pipeline
  <1>9. Len(shown[o]) <= r /\ w + 1 \in r..(w + 1)
    BY <1>8 DEF Pipeline
  <1>. QED
    BY <1>3, <1>4, <1>6, <1>7, <1>8, <1>9 DEF Pipeline

\* Receive takes message r + 1 off the wire and queues it.
LEMMA ChatReceived ==
    ASSUME Handshake, NEW f \in Ends, NEW o \in Ends, f = Other(o), o = Other(f),
           Receive(o),
           NEW r \in 0..MaxSend, NEW w \in 0..MaxSend, Pipeline(f, o, r, w)
    PROVE  r + 1 \in 0..MaxSend /\ Pipeline(f, o, r + 1, w)'
  <1>. TypeOK /\ WireFrames(f) /\ r \in Nat /\ w \in Nat
    BY MaxSendAssumption DEF Handshake, Ownership
  <1>1. wire[f] # <<>> /\ wire'[f] = SubSeq(wire[f], 2, Len(wire[f]))
    BY DEF Receive, HasFrame, Consume, Unread, TypeOK
  <1>2. wire[f] \in Seq(Frame) /\ NextFrame(o) = wire[f][1]
    BY <1>1 DEF TypeOK, NextFrame
  <1>3. MayRead(o) /\ thread[o] \notin Waiting
    BY DEF Receive, MayRead, Handshake, Ownership, Owns
  <1>4. \A i \in DOMAIN wire[f] : wire[f][i].kind = "chat"
    BY <1>3 DEF WireFrames
  <1>5. PICK m \in r..w : Carries(wire[f], r, m) /\ (Intact(f) => m = w)
    BY <1>3 DEF Pipeline
  <1>6. m \in Nat /\ m <= w
    BY <1>5
  <1>7. /\ NextFrame(o).body = r + 1 /\ r + 1 <= m
        /\ Carries(wire'[f], r + 1, m)
    BY <1>1, <1>2, <1>4, <1>5, <1>6, CarriesAfterChat
  <1>8. UNCHANGED <<shown, sent, handle, outbound, thread, receiver>>
    BY DEF Receive, work, ui
  <1>9. r + 1 \in 0..MaxSend /\ r + 1 \in 1..MaxSend /\ m \in (r + 1)..w
    BY <1>6, <1>7, MaxSendAssumption
  <1>10. handle[o] = "held" => Queued(events'[o], Len(shown[o]), r + 1)
    <2>. SUFFICES ASSUME handle[o] = "held"
                  PROVE  Queued(events'[o], Len(shown[o]), r + 1)
      OBVIOUS
    <2>. DEFINE v == Event("Incoming", r + 1)
    <2>1. v \in EventType /\ v.kind = "Incoming" /\ v.body = r + 1
      BY <1>9, EventTypes DEF Event
    <2>2. events'[o] = Append(events[o], v)
      BY <1>7 DEF Receive, Emit, TypeOK
    <2>3. /\ Queued(events[o], Len(shown[o]), r) /\ Len(shown[o]) <= r
          /\ Len(shown[o]) \in Nat /\ events[o] \in Seq(EventType)
      BY DEF Pipeline, TypeOK
    <2>. HIDE DEF v
    <2>. QED
      BY <2>1, <2>2, <2>3, QueuedAppendNext
  <1>11. Len(shown[o]) <= r + 1 /\ r + 1 <= w
    <2>1. Len(shown[o]) <= r /\ Len(shown[o]) \in Nat
      BY DEF Pipeline, TypeOK
    <2>. QED
      BY <1>6, <1>7, <2>1
  <1>. QED
    BY <1>5, <1>7, <1>8, <1>9, <1>10, <1>11 DEF Pipeline, Intact

\* Drain shows message Len(shown) + 1, or none.
LEMMA EventDrained ==
    ASSUME Handshake, NEW f \in Ends, NEW o \in Ends, f = Other(o), Drain(o),
           NEW r \in 0..MaxSend, NEW w \in 0..MaxSend, Pipeline(f, o, r, w)
    PROVE  Pipeline(f, o, r, w)'
  <1>. TypeOK /\ r \in Nat /\ w \in Nat
    BY MaxSendAssumption DEF Handshake, Ownership
  <1>1. /\ handle[o] = "held" /\ events[o] # <<>> /\ events[o] \in Seq(EventType)
        /\ events'[o] = Tail(events[o])
        /\ shown[o] \in Seq(1..MaxSend) /\ Len(shown[o]) \in Nat
    BY DEF Drain, TypeOK
  <1>2. UNCHANGED <<sent, handle, outbound, thread, receiver, wire>>
    BY DEF Drain, tcp, work
  <1>3. /\ Len(shown[o]) <= r /\ \A i \in DOMAIN shown[o] : shown[o][i] = i
        /\ Queued(events[o], Len(shown[o]), r)
    BY <1>1 DEF Pipeline
  <1>4. /\ Len(shown'[o]) <= r /\ \A i \in DOMAIN shown'[o] : shown'[o][i] = i
        /\ Queued(events'[o], Len(shown'[o]), r)
    <2>1. CASE Head(events[o]).kind = "Incoming"
      <3>1. shown'[o] = Append(shown[o], Head(events[o]).body)
        BY <2>1 DEF Drain, TypeOK
      <3>2. /\ Head(events[o]).body = Len(shown[o]) + 1 /\ Len(shown[o]) + 1 <= r
            /\ Queued(events'[o], Len(shown[o]) + 1, r)
        BY <1>1, <1>3, <2>1, QueuedTailNext
      <3>3. /\ Len(shown'[o]) = Len(shown[o]) + 1
            /\ DOMAIN shown[o] = 1..Len(shown[o])
            /\ DOMAIN shown'[o] = 1..(Len(shown[o]) + 1)
            /\ \A i \in 1..Len(shown[o]) : shown'[o][i] = shown[o][i]
            /\ shown'[o][Len(shown[o]) + 1] = Len(shown[o]) + 1
        BY <1>1, <3>1, <3>2, AppendProperties
      <3>. QED
        BY <1>1, <1>3, <3>2, <3>3
    <2>2. CASE Head(events[o]).kind # "Incoming"
      <3>1. shown'[o] = shown[o]
        BY <2>2 DEF Drain
      <3>2. Queued(events'[o], Len(shown[o]), r)
        BY <1>1, <1>3, <2>2, QueuedTailOther
      <3>. QED
        BY <1>3, <3>1, <3>2
    <2>. QED
      BY <2>1, <2>2
  <1>. QED
    BY <1>1, <1>2, <1>4 DEF Pipeline, MayRead, Intact

\* SendMessage queues message sent + 1.
LEMMA MessageQueued ==
    ASSUME Handshake, NEW f \in Ends, NEW o \in Ends, SendMessage(f),
           NEW r \in 0..MaxSend, NEW w \in 0..MaxSend, Pipeline(f, o, r, w)
    PROVE  Pipeline(f, o, r, w)'
  <1>. TypeOK /\ r \in Nat /\ w \in Nat
    BY MaxSendAssumption DEF Handshake, Ownership
  <1>1. UNCHANGED <<shown, handle, events, thread, receiver, wire>>
    BY DEF SendMessage, tcp, work
  <1>2. /\ outbound[f] \in Seq(1..MaxSend) /\ sent[f] \in Nat
        /\ sent'[f] = sent[f] + 1
        /\ outbound'[f] = Append(outbound[f], sent[f] + 1)
    BY MaxSendAssumption DEF SendMessage, TypeOK
  <1>3. Intact(f) => Unsent(outbound'[f], w, sent'[f])
    BY <1>2, UnsentAppend DEF Pipeline
  <1>4. w <= sent'[f]
    BY <1>2 DEF Pipeline
  <1>. QED
    BY <1>1, <1>3, <1>4 DEF Pipeline, MayRead, Intact

----------------------------------------------------------------------------
(* Every direction stays numbered.                                         *)

NumberedInv == Handshake /\ \A f \in Ends : Numbered(f)

LEMMA NumberedKept ==
    ASSUME TypeOK, NEW f \in Ends, Numbered(f),
           \A r, w \in 0..MaxSend :
              Pipeline(f, Other(f), r, w) => Pipeline(f, Other(f), r, w)'
    PROVE  Numbered(f)'
  BY DEF Numbered

\* A step of e that takes nothing off a queue and puts no message on one
\* keeps both directions.
LEMMA QuietStep ==
    ASSUME Handshake, \A f \in Ends : Numbered(f), NEW e \in Ends,
           UNCHANGED <<shown, sent>>,
           handle'[Other(e)] = handle[Other(e)], events'[Other(e)] = events[Other(e)],
           thread'[Other(e)] = thread[Other(e)], receiver'[Other(e)] = receiver[Other(e)],
           outbound'[Other(e)] = outbound[Other(e)],
           wire'[e] = wire[e],
           handle'[e] = "held" =>
              /\ handle[e] = "held"
              /\ \/ events'[e] = events[e]
                 \/ \E v \in EventType :
                       v.kind # "Incoming" /\ events'[e] = Append(events[e], v),
           MayRead(e)' =>
              /\ MayRead(e)
              /\ \/ wire'[Other(e)] = wire[Other(e)]
                 \/ /\ ~ Intact(Other(e))
                    /\ \E n \in 0..Len(wire[Other(e)]) :
                          wire'[Other(e)] = SubSeq(wire[Other(e)], 1, n),
           Intact(e)' => Intact(e) /\ outbound'[e] = outbound[e]
    PROVE  \A f \in Ends : Numbered(f)'
  <1>. TypeOK /\ Other(e) \in Ends /\ Other(Other(e)) = e
    BY TwoEnds DEF Handshake, Ownership
  <1>1. Numbered(e)'
    <2>1. MayRead(Other(e))' <=> MayRead(Other(e))
      BY DEF MayRead
    <2>2. \A r, w \in 0..MaxSend :
            Pipeline(e, Other(e), r, w) => Pipeline(e, Other(e), r, w)'
      BY <2>1, PipelineKept
    <2>. QED
      BY <2>2, NumberedKept
  <1>2. Numbered(Other(e))'
    <2>1. Intact(Other(e))' <=> Intact(Other(e))
      BY DEF Intact
    <2>2. \A r, w \in 0..MaxSend :
            Pipeline(Other(e), e, r, w) => Pipeline(Other(e), e, r, w)'
      BY <2>1, PipelineKept
    <2>. QED
      BY <2>2, NumberedKept
  <1>. QED
    BY <1>1, <1>2, TwoEnds

\* What DropWith leaves of the wire for whoever may still read it.
LEMMA DropLeaves ==
    ASSUME Handshake, NEW e \in Ends, NEW hs, NEW unread, DropWith(e, hs, unread)
    PROVE  /\ wire'[e] = wire[e]
           /\ open[e] \ hs # {} => wire'[Other(e)] = unread
  BY TwoEnds DEF DropWith, Handshake, Ownership, TypeOK

\* What Emit does to the queue of e, if the UI still holds it.
LEMMA EmitQueues ==
    ASSUME TypeOK, NEW e \in Ends, NEW k \in {"Disconnected", "Error"}, Emit(e, Event(k, 0))
    PROVE  /\ events'[Other(e)] = events[Other(e)]
           /\ handle[e] = "held" => \E v \in EventType :
                 v.kind # "Incoming" /\ events'[e] = Append(events[e], v)
  <1>1. Event(k, 0) \in EventType /\ Event(k, 0).kind # "Incoming"
    BY EventTypes DEF Event
  <1>2. events'[Other(e)] = events[Other(e)]
    BY TwoEnds DEF Emit, TypeOK
  <1>3. handle[e] = "held" => events'[e] = Append(events[e], Event(k, 0))
    BY DEF Emit, TypeOK
  <1>. QED
    BY <1>1, <1>2, <1>3

LEMMA NumberedStep ==
    ASSUME Handshake, \A f \in Ends : Numbered(f), [Next]_vars
    PROVE  \A f \in Ends : Numbered(f)'
  <1>. DEFINE Goal == \A f \in Ends : Numbered(f)'
  <1>. TypeOK /\ \A e \in Ends : Owns(e) /\ ResetAfterClose(e)
    BY DEF Handshake, Ownership
  <1>. 0..MaxSend \subseteq Nat
    BY MaxSendAssumption
  <1>1. CASE UNCHANGED vars
    BY <1>1 DEF Numbered, Pipeline, MayRead, Intact, vars, tcp, work, ui
  <1>2. ASSUME NEW e \in Ends, SendHello(e)
        PROVE  Goal
    <2>1. Numbered(e)'
      BY <1>2, HelloSent, NumberedKept, TwoEnds
    <2>2. /\ UNCHANGED <<shown, sent, handle, events, receiver, outbound>>
          /\ wire'[Other(e)] = wire[Other(e)] /\ thread'[Other(e)] = thread[Other(e)]
          /\ MayRead(e)' => MayRead(e)
          /\ Intact(Other(e))' <=> Intact(Other(e))
      BY <1>2, TwoEnds DEF SendHello, Write, MayRead, Intact, TypeOK, ui, Waiting
    <2>3. \A r, w \in 0..MaxSend :
            Pipeline(Other(e), e, r, w) => Pipeline(Other(e), e, r, w)'
      BY <2>2, PipelineKept, TwoEnds
    <2>. QED
      BY <2>1, <2>3, NumberedKept, TwoEnds
  <1>3. ASSUME NEW e \in Ends, RecvHello(e)
        PROVE  Goal
    <2>1. Numbered(Other(e))'
      BY <1>3, HelloReceived, NumberedKept, TwoEnds
    <2>2. /\ UNCHANGED <<shown, sent, handle, outbound>>
          /\ events'[Other(e)] = events[Other(e)] /\ wire'[e] = wire[e]
          /\ Intact(e)
          /\ MayRead(Other(e))' => MayRead(Other(e))
      BY <1>3, TwoEnds
      DEF RecvHello, Emit, Consume, MayRead, Intact, TypeOK, ui, Running, Waiting
    <2>3. \A r, w \in 0..MaxSend :
            Pipeline(e, Other(e), r, w) => Pipeline(e, Other(e), r, w)'
      BY <2>2, PipelineKept, TwoEnds
    <2>. QED
      BY <2>1, <2>3, NumberedKept, TwoEnds
  <1>4. ASSUME NEW e \in Ends, SendChat(e)
        PROVE  Goal
    <2>1. Numbered(e)'
      BY <1>4, ChatSent, TwoEnds DEF Numbered
    <2>2. /\ UNCHANGED <<shown, sent, handle, events, thread, receiver>>
          /\ wire'[Other(e)] = wire[Other(e)] /\ outbound'[Other(e)] = outbound[Other(e)]
      BY <1>4, TwoEnds DEF SendChat, Write, TypeOK, work, ui
    <2>3. \A r, w \in 0..MaxSend :
            Pipeline(Other(e), e, r, w) => Pipeline(Other(e), e, r, w)'
      BY <2>2, PipelineKept, TwoEnds DEF MayRead, Intact
    <2>. QED
      BY <2>1, <2>3, NumberedKept, TwoEnds
  <1>5. ASSUME NEW e \in Ends, NEW hs \in {Handles, {"writer"}}, NEW unread,
               Fail(e, hs, unread), thread[e] \in Running,
               hs = {"writer"} => unread = wire[Other(e)],
               hs = Handles => thread[e] \in Waiting
        PROVE  Goal
    <2>1. /\ UNCHANGED <<shown, sent, handle, receiver>>
          /\ thread'[e] = "failed" /\ thread'[Other(e)] = thread[Other(e)]
          /\ outbound'[Other(e)] = outbound[Other(e)]
      BY <1>5, TwoEnds DEF Fail, TypeOK, ui
    <2>2. /\ events'[Other(e)] = events[Other(e)]
          /\ handle[e] = "held" => \E v \in EventType :
                v.kind # "Incoming" /\ events'[e] = Append(events[e], v)
      BY <1>5, EmitQueues DEF Fail
    <2>3. wire'[e] = wire[e] /\ (open[e] \ hs # {} => wire'[Other(e)] = unread)
      BY <1>5, DropLeaves DEF Fail
    <2>4. ASSUME MayRead(e)'
          PROVE  MayRead(e) /\ wire'[Other(e)] = wire[Other(e)]
      <3>1. receiver[e] = "reading"
        BY <2>1, <2>4 DEF MayRead, Waiting
      <3>2. hs = {"writer"} /\ "reader" \in open[e]
        BY <1>5, <3>1 DEF Owns
      <3>. QED
        BY <1>5, <2>3, <3>1, <3>2 DEF MayRead
    <2>5. ~ Intact(e)'
      BY <2>1 DEF Intact, Running, Waiting
    <2>. QED
      BY <2>1, <2>2, <2>3, <2>4, <2>5, QuietStep
  <1>6. ASSUME NEW e \in Ends, RejectHello(e) \/ HelloNeverCame(e) \/ SendChatFails(e)
        PROVE  Goal
    <2>1. Handles # {"writer"}
      BY DEF Handles
    <2>2. CASE RejectHello(e) \/ HelloNeverCame(e)
      <3>1. Fail(e, Handles, Unread(e)) /\ thread[e] = "await"
        BY <2>2 DEF RejectHello, HelloNeverCame
      <3>. QED
        BY <1>5, <2>1, <3>1 DEF Running, Waiting
    <2>3. CASE SendChatFails(e)
      <3>1. Fail(e, {"writer"}, wire[Other(e)]) /\ thread[e] = "chat"
        BY <2>3 DEF SendChatFails
      <3>. QED
        BY <1>5, <2>1, <3>1 DEF Running
    <2>. QED
      BY <1>6, <2>2, <2>3
  <1>7. ASSUME NEW e \in Ends, SendLoopEnds(e)
        PROVE  Goal
    <2>1. /\ UNCHANGED <<shown, sent, handle, events, receiver, outbound>>
          /\ thread'[e] = "ended" /\ thread'[Other(e)] = thread[Other(e)]
      BY <1>7, TwoEnds DEF SendLoopEnds, TypeOK, ui
    <2>2. /\ wire'[e] = wire[e]
          /\ open[e] \ {"writer"} # {} => wire'[Other(e)] = wire[Other(e)]
      BY <1>7, DropLeaves DEF SendLoopEnds, Drop
    <2>3. MayRead(e)' => MayRead(e) /\ wire'[Other(e)] = wire[Other(e)]
      BY <2>1, <2>2 DEF MayRead, Waiting, Owns
    <2>4. Intact(e)
      BY <1>7 DEF SendLoopEnds, Intact, Running
    <2>. QED
      BY <2>1, <2>2, <2>3, <2>4, QuietStep
  <1>8. ASSUME NEW e \in Ends, Receive(e)
        PROVE  Goal
    <2>1. Numbered(Other(e))'
      BY <1>8, ChatReceived, TwoEnds DEF Numbered
    <2>2. /\ UNCHANGED <<shown, sent, handle, outbound, thread, receiver>>
          /\ events'[Other(e)] = events[Other(e)] /\ wire'[e] = wire[e]
      BY <1>8, TwoEnds DEF Receive, Emit, Consume, TypeOK, work, ui
    <2>3. \A r, w \in 0..MaxSend :
            Pipeline(e, Other(e), r, w) => Pipeline(e, Other(e), r, w)'
      BY <2>2, PipelineKept, TwoEnds DEF MayRead, Intact
    <2>. QED
      BY <2>1, <2>3, NumberedKept, TwoEnds
  <1>9. ASSUME NEW e \in Ends, ReceiveEnds(e)
        PROVE  Goal
    <2>1. /\ UNCHANGED <<shown, sent, handle, thread, outbound>>
          /\ receiver'[e] = "ended" /\ receiver'[Other(e)] = receiver[Other(e)]
      BY <1>9, TwoEnds DEF ReceiveEnds, TypeOK, ui
    <2>2. wire'[e] = wire[e]
      BY <1>9, DropLeaves DEF ReceiveEnds
    <2>3. /\ events'[Other(e)] = events[Other(e)]
          /\ handle[e] = "held" => \E v \in EventType :
                v.kind # "Incoming" /\ events'[e] = Append(events[e], v)
      BY <1>9, EmitQueues DEF ReceiveEnds
    <2>4. ~ MayRead(e)'
      BY <1>9, <2>1 DEF ReceiveEnds, MayRead, Owns
    <2>5. Intact(e)' => Intact(e)
      BY <2>1 DEF Intact
    <2>. QED
      BY <2>1, <2>2, <2>3, <2>4, <2>5, QuietStep
  <1>10. ASSUME NEW e \in Ends, SendMessage(e)
         PROVE  Goal
    <2>1. Numbered(e)'
      BY <1>10, MessageQueued, NumberedKept, TwoEnds
    <2>2. /\ UNCHANGED <<shown, handle, events, thread, receiver, wire>>
          /\ sent'[Other(e)] = sent[Other(e)] /\ outbound'[Other(e)] = outbound[Other(e)]
      BY <1>10, TwoEnds DEF SendMessage, TypeOK, tcp, work
    <2>3. \A r, w \in 0..MaxSend :
            Pipeline(Other(e), e, r, w) => Pipeline(Other(e), e, r, w)'
      BY <2>2, PipelineKept, TwoEnds DEF MayRead, Intact
    <2>. QED
      BY <2>1, <2>3, NumberedKept, TwoEnds
  <1>11. ASSUME NEW e \in Ends, Drain(e)
         PROVE  Goal
    <2>1. Numbered(Other(e))'
      BY <1>11, EventDrained, NumberedKept, TwoEnds
    <2>2. /\ UNCHANGED <<sent, handle, outbound, thread, receiver, wire>>
          /\ events'[Other(e)] = events[Other(e)] /\ shown'[Other(e)] = shown[Other(e)]
      BY <1>11, TwoEnds DEF Drain, TypeOK, tcp, work
    <2>3. \A r, w \in 0..MaxSend :
            Pipeline(e, Other(e), r, w) => Pipeline(e, Other(e), r, w)'
      BY <2>2, PipelineKept, TwoEnds DEF MayRead, Intact
    <2>. QED
      BY <2>1, <2>3, NumberedKept, TwoEnds
  <1>12. ASSUME NEW e \in Ends, ReplaceChat(e)
         PROVE  Goal
    <2>1. /\ UNCHANGED <<shown, sent, outbound, thread, receiver, wire>>
          /\ handle'[e] = "dropped" /\ handle'[Other(e)] = handle[Other(e)]
          /\ events'[Other(e)] = events[Other(e)]
      BY <1>12, TwoEnds DEF ReplaceChat, TypeOK, tcp, work
    <2>2. (MayRead(e)' <=> MayRead(e)) /\ (Intact(e)' <=> Intact(e))
      BY <2>1 DEF MayRead, Intact
    <2>. QED
      BY <2>1, <2>2, QuietStep
  <1>13. ASSUME NEW e \in Ends, Exit(e)
         PROVE  Goal
    <2>1. /\ UNCHANGED <<shown, sent>>
          /\ handle'[e] = "exited" /\ handle'[Other(e)] = handle[Other(e)]
          /\ thread'[e] = "ended" /\ thread'[Other(e)] = thread[Other(e)]
          /\ receiver'[e] = "ended" /\ receiver'[Other(e)] = receiver[Other(e)]
          /\ outbound'[Other(e)] = outbound[Other(e)]
          /\ events'[Other(e)] = events[Other(e)]
      BY <1>13, TwoEnds DEF Exit, TypeOK
    <2>2. wire'[e] = wire[e]
      BY <1>13, DropLeaves DEF Exit, Drop
    <2>3. ~ MayRead(e)' /\ ~ Intact(e)'
      BY <2>1 DEF MayRead, Intact, Running, Waiting
    <2>. QED
      BY <2>1, <2>2, <2>3, QuietStep
  <1>14. ASSUME NEW e \in Ends, Kernel(e)
         PROVE  Goal
    <2>1. UNCHANGED <<shown, sent, handle, events, thread, receiver, outbound>>
      BY <1>14 DEF Kernel, work, ui
    <2>2. /\ wire'[e] = wire[e]
          /\ \E n \in 0..Len(wire[Other(e)]) :
                wire'[Other(e)] = SubSeq(wire[Other(e)], 1, n)
      BY <1>14, TwoEnds DEF Kernel, RstArrives, TypeOK
    <2>3. ~ Intact(Other(e))
      BY <1>14, TwoEnds DEF Kernel, RstArrives, ResetAfterClose, Closed, Owns, Intact
    <2>4. (MayRead(e)' <=> MayRead(e)) /\ (Intact(e)' <=> Intact(e))
      BY <2>1 DEF MayRead, Intact
    <2>. QED
      BY <2>1, <2>2, <2>3, <2>4, QuietStep
  <1>. QED
    BY <1>1, <1>2, <1>3, <1>4, <1>6, <1>7, <1>8, <1>9, <1>10, <1>11, <1>12, <1>13, <1>14
    DEF Next, SessionThread, ReceiveThread, User

LEMMA NumberedInit == Init => \A f \in Ends : Numbered(f)
  <1>. SUFFICES ASSUME Init, NEW f \in Ends
                PROVE  Pipeline(f, Other(f), 0, 0)
    BY MaxSendAssumption DEF Numbered
  <1>1. /\ shown[Other(f)] = <<>> /\ events[Other(f)] = <<>> /\ wire[f] = <<>>
        /\ outbound[f] = <<>> /\ sent[f] = 0
    BY TwoEnds DEF Init, TcpInit
  <1>2. Queued(<<>>, 0, 0) /\ Unsent(<<>>, 0, 0) /\ Carries(<<>>, 0, 0)
    BY DEF Queued, Unsent, Carries, Hellos
  <1>. QED
    BY <1>1, <1>2 DEF Pipeline

\* Whatever the threads and the network do, a user is shown the messages of
\* the other one in the order they were sent, none twice and none skipped.
THEOREM Delivery == Spec => []ShowsWhatWasSent
  <1>1. NumberedInv /\ [Next]_vars => NumberedInv'
    BY HandshakeStep, NumberedStep DEF NumberedInv
  <1>2. Init => NumberedInv
    BY HandshakeInit, NumberedInit DEF NumberedInv
  <1>3. NumberedInv => ShowsWhatWasSent
    <2>. SUFFICES ASSUME NumberedInv, NEW e \in Ends
                  PROVE  /\ Len(shown[e]) <= sent[Other(e)]
                         /\ \A i \in DOMAIN shown[e] : shown[e][i] = i
      BY DEF ShowsWhatWasSent
    <2>1. PICK r, w \in 0..MaxSend : Pipeline(Other(e), e, r, w)
      BY TwoEnds DEF NumberedInv, Numbered
    <2>2. Len(shown[e]) \in Nat /\ sent[Other(e)] \in Nat /\ r \in Nat /\ w \in Nat
      BY TwoEnds, MaxSendAssumption DEF NumberedInv, Handshake, Ownership, TypeOK
    <2>. QED
      BY <2>1, <2>2 DEF Pipeline
  <1>. QED
    BY <1>1, <1>2, <1>3, PTL DEF Spec
============================================================================
