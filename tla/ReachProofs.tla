----------------------------- MODULE ReachProofs -----------------------------
(***************************************************************************)
(* Proofs about Reach, and Socks within it, for every set of settings and  *)
(* invites, every time limit and pause, and pieces of every size: where an *)
(* invite leads, what of the proxy's stream is read, and that a join is    *)
(* bounded and waits for nothing but time and the proxy.                   *)
(***************************************************************************)
EXTENDS Reach, TLAPS

----------------------------------------------------------------------------
(* The stream of the proxy, and the attempts.                              *)

\* How much has been read where, and what is asked for next.
Position ==
    /\ dial \notin Reading \cup {"open"} => taken = 0 /\ arrived = 0
    /\ dial = "method"  => taken = 0 /\ want = 2
    /\ dial = "header"  => taken = 2 /\ want = 4
    /\ dial = "length"  => taken = 6 /\ want = 1 /\ reply.kind = 3
    /\ dial = "address" => taken + want = 6 + BoundAddress(reply)
    /\ dial = "open"    => taken = 6 + BoundAddress(reply)

\* The pauses of the attempts so far have passed, but for the one under way.
Paused ==
    /\ dial = "idle" => attempt = 0
    /\ dial = "retry" => attempt * Pause <= clock
    /\ dial \in Reading => attempt * Pause <= clock /\ attempt * Pause < Timeout
                           /\ clock <= Timeout
    /\ dial = "sleep" => attempt * Pause <= wake
    /\ attempt * Pause < Timeout + Pause

SocksInv == SocksTypeOK /\ Position /\ Paused

LEMMA Times == \A n \in Nat :
    /\ n * Pause \in Nat
    /\ (n + 1) * Pause = n * Pause + Pause
  BY SocksAssumption

LEMMA ReplyTypes == \A r \in Replies :
    /\ r.kind \in {1, 3, 4, 9} /\ r.name \in Nat
    /\ BoundAddress(r) \in Nat
    /\ r.kind = 1 => BoundAddress(r) = 6
    /\ r.kind = 3 => BoundAddress(r) = 3 + r.name
    /\ r.kind = 4 => BoundAddress(r) = 18
  <1>. SUFFICES ASSUME NEW r \in Replies
                PROVE  /\ r.kind \in {1, 3, 4, 9} /\ r.name \in Nat
                       /\ BoundAddress(r) \in Nat
                       /\ r.kind = 1 => BoundAddress(r) = 6
                       /\ r.kind = 3 => BoundAddress(r) = 3 + r.name
                       /\ r.kind = 4 => BoundAddress(r) = 18
    OBVIOUS
  <1>1. r.kind \in {1, 3, 4, 9} /\ r.name \in Nat
    <2>1. \/ r = NoReply \/ r = [NoReply EXCEPT !.method = 255]
          \/ r = [NoReply EXCEPT !.code = 5] \/ r = [NoReply EXCEPT !.kind = 4]
          \/ r = [NoReply EXCEPT !.kind = 9]
          \/ \E n \in {0, 7} : r = [NoReply EXCEPT !.kind = 3, !.name = n]
      BY DEF Replies
    <2>2. ASSUME NEW n \in {0, 7}, r = [NoReply EXCEPT !.kind = 3, !.name = n]
          PROVE  r.kind \in {1, 3, 4, 9} /\ r.name \in Nat
      <3>1. r = [method |-> 0, code |-> 0, kind |-> 3, name |-> n]
        BY <2>2 DEF NoReply
      <3>. QED
        BY <3>1
    <2>3. CASE r = NoReply
      BY <2>3 DEF NoReply
    <2>4. CASE r = [NoReply EXCEPT !.method = 255]
      BY <2>4 DEF NoReply
    <2>5. CASE r = [NoReply EXCEPT !.code = 5]
      BY <2>5 DEF NoReply
    <2>6. CASE r = [NoReply EXCEPT !.kind = 4]
      BY <2>6 DEF NoReply
    <2>7. CASE r = [NoReply EXCEPT !.kind = 9]
      BY <2>7 DEF NoReply
    <2>. QED
      BY <2>1, <2>2, <2>3, <2>4, <2>5, <2>6, <2>7
  <1>. QED
    BY <1>1 DEF BoundAddress

LEMMA SocksInitInv == SocksInit => SocksInv
  <1>. SUFFICES ASSUME SocksInit PROVE SocksInv
    OBVIOUS
  <1>1. 0 * Pause = 0 /\ 0 < Timeout + Pause /\ 0 \in 0..(Timeout + Pause)
    BY SocksAssumption
  <1>2. NoReply \in Replies
    BY DEF Replies
  <1>3. SocksTypeOK
    <2>1. /\ dial = "idle" /\ attempt = 0 /\ clock = 0 /\ wake = 0 /\ reply = NoReply
          /\ arrived = 0 /\ taken = 0 /\ want = 0 /\ shut \in BOOLEAN
      BY DEF SocksInit
    <2>2. 0 \in 0..0
      OBVIOUS
    <2>. QED
      BY <1>1, <1>2, <2>1, <2>2 DEF SocksTypeOK
  <1>4. Position /\ Paused
    BY <1>1 DEF SocksInit, Position, Paused, Reading
  <1>. QED
    BY <1>3, <1>4 DEF SocksInv

LEMMA AttemptFailsInv ==
    ASSUME SocksInv, AttemptFails,
           (dial = "retry" /\ clock < Timeout) \/ dial \in Reading
    PROVE  SocksInv'
  <1>1. /\ attempt \in Nat /\ clock \in Nat /\ clock <= Timeout
        /\ attempt * Pause <= clock /\ attempt * Pause < Timeout
    BY SocksAssumption DEF SocksInv, SocksTypeOK, Paused
  <1>2. /\ attempt' = attempt + 1 /\ wake' = clock + Pause /\ clock' = clock
        /\ dial' = "sleep" /\ reply' = NoReply
        /\ arrived' = 0 /\ taken' = 0 /\ want' = 0 /\ shut' = FALSE
    BY DEF AttemptFails
  <1>3. attempt' * Pause = attempt * Pause + Pause
    BY <1>1, <1>2, Times
  <1>4. SocksTypeOK'
    <2>1. NoReply \in Replies
      BY DEF Replies
    <2>2. wake' \in 0..(Timeout + Pause) /\ clock' \in 0..(Timeout + Pause)
      BY <1>1, <1>2, SocksAssumption
    <2>3. 0 \in 0..0
      OBVIOUS
    <2>4. shut' \in BOOLEAN
      BY <1>2
    <2>. QED
      BY <1>1, <1>2, <2>1, <2>2, <2>3, <2>4 DEF SocksTypeOK
  <1>5. Paused'
    BY <1>1, <1>2, <1>3, Times, SocksAssumption DEF Paused, Reading
  <1>6. Position'
    BY <1>2 DEF Position, Reading
  <1>. QED
    BY <1>4, <1>5, <1>6 DEF SocksInv

\* A read_exact takes its bytes and the next one is begun.
LEMMA TakesInv ==
    ASSUME SocksInv, dial \in Reading, TakeBytes,
           NEW next \in {"header", "length", "address", "open"}, NEW n \in Nat, Read(next, n),
           next = "header"  => taken + want = 2 /\ n = 4,
           next = "length"  => taken + want = 6 /\ n = 1 /\ reply.kind = 3,
           next = "address" => taken + want + n = 6 + BoundAddress(reply),
           next = "open"    => taken + want = 6 + BoundAddress(reply)
    PROVE  SocksInv'
  <1>1. /\ dial' = next /\ want' = n /\ taken' = taken + want /\ taken + want <= arrived
        /\ UNCHANGED <<target, attempt, clock, wake, reply, arrived, shut>>
    BY DEF TakeBytes, Read, HasBytes
  <1>2. SocksTypeOK'
    BY <1>1 DEF SocksInv, SocksTypeOK, Reading
  <1>3. Position'
    BY <1>1 DEF Position, Reading, BoundAddress
  <1>4. Paused'
    BY <1>1 DEF SocksInv, Paused, Reading
  <1>. QED
    BY <1>2, <1>3, <1>4 DEF SocksInv

LEMMA DialingInv ==
    ASSUME SocksInv, Dialing
    PROVE  SocksInv'
  <1>1. CASE WakeUp
    <2>1. dial = "sleep" /\ clock >= wake /\ dial' = "retry"
          /\ UNCHANGED <<target, attempt, clock, wake, stream>>
      BY <1>1 DEF WakeUp
    <2>2. SocksTypeOK' /\ Position'
      BY <2>1 DEF SocksInv, SocksTypeOK, Position, stream, Reading
    <2>3. attempt * Pause \in Nat /\ clock \in Nat /\ wake \in Nat
      BY Times DEF SocksInv, SocksTypeOK
    <2>4. Paused'
      BY <2>1, <2>3 DEF SocksInv, Paused, Reading
    <2>. QED
      BY <2>2, <2>4 DEF SocksInv
  <1>2. CASE GiveUp
    BY <1>2 DEF GiveUp, SocksInv, SocksTypeOK, Position, Paused, stream, Reading
  <1>3. CASE Refused
    BY <1>3, AttemptFailsInv DEF Refused
  <1>4. CASE Connect
    <2>1. /\ dial = "retry" /\ clock < Timeout /\ dial' = "method" /\ want' = 2
          /\ reply' \in Replies
          /\ UNCHANGED <<target, attempt, clock, wake, arrived, taken, shut>>
      BY <1>4 DEF Connect, Read
    <2>2. SocksTypeOK' /\ Position'
      BY <2>1 DEF SocksInv, SocksTypeOK, Position, Reading
    <2>3. attempt * Pause \in Nat /\ clock \in Nat /\ Timeout \in Nat
      BY Times, SocksAssumption DEF SocksInv, SocksTypeOK
    <2>4. Paused'
      BY <2>1, <2>3 DEF SocksInv, Paused, Reading
    <2>. QED
      BY <2>2, <2>4 DEF SocksInv
  <1>5. CASE ReadMethod
    BY <1>5, TakesInv DEF ReadMethod, SocksInv, Position, Reading
  <1>6. CASE MethodFails \/ HeaderFails \/ ReadShort
    BY <1>6, AttemptFailsInv DEF MethodFails, HeaderFails, ReadShort, Reading
  <1>7. CASE ReadHeader
    <2>1. taken + want = 6 /\ dial \in Reading /\ TakeBytes /\ reply \in Replies
      BY <1>7 DEF ReadHeader, SocksInv, SocksTypeOK, Position, Reading
    <2>2. \/ reply.kind = 1 /\ Read("address", 6)
          \/ reply.kind = 3 /\ Read("length", 1)
          \/ reply.kind = 4 /\ Read("address", 18)
      BY <1>7 DEF ReadHeader, HeaderFits
    <2>. QED
      BY <2>1, <2>2, TakesInv, ReplyTypes
  <1>8. CASE ReadLength
    <2>1. taken + want = 7 /\ reply.kind = 3 /\ dial \in Reading /\ reply \in Replies
      BY <1>8 DEF ReadLength, SocksInv, SocksTypeOK, Position, Reading
    <2>2. reply.name + 2 \in Nat /\ taken + want + (reply.name + 2) = 6 + BoundAddress(reply)
      BY <2>1, ReplyTypes
    <2>. QED
      BY <1>8, <2>1, <2>2, TakesInv DEF ReadLength
  <1>9. CASE ReadAddress
    BY <1>9, TakesInv DEF ReadAddress, SocksInv, Position, Reading
  <1>. QED
    BY <1>1, <1>2, <1>3, <1>4, <1>5, <1>6, <1>7, <1>8, <1>9 DEF Dialing

LEMMA ProxyInv ==
    ASSUME SocksInv, Proxy
    PROVE  SocksInv'
  <1>1. CASE ProxyCloses
    BY <1>1 DEF ProxyCloses, SocksInv, SocksTypeOK, Position, Paused, Reading, BoundAddress
  <1>2. CASE ProxySends
    <2>1. PICK n \in Pieces : arrived' = Least(arrived + n, Sendable)
      BY <1>2 DEF ProxySends
    <2>2. /\ dial \in Reading /\ arrived < Sendable
          /\ UNCHANGED <<dial, target, attempt, clock, wake, reply, taken, want, shut>>
      BY <1>2 DEF ProxySends
    <2>3. Sendable \in Nat
      BY ReplyTypes, SocksAssumption DEF Sendable, SocksInv, SocksTypeOK
    <2>4. n \in Nat /\ arrived \in Nat /\ arrived' \in Nat /\ arrived <= arrived'
      BY <2>1, <2>2, <2>3, SocksAssumption DEF Least, SocksInv, SocksTypeOK
    <2>5. SocksTypeOK'
      BY <2>2, <2>4 DEF SocksInv, SocksTypeOK
    <2>6. Position' /\ Paused'
      BY <2>2 DEF SocksInv, Position, Paused, Reading, BoundAddress
    <2>. QED
      BY <2>5, <2>6 DEF SocksInv
  <1>. QED
    BY <1>1, <1>2 DEF Proxy

LEMMA TickInv ==
    ASSUME SocksInv, Tick
    PROVE  SocksInv'
  <1>1. /\ clock' = clock + 1 /\ clock < IF dial = "sleep" THEN wake ELSE Timeout
        /\ UNCHANGED <<dial, target, attempt, wake, stream>>
    BY DEF Tick
  <1>2. SocksTypeOK'
    BY <1>1, SocksAssumption DEF SocksInv, SocksTypeOK, stream
  <1>3. Position'
    BY <1>1 DEF SocksInv, Position, stream, BoundAddress
  <1>4. attempt * Pause \in Nat /\ clock \in Nat /\ Timeout \in Nat
    BY Times, SocksAssumption DEF SocksInv, SocksTypeOK
  <1>5. Paused'
    BY <1>1, <1>4 DEF SocksInv, Paused, Reading
  <1>. QED
    BY <1>2, <1>3, <1>5 DEF SocksInv

LEMMA DialOnionInv ==
    ASSUME SocksInv, NEW t, DialOnion(t)
    PROVE  SocksInv'
  <1>1. /\ dial = "idle" /\ dial' = "retry" /\ attempt = 0
        /\ UNCHANGED <<attempt, clock, wake, stream>>
    BY DEF DialOnion, SocksInv, Paused
  <1>2. 0 * Pause = 0 /\ clock \in Nat
    BY SocksAssumption DEF SocksInv, SocksTypeOK
  <1>3. SocksTypeOK' /\ Position'
    BY <1>1 DEF SocksInv, SocksTypeOK, Position, stream, Reading
  <1>4. Paused'
    BY <1>1, <1>2 DEF SocksInv, Paused, Reading
  <1>. QED
    BY <1>3, <1>4 DEF SocksInv

LEMMA SocksKept == SocksInv /\ UNCHANGED socks => SocksInv'
  BY DEF SocksInv, SocksTypeOK, Position, Paused, socks, stream, BoundAddress

----------------------------------------------------------------------------
(* The steps that leave the stream of the proxy alone.                     *)

Elsewhere ==
    \/ Host \/ StartJoin \/ CliJoin \/ PrepareTor \/ ReadInvite
    \/ RefuseAddress \/ ConnectDirectly

LEMMA ElsewhereKeepsSocks == Elsewhere => UNCHANGED socks
  <1>1. Host => UNCHANGED socks
    BY DEF Host, HostRefuses, BindListener, BindFails, PublishOnion, PublishFails,
           CreateInvite, InviteCommand
  <1>2. StartJoin \/ CliJoin \/ PrepareTor \/ ReadInvite => UNCHANGED socks
    BY DEF StartJoin, CliJoin, PrepareTor, ReadInvite
  <1>3. RefuseAddress \/ ConnectDirectly => UNCHANGED socks
    BY DEF RefuseAddress, ConnectDirectly
  <1>. QED
    BY <1>1, <1>2, <1>3 DEF Elsewhere

----------------------------------------------------------------------------
(* The host: types, and what a shown invite tells of it.                   *)

LEMMA HostFields ==
    ASSUME NEW h \in HostTypes
    PROVE  /\ h.app \in {"desktop", "cli", "command"}
           /\ h.app = "desktop" => /\ h.tor \in BOOLEAN /\ h.port \in Nat
                                   /\ h.bind \in Texts /\ h.public \in Texts
           /\ h.app = "cli" => h.bind \in Texts /\ h.public \in SUBSET Texts
           /\ h.app = "command" => h.addresses \in Seq(Texts)
  <1>1. CASE h \in [app : {"desktop"}, tor : BOOLEAN, bind : Texts, public : Texts, port : Nat]
    BY <1>1
  <1>2. CASE h \in [app : {"cli"}, bind : Texts, public : SUBSET Texts]
    BY <1>2
  <1>3. CASE h \in [app : {"command"}, addresses : Seq(Texts)]
    BY <1>3
  <1>. QED
    BY <1>1, <1>2, <1>3 DEF HostTypes

LEMMA TextFields ==
    /\ \A t \in Texts : t.host \in Hosts /\ t.port \in Nat
    /\ \A h \in Hosts, p \in Nat : Pair(h, p) \in Texts
    /\ \A p \in Nat : Text("onion", Name, p) \in Texts
    /\ Empty \in Texts
  <1>1. Name \in Onion
    BY ReachAssumption
  <1>. QED
    BY <1>1 DEF Texts, Pair, Text, Empty, Hosts

LEMMA NormalizeTypes == \A text \in Texts : NormalizeAddress(text) \subseteq Texts
  BY TextFields DEF NormalizeAddress

LEMMA PortTypes == MaxPort \in Nat /\ DefaultPort \in 0..MaxPort
  BY DEF MaxPort, DefaultPort

LEMMA ServicePortTypes == \A p \in Nat : ServicePort(p) \in 0..MaxPort
  BY PortTypes DEF ServicePort, Parses

HostTypeOK ==
    /\ by \in HostSettings
    /\ hosting \in {"start", "bound", "published", "listening", "over", "failed"}
    /\ local \in Texts
    /\ service \in SUBSET [virtual : 1..MaxPort, forward : {local}]
    /\ link \in SUBSET Links

\* Tor has the service that leads to the listener when the invite is made.
Published ==
    /\ hosting \in {"start", "bound"} => service = {}
    /\ by.app = "desktop" /\ by.tor /\ hosting \in {"published", "listening"} =>
          \E s \in service : s.virtual = ServicePort(by.port) /\ s.forward = local

\* An invite of a host that listens carries the address it advertises.
Shown == \A l \in link :
    /\ hosting \in {"listening", "over"}
    /\ by.app # "command" => /\ hosting = "listening"
                             /\ l = Encode(WithAddress(NewInvite, Advertised))

\* The listener of the recipe for a LAN.
ListensToLan ==
    LanRecipe /\ hosting \in {"bound", "published", "listening"} =>
        local = Pair(Wildcard, DefaultPort)

\* `fauna invite` opens no listener.
CommandOnly == by.app = "command" => hosting \in {"start", "over"}

HostInv == HostTypeOK /\ Published /\ Shown /\ ListensToLan /\ CommandOnly

LEMMA BindTypes ==
    ASSUME HostTypeOK, by.app # "command"
    PROVE  BindAddress \in Texts
  <1>1. by \in HostTypes
    BY ReachAssumption DEF HostTypeOK
  <1>2. by.bind \in Texts
    BY <1>1, HostFields
  <1>3. Loopback \in Hosts /\ DefaultPort \in Nat /\ NotAPort \in Nat
    BY DEF Hosts, OwnNames, DefaultPort, NotAPort, MaxPort
  <1>4. \A t \in Texts : NormalizeDirectBindAddr(t) \in Texts
    BY <1>3, TextFields DEF NormalizeDirectBindAddr
  <1>. QED
    BY <1>2, <1>4 DEF BindAddress

LEMMA AdvertisedTypes ==
    ASSUME HostTypeOK, by.app # "command"
    PROVE  Advertised \in Texts
  <1>1. by \in HostTypes /\ local \in Texts
    BY ReachAssumption DEF HostTypeOK
  <1>2. CASE by.app = "desktop"
    <2>1. by.public \in Texts /\ by.port \in Nat /\ by.tor \in BOOLEAN
      BY <1>1, <1>2, HostFields
    <2>2. NormalizeDirectPublicAddr(by.public, local) \in Texts
      BY <1>1, <2>1 DEF NormalizeDirectPublicAddr
    <2>3. ServicePort(by.port) \in Nat
      BY <2>1, ServicePortTypes
    <2>4. Text("onion", Name, ServicePort(by.port)) \in Texts
      BY <2>3, TextFields
    <2>. QED
      BY <1>2, <2>1, <2>2, <2>4 DEF Advertised
  <1>3. CASE by.app = "cli"
    <2>1. by.public \in SUBSET Texts /\ by.bind \in Texts
      BY <1>1, <1>3, HostFields
    <2>2. by.public # {} => (CHOOSE text \in by.public : TRUE) \in Texts
      BY <2>1
    <2>. QED
      BY <1>3, <2>1, <2>2 DEF Advertised
  <1>. QED
    BY <1>1, <1>2, <1>3, HostFields

LEMMA EncodeTypes == \A t \in Texts :
    LET l == Encode(WithAddress(NewInvite, t))
    IN  l \in Links /\ l.intact /\ l.payload.addresses = <<t>>
  <1>. TAKE t \in Texts
  <1>1. Append(<<>>, t) = <<t>> /\ <<t>> \in Seq(Texts)
    OBVIOUS
  <1>2. WithAddress(NewInvite, t) = [addresses |-> <<t>>]
    BY <1>1 DEF WithAddress, NewInvite
  <1>. QED
    BY <1>1, <1>2 DEF Encode, Links

LEMMA HostInitInv == Init => HostInv
  <1>. SUFFICES ASSUME Init PROVE HostInv
    OBVIOUS
  <1>1. HostTypeOK
    BY TextFields DEF Init, HostTypeOK
  <1>2. Published /\ Shown /\ ListensToLan /\ CommandOnly
    BY DEF Init, Published, Shown, ListensToLan, CommandOnly
  <1>. QED
    BY <1>1, <1>2 DEF HostInv

LEMMA BindListenerInv ==
    ASSUME HostInv, BindListener
    PROVE  HostInv'
  <1>1. /\ hosting = "start" /\ hosting' = "bound" /\ by' = by /\ by.app # "command"
        /\ UNCHANGED <<service, link>>
        /\ local' = Pair(IF BindAddress.host \in LocalNames THEN Loopback ELSE BindAddress.host,
                         IF BindAddress.port = 0 THEN FreePort ELSE BindAddress.port)
    BY DEF BindListener
  <1>2. service = {} /\ link = {}
    BY <1>1 DEF HostInv, Published, Shown
  <1>3. local' \in Texts
    <2>1. BindAddress \in Texts
      BY <1>1, BindTypes DEF HostInv
    <2>2. Loopback \in Hosts /\ FreePort \in Nat
      BY ReachAssumption DEF Hosts, OwnNames
    <2>. QED
      BY <1>1, <2>1, <2>2, TextFields
  <1>4. HostTypeOK'
    BY <1>1, <1>2, <1>3 DEF HostInv, HostTypeOK
  <1>5. Published' /\ Shown' /\ CommandOnly'
    BY <1>1, <1>2 DEF Published, Shown, CommandOnly
  <1>6. ListensToLan'
    <2>. SUFFICES ASSUME LanRecipe PROVE local' = Pair(Wildcard, DefaultPort)
      BY <1>1 DEF ListensToLan, LanRecipe, Direct
    <2>1. BindAddress = Pair(Wildcard, DefaultPort)
      <3>1. Direct(by) /\ by.bind = Pair(Wildcard, DefaultPort)
        BY DEF LanRecipe
      <3>2. by.bind.form = "pair" /\ by.bind # Empty
        <4>1. by.bind.form = "pair"
          BY <3>1 DEF Pair, Text
        <4>2. Empty.form = "empty"
          BY DEF Empty, Text
        <4>. QED
          BY <4>1, <4>2
      <3>3. NormalizeDirectBindAddr(by.bind) = by.bind
        BY <3>2 DEF NormalizeDirectBindAddr, HasColon
      <3>. QED
        BY <3>1, <3>3 DEF BindAddress
    <2>2. BindAddress.host = Wildcard /\ BindAddress.port = DefaultPort
      BY <2>1 DEF Pair, Text
    <2>. QED
      BY <1>1, <2>2 DEF Wildcard, LocalNames, Localhost, Capitals, DefaultPort
  <1>. QED
    BY <1>4, <1>5, <1>6 DEF HostInv

LEMMA HostStepInv ==
    ASSUME HostInv, Host
    PROVE  HostInv'
  <1>1. CASE HostRefuses \/ BindFails \/ PublishFails
    <2>1. /\ hosting \in {"start", "bound"} /\ hosting' = "failed" /\ by.app # "command"
          /\ UNCHANGED <<by, local, service, link>>
      BY <1>1 DEF HostRefuses, BindFails, PublishFails, FieldIsEmpty
    <2>2. link = {}
      BY <2>1 DEF HostInv, Shown
    <2>. QED
      BY <2>1, <2>2 DEF HostInv, HostTypeOK, Published, Shown, ListensToLan, CommandOnly
  <1>2. CASE BindListener
    BY <1>2, BindListenerInv
  <1>3. CASE PublishOnion
    <2>1. /\ hosting = "bound" /\ hosting' = "published" /\ by.app = "desktop" /\ by.tor
          /\ service' = {[virtual |-> ServicePort(by.port), forward |-> local]}
          /\ ServicePort(by.port) # 0
          /\ UNCHANGED <<by, local, link>>
      BY <1>3 DEF PublishOnion
    <2>2. link = {}
      BY <2>1 DEF HostInv, Shown
    <2>3. by \in HostTypes
      BY ReachAssumption DEF HostInv, HostTypeOK
    <2>4. by.port \in Nat
      BY <2>1, <2>3, HostFields
    <2>5. ServicePort(by.port) \in 1..MaxPort
      <3>1. ServicePort(by.port) \in 0..MaxPort
        BY <2>4, ServicePortTypes
      <3>. QED
        BY <2>1, <3>1
    <2>6. HostTypeOK'
      BY <2>1, <2>5 DEF HostInv, HostTypeOK
    <2>7. Published' /\ Shown' /\ ListensToLan' /\ CommandOnly'
      BY <2>1, <2>2 DEF Published, Shown, ListensToLan, LanRecipe, Direct, CommandOnly
    <2>. QED
      BY <2>6, <2>7 DEF HostInv
  <1>4. CASE CreateInvite
    <2>1. /\ hosting' = "listening" /\ UNCHANGED <<by, local, service>>
          /\ hosting \in {"bound", "published"}
          /\ by.app = "desktop" /\ by.tor => hosting = "published"
          /\ link' = {Encode(WithAddress(NewInvite, Advertised))}
      BY <1>4 DEF CreateInvite
    <2>2. by.app # "command"
      BY <2>1 DEF HostInv, CommandOnly
    <2>3. HostTypeOK'
      BY <2>1, <2>2, AdvertisedTypes, EncodeTypes DEF HostInv, HostTypeOK
    <2>4. Advertised' = Advertised
      BY <2>1 DEF Advertised
    <2>5. Published' /\ Shown' /\ CommandOnly'
      BY <2>1, <2>2, <2>4 DEF HostInv, Published, Shown, CommandOnly
    <2>6. ListensToLan'
      BY <2>1 DEF HostInv, ListensToLan, LanRecipe, Direct
    <2>. QED
      BY <2>3, <2>5, <2>6 DEF HostInv
  <1>5. CASE InviteCommand
    <2>1. /\ hosting = "start" /\ hosting' = "over" /\ by.app = "command"
          /\ link' = {Encode([NewInvite EXCEPT !.addresses = by.addresses])}
          /\ UNCHANGED <<by, local, service>>
      BY <1>5 DEF InviteCommand
    <2>2. by \in HostTypes
      BY ReachAssumption DEF HostInv, HostTypeOK
    <2>3. by.addresses \in Seq(Texts)
      BY <2>1, <2>2, HostFields
    <2>4. Encode([NewInvite EXCEPT !.addresses = by.addresses]) \in Links
      BY <2>3 DEF Encode, NewInvite, Links
    <2>5. HostTypeOK'
      BY <2>1, <2>4 DEF HostInv, HostTypeOK
    <2>6. Published' /\ Shown' /\ ListensToLan' /\ CommandOnly'
      BY <2>1 DEF HostInv, Published, Shown, ListensToLan, LanRecipe, Direct, CommandOnly
    <2>. QED
      BY <2>5, <2>6 DEF HostInv
  <1>. QED
    BY <1>1, <1>2, <1>3, <1>4, <1>5 DEF Host

LEMMA HostKept == HostInv /\ UNCHANGED hostVars => HostInv'
  <1>. SUFFICES ASSUME HostInv, UNCHANGED hostVars PROVE HostInv'
    OBVIOUS
  <1>1. UNCHANGED <<by, hosting, local, service, link>>
    BY DEF hostVars
  <1>2. HostTypeOK' /\ CommandOnly'
    BY <1>1 DEF HostInv, HostTypeOK, CommandOnly
  <1>3. Published'
    BY <1>1 DEF HostInv, Published
  <1>4. Advertised' = Advertised
    BY <1>1 DEF Advertised
  <1>5. Shown'
    BY <1>1, <1>4 DEF HostInv, Shown
  <1>6. ListensToLan'
    BY <1>1 DEF HostInv, ListensToLan, LanRecipe, Direct
  <1>. QED
    BY <1>2, <1>3, <1>5, <1>6 DEF HostInv

----------------------------------------------------------------------------
(* The joiner: what he was given, and what Tor is prepared for.            *)

JoinTypeOK ==
    /\ from \in JoinSettings
    /\ pasted \in SUBSET Links
    /\ tor \in BOOLEAN /\ prepared \in BOOLEAN
    /\ joining \in {"start", "prepare", "read", "connect", "tor", "connected", "failed"}
    /\ dialed \in SUBSET Texts
    /\ met \in {"nobody", "inviter", "itself"}
    /\ target.host \in Onion \cup {""} /\ target.port \in 0..MaxPort

\* There is one pasted link, and what can be read of it the host has shown.
Copied == \A l \in pasted : /\ l.intact => l \in link
                            /\ \A m \in pasted : m = l

\* Tor is on if the invite has an onion address anywhere, and is then prepared.
Noticed ==
    /\ from.app = "desktop" /\ joining # "start" =>
          \A l \in pasted : InviteContainsOnion(l) => tor
    /\ from.app = "desktop" /\ joining \in {"read", "connect"} => (tor => prepared)
    /\ joining \in {"start", "prepare"} => ~ prepared
    /\ joining = "prepare" => tor
    /\ PreparedBeforeTor

\* An invite made with Tor leads to Tor, and to the right service.
Aimed == by.app = "desktop" /\ by.tor /\ from.app = "desktop" /\ Intact =>
    /\ joining = "tor" => target.host = Name /\ target.port = ServicePort(by.port)
    /\ joining = "failed" => dial = "failed" \/ ~ prepared

\* The recipe for a LAN leads to no Tor, and to the inviter.
FoundInLan == LanRecipeWorks /\ (LanRecipe /\ Intact => joining # "tor")

\* Who has been met is met by a joiner that is connected.
MetIsConnected == met # "nobody" => joining = "connected"

JoinInv == JoinTypeOK /\ Copied /\ Noticed /\ MetIsConnected /\ Aimed /\ FoundInLan

Inv == SocksInv /\ HostInv /\ JoinInv

LEMMA CopiesTypes == HostTypeOK => Copies \subseteq Links
  <1>. SUFFICES ASSUME HostTypeOK, NEW l \in link PROVE [l EXCEPT !.intact = FALSE] \in Links
    BY DEF Copies, HostTypeOK
  <1>1. l \in Links
    BY DEF HostTypeOK
  <1>. QED
    BY <1>1 DEF Links

LEMMA AddressFrom ==
    ASSUME JoinTypeOK, NEW text \in Address
    PROVE  /\ text \in Texts
           /\ \E l \in pasted : l.intact /\ l.payload.addresses # <<>>
                                /\ text = l.payload.addresses[1]
  <1>1. PICK i \in UNION {Decode(l) : l \in pasted} : i.addresses # <<>> /\ text = i.addresses[1]
    BY DEF Address
  <1>2. PICK l \in pasted : i \in Decode(l)
    BY <1>1
  <1>3. l.intact /\ i = l.payload
    BY <1>2 DEF Decode
  <1>4. i.addresses \in Seq(Texts)
    BY <1>3 DEF JoinTypeOK, Links
  <1>5. i.addresses[1] \in Texts
    BY <1>1, <1>4
  <1>. QED
    BY <1>1, <1>3, <1>5

LEMMA OnionIsNoticed ==
    ASSUME JoinTypeOK, NEW text \in Address, NamesOnion(text)
    PROVE  \E l \in pasted : InviteContainsOnion(l)
  <1>1. PICK l \in pasted : l.intact /\ l.payload.addresses # <<>>
                            /\ text = l.payload.addresses[1]
    BY AddressFrom
  <1>2. l.payload.addresses \in Seq(Texts)
    BY DEF JoinTypeOK, Links
  <1>3. 1 \in 1..Len(l.payload.addresses)
    BY <1>1, <1>2
  <1>4. l.payload \in Decode(l)
    BY <1>1 DEF Decode
  <1>. QED
    BY <1>1, <1>3, <1>4 DEF InviteContainsOnion

\* What an intact copy of a desktop's or `fauna host`'s invite leads to.
LEMMA AddressIsAdvertised ==
    ASSUME HostInv, JoinInv, Intact, by.app # "command"
    PROVE  Address = {Advertised} /\ hosting = "listening"
  <1>1. PICK l \in pasted : l.intact
    BY DEF Intact
  <1>2. l \in link /\ pasted = {l}
    BY <1>1 DEF JoinInv, Copied
  <1>3. hosting = "listening" /\ l = Encode(WithAddress(NewInvite, Advertised))
    BY <1>2 DEF HostInv, Shown
  <1>4. l.payload.addresses = <<Advertised>>
    BY <1>3, AdvertisedTypes, EncodeTypes DEF HostInv
  <1>5. Decode(l) = {l.payload}
    BY <1>1 DEF Decode
  <1>6. l.payload.addresses # <<>> /\ l.payload.addresses[1] = Advertised
    BY <1>4
  <1>7. UNION {Decode(m) : m \in pasted} = {l.payload}
    BY <1>2, <1>5
  <1>. QED
    BY <1>3, <1>6, <1>7 DEF Address

LEMMA JoinInitInv == Init => JoinInv
  <1>. SUFFICES ASSUME Init PROVE JoinInv
    OBVIOUS
  <1>1. JoinTypeOK
    <2>1. from \in JoinSettings /\ tor = from.tor
      BY DEF Init
    <2>2. from \in JoinTypes
      BY <2>1, ReachAssumption
    <2>3. from.tor \in BOOLEAN
      BY <2>2 DEF JoinTypes
    <2>4. tor \in BOOLEAN
      BY <2>1, <2>3
    <2>5. target.host = "" /\ target.port = 0 /\ 0 \in 0..MaxPort
      <3>1. target = [host |-> "", port |-> 0]
        BY DEF Init, SocksInit
      <3>2. target.host = "" /\ target.port = 0
        BY <3>1
      <3>3. 0 \in 0..MaxPort
        BY PortTypes
      <3>. QED
        BY <3>2, <3>3
    <2>. QED
      BY <2>4, <2>5 DEF Init, JoinTypeOK
  <1>2. Copied /\ Noticed /\ MetIsConnected /\ Aimed /\ FoundInLan
    BY DEF Init, Copied, Noticed, PreparedBeforeTor, MetIsConnected, Aimed, FoundInLan,
           LanRecipeWorks
  <1>. QED
    BY <1>1, <1>2 DEF JoinInv

\* A step of the host shows an invite once, before anybody can paste it.
LEMMA HostJoinInv ==
    ASSUME HostInv, JoinInv, Host
    PROVE  JoinInv'
  <1>1. /\ UNCHANGED <<by, from, pasted, tor, prepared, joining, dialed, met, dial, target>>
        /\ hosting \in {"start", "bound", "published"}
    BY DEF Host, HostRefuses, BindListener, BindFails, PublishOnion, PublishFails,
           CreateInvite, InviteCommand, joinVars, socks
  <1>2. link = {}
    BY <1>1 DEF HostInv, Shown
  <1>3. JoinTypeOK' /\ Copied'
    BY <1>1, <1>2 DEF JoinInv, JoinTypeOK, Copied
  <1>4. Noticed' /\ MetIsConnected'
    BY <1>1 DEF JoinInv, Noticed, PreparedBeforeTor, MetIsConnected, InviteContainsOnion, Decode
  <1>5. Aimed'
    BY <1>1 DEF JoinInv, Aimed, Intact
  <1>6. FoundInLan'
    BY <1>1 DEF JoinInv, FoundInLan, LanRecipeWorks, LanRecipe, Direct, Intact
  <1>. QED
    BY <1>3, <1>4, <1>5, <1>6 DEF JoinInv

LEMMA PasteInv ==
    ASSUME HostInv, JoinInv, StartJoin \/ CliJoin
    PROVE  JoinInv'
  <1>1. /\ joining = "start" /\ joining' \in {"prepare", "read"}
        /\ UNCHANGED <<link, from, prepared, dialed, met, target>>
    BY DEF StartJoin, CliJoin, hostVars, socks
  <1>2. PICK l \in Copies : pasted' = {l} /\ (StartJoin => tor' = (tor \/ InviteContainsOnion(l)))
    BY DEF StartJoin, CliJoin
  <1>3. l \in Links /\ (l.intact => l \in link)
    <2>1. l \in Links
      BY CopiesTypes DEF HostInv
    <2>2. ASSUME NEW m \in link, l = [m EXCEPT !.intact = FALSE] PROVE ~ l.intact
      <3>1. m \in Links
        BY DEF HostInv, HostTypeOK
      <3>. QED
        BY <2>2, <3>1 DEF Links
    <2>. QED
      BY <2>1, <2>2 DEF Copies
  <1>4. tor' \in BOOLEAN
    <2>1. CASE StartJoin
      <3>1. InviteContainsOnion(l) \in BOOLEAN
        BY DEF InviteContainsOnion
      <3>. QED
        BY <1>2, <2>1, <3>1, Zenon DEF JoinInv, JoinTypeOK
    <2>2. CASE CliJoin
      BY <2>2 DEF CliJoin, JoinInv, JoinTypeOK
    <2>. QED
      BY <2>1, <2>2
  <1>5. JoinTypeOK'
    BY <1>1, <1>2, <1>3, <1>4 DEF JoinInv, JoinTypeOK
  <1>6. Copied'
    BY <1>1, <1>2, <1>3 DEF Copied
  <1>7. Noticed'
    <2>1. ~ prepared'
      BY <1>1 DEF JoinInv, Noticed
    <2>2. CASE StartJoin
      <3>1. joining' = IF tor' THEN "prepare" ELSE "read"
        BY <2>2 DEF StartJoin
      <3>2. InviteContainsOnion(l) => tor'
        BY <1>2, <2>2, <1>4
      <3>3. \A m \in pasted' : InviteContainsOnion(m) => tor'
        BY <1>2, <3>2
      <3>. QED
        BY <1>1, <1>2, <2>1, <3>1, <3>3 DEF Noticed, PreparedBeforeTor, InviteContainsOnion, Decode
    <2>3. CASE CliJoin
      BY <1>1, <2>1, <2>3 DEF CliJoin, Noticed, PreparedBeforeTor
    <2>. QED
      BY <2>2, <2>3
  <1>8. MetIsConnected' /\ Aimed' /\ FoundInLan'
    BY <1>1 DEF JoinInv, MetIsConnected, Aimed, FoundInLan, LanRecipeWorks
  <1>. QED
    BY <1>5, <1>6, <1>7, <1>8 DEF JoinInv

LEMMA PrepareInv ==
    ASSUME JoinInv, PrepareTor
    PROVE  JoinInv'
  <1>1. /\ joining = "prepare" /\ tor /\ ~ prepared
        /\ UNCHANGED <<link, from, pasted, tor, dialed, met, target>>
        /\ \/ prepared' = TRUE /\ joining' = "read"
           \/ UNCHANGED prepared /\ joining' = "failed"
    BY DEF PrepareTor, hostVars, socks, JoinInv, Noticed
  <1>2. prepared' \in BOOLEAN
    BY <1>1 DEF JoinInv, JoinTypeOK
  <1>3. JoinTypeOK' /\ Copied'
    BY <1>1, <1>2 DEF JoinInv, JoinTypeOK, Copied
  <1>4. Noticed' /\ MetIsConnected'
    BY <1>1 DEF JoinInv, Noticed, PreparedBeforeTor, MetIsConnected, InviteContainsOnion, Decode
  <1>5. Aimed' /\ FoundInLan'
    BY <1>1 DEF Aimed, FoundInLan, LanRecipeWorks
  <1>. QED
    BY <1>3, <1>4, <1>5 DEF JoinInv

\* The address that an invite made with Tor carries.
LEMMA TorAddress ==
    ASSUME HostInv, JoinInv, Intact, by.app = "desktop", by.tor
    PROVE  /\ Address = {Text("onion", Name, ServicePort(by.port))}
           /\ NamesOnion(Text("onion", Name, ServicePort(by.port)))
           /\ OnionTarget(Text("onion", Name, ServicePort(by.port)))
                = {[host |-> Name, port |-> ServicePort(by.port)]}
  <1>1. Address = {Text("onion", Name, ServicePort(by.port))}
    BY AddressIsAdvertised DEF Advertised
  <1>2. by \in HostTypes
    BY ReachAssumption DEF HostInv, HostTypeOK
  <1>3. by.port \in Nat
    BY <1>2, HostFields
  <1>4. ServicePort(by.port) \in 0..MaxPort
    BY <1>3, ServicePortTypes
  <1>5. Parses(ServicePort(by.port))
    BY <1>4, PortTypes DEF Parses
  <1>. QED
    BY <1>1, <1>5, ReachAssumption DEF NamesOnion, OnionTarget, HasColon, Text

\* The address of an invite made by the recipe for a LAN.
LEMMA LanAddress ==
    ASSUME HostInv, JoinInv, Intact, LanRecipe
    PROVE  /\ Address = {Pair(Lan, DefaultPort)}
           /\ NormalizeAddress(Pair(Lan, DefaultPort)) = {Pair(Lan, DefaultPort)}
           /\ ~ ByTor(Pair(Lan, DefaultPort)) /\ ~ Refuses(Pair(Lan, DefaultPort))
           /\ hosting = "listening" /\ local = Pair(Wildcard, DefaultPort)
  <1>1. Direct(by) /\ by.public = Pair(Lan, DefaultPort)
    BY DEF LanRecipe
  <1>2. by.app = "desktop" /\ ~ by.tor
    BY <1>1 DEF Direct
  <1>3. Address = {Advertised} /\ hosting = "listening"
    BY <1>2, AddressIsAdvertised
  <1>4. /\ Pair(Lan, DefaultPort).form = "pair" /\ Pair(Lan, DefaultPort).host = Lan
        /\ Pair(Lan, DefaultPort).port = 45123
    BY DEF Pair, Text, DefaultPort
  <1>5. Pair(Lan, DefaultPort) # Empty
    <2>1. Empty.form = "empty"
      BY DEF Empty, Text
    <2>. QED
      BY <1>4, <2>1
  <1>6. NormalizeDirectPublicAddr(by.public, local) = by.public
    BY <1>1, <1>4, <1>5 DEF NormalizeDirectPublicAddr, HasColon
  <1>7. Advertised = Pair(Lan, DefaultPort)
    BY <1>1, <1>2, <1>6 DEF Advertised
  <1>8. NormalizeAddress(Pair(Lan, DefaultPort)) = {Pair(Lan, DefaultPort)}
    BY <1>4 DEF NormalizeAddress, HasColon
  <1>9. ~ ByTor(Pair(Lan, DefaultPort)) /\ ~ Refuses(Pair(Lan, DefaultPort))
    BY <1>4, <1>8, ReachAssumption DEF ByTor, NamesOnion, Refuses, OnlyThisComputer,
                                  OwnNames, LocalNames
  <1>10. local = Pair(Wildcard, DefaultPort)
    BY <1>3 DEF HostInv, ListensToLan
  <1>. QED
    BY <1>3, <1>7, <1>8, <1>9, <1>10

LEMMA ReadInv ==
    ASSUME HostInv, JoinInv, ReadInvite
    PROVE  JoinInv'
  <1>1. /\ joining = "read" /\ joining' = IF Address = {} THEN "failed" ELSE "connect"
        /\ UNCHANGED <<by, link, from, pasted, tor, prepared, dialed, met, dial, target>>
    BY DEF ReadInvite, hostVars, socks
  <1>2. JoinTypeOK' /\ Copied'
    BY <1>1 DEF JoinInv, JoinTypeOK, Copied
  <1>3. Noticed' /\ MetIsConnected'
    BY <1>1 DEF JoinInv, Noticed, PreparedBeforeTor, MetIsConnected, InviteContainsOnion, Decode
  <1>4. Intact /\ by.app # "command" => joining' = "connect"
    BY <1>1, AddressIsAdvertised
  <1>5. Intact' = Intact
    BY <1>1 DEF Intact
  <1>6. Aimed'
    BY <1>1, <1>4, <1>5 DEF Aimed
  <1>7. FoundInLan'
    BY <1>1, <1>4, <1>5 DEF FoundInLan, LanRecipeWorks, LanRecipe, Direct
  <1>. QED
    BY <1>2, <1>3, <1>6, <1>7 DEF JoinInv

LEMMA ConnectByTorInv ==
    ASSUME HostInv, JoinInv, ConnectByTor
    PROVE  JoinInv'
  <1>1. /\ joining = "connect"
        /\ UNCHANGED <<by, link, from, pasted, tor, prepared, dialed, met>>
    BY DEF ConnectByTor, hostVars
  <1>2. PICK text \in Address :
          /\ ByTor(text)
          /\ \/ \E t \in OnionTarget(text) : DialOnion(t) /\ joining' = "tor"
             \/ OnionTarget(text) = {} /\ joining' = "failed" /\ UNCHANGED socks
    BY DEF ConnectByTor
  <1>3. from.app = "desktop" /\ NamesOnion(text)
    BY <1>2 DEF ByTor
  <1>4. tor /\ prepared
    <2>1. PICK l \in pasted : InviteContainsOnion(l)
      BY <1>3, OnionIsNoticed DEF JoinInv
    <2>2. tor
      BY <1>1, <1>3, <2>1 DEF JoinInv, Noticed
    <2>. QED
      BY <1>1, <1>3, <2>2 DEF JoinInv, Noticed
  <1>5. Noticed' /\ MetIsConnected' /\ Copied'
    <2>1. joining' \in {"tor", "failed"}
      BY <1>2
    <2>2. Noticed'
      BY <1>1, <1>4, <2>1 DEF JoinInv, Noticed, PreparedBeforeTor, InviteContainsOnion, Decode
    <2>. QED
      BY <1>1, <2>1, <2>2 DEF JoinInv, MetIsConnected, Copied
  <1>6. \A t \in OnionTarget(text) : t.host \in Onion /\ t.port \in 0..MaxPort
    <2>1. text \in Texts
      BY AddressFrom DEF JoinInv
    <2>2. text.port \in Nat /\ text.host \in Onion
      BY <1>3, <2>1, TextFields DEF NamesOnion
    <2>. QED
      BY <2>2, PortTypes DEF OnionTarget, Parses
  <1>7. Intact' = Intact
    BY <1>1 DEF Intact
  <1>8. CASE \E t \in OnionTarget(text) : DialOnion(t) /\ joining' = "tor"
    <2>1. PICK t \in OnionTarget(text) : target' = t /\ joining' = "tor"
      BY <1>8 DEF DialOnion
    <2>2. JoinTypeOK'
      BY <1>1, <1>6, <2>1 DEF JoinInv, JoinTypeOK
    <2>3. Aimed'
      <3>. SUFFICES ASSUME by.app = "desktop", by.tor, Intact
                    PROVE  t.host = Name /\ t.port = ServicePort(by.port)
        BY <1>1, <1>7, <2>1 DEF Aimed
      <3>1. OnionTarget(text) = {[host |-> Name, port |-> ServicePort(by.port)]}
        BY <1>2, TorAddress
      <3>. QED
        BY <2>1, <3>1
    <2>4. ~ (LanRecipe /\ Intact)
      BY <1>2, LanAddress
    <2>5. FoundInLan'
      BY <1>1, <1>7, <2>4 DEF FoundInLan, LanRecipeWorks, LanRecipe, Direct
    <2>. QED
      BY <1>5, <2>2, <2>3, <2>5 DEF JoinInv
  <1>9. CASE OnionTarget(text) = {} /\ joining' = "failed" /\ UNCHANGED socks
    <2>1. JoinTypeOK'
      BY <1>1, <1>9 DEF JoinInv, JoinTypeOK, socks
    <2>2. ~ (by.app = "desktop" /\ by.tor /\ Intact)
      BY <1>2, <1>9, TorAddress
    <2>3. ~ (LanRecipe /\ Intact)
      BY <1>2, LanAddress
    <2>4. Aimed' /\ FoundInLan'
      BY <1>1, <1>7, <2>2, <2>3 DEF Aimed, FoundInLan, LanRecipeWorks, LanRecipe, Direct
    <2>. QED
      BY <1>5, <2>1, <2>4 DEF JoinInv
  <1>. QED
    BY <1>2, <1>8, <1>9

LEMMA RefuseInv ==
    ASSUME HostInv, JoinInv, RefuseAddress
    PROVE  JoinInv'
  <1>1. /\ joining = "connect" /\ joining' = "failed"
        /\ UNCHANGED <<by, link, from, pasted, tor, prepared, dialed, met, dial, target>>
    BY DEF RefuseAddress, hostVars, socks
  <1>2. PICK text \in Address : ~ ByTor(text) /\ (Refuses(text) \/ NormalizeAddress(text) = {})
    BY DEF RefuseAddress
  <1>3. JoinTypeOK' /\ Copied'
    BY <1>1 DEF JoinInv, JoinTypeOK, Copied
  <1>4. Noticed' /\ MetIsConnected'
    BY <1>1 DEF JoinInv, Noticed, PreparedBeforeTor, MetIsConnected, InviteContainsOnion, Decode
  <1>5. ~ (by.app = "desktop" /\ by.tor /\ from.app = "desktop" /\ Intact)
    BY <1>2, TorAddress DEF ByTor
  <1>6. ~ (LanRecipe /\ Intact)
    BY <1>2, LanAddress
  <1>7. Aimed' /\ FoundInLan'
    BY <1>1, <1>5, <1>6 DEF Aimed, FoundInLan, LanRecipeWorks, LanRecipe, Direct, Intact
  <1>. QED
    BY <1>3, <1>4, <1>7 DEF JoinInv

LEMMA ConnectDirectlyInv ==
    ASSUME HostInv, JoinInv, ConnectDirectly
    PROVE  JoinInv'
  <1>1. /\ joining = "connect"
        /\ UNCHANGED <<by, link, from, pasted, tor, prepared, dial, target>>
    BY DEF ConnectDirectly, hostVars, socks
  <1>2. PICK text \in Address : \E t \in NormalizeAddress(text) :
          /\ ~ ByTor(text) /\ ~ Refuses(text)
          /\ dialed' = {t}
          /\ \/ \E who \in Found(t) : met' = who /\ joining' = "connected"
             \/ "inviter" \notin Found(t) /\ joining' = "failed" /\ UNCHANGED met
    BY DEF ConnectDirectly
  <1>3. PICK t \in NormalizeAddress(text) :
          /\ ~ ByTor(text)
          /\ dialed' = {t}
          /\ \/ \E who \in Found(t) : met' = who /\ joining' = "connected"
             \/ "inviter" \notin Found(t) /\ joining' = "failed" /\ UNCHANGED met
    BY <1>2
  <1>4. t \in Texts
    <2>1. text \in Texts
      BY AddressFrom DEF JoinInv
    <2>. QED
      BY <2>1, NormalizeTypes
  <1>5. joining' \in {"connected", "failed"} /\ met' \in {"nobody", "inviter", "itself"}
    BY <1>3 DEF Found, JoinInv, JoinTypeOK
  <1>6. JoinTypeOK' /\ Copied'
    BY <1>1, <1>3, <1>4, <1>5 DEF JoinInv, JoinTypeOK, Copied
  <1>7. Noticed'
    BY <1>1, <1>5 DEF JoinInv, Noticed, PreparedBeforeTor, InviteContainsOnion, Decode
  <1>8. MetIsConnected'
    BY <1>1, <1>3 DEF JoinInv, MetIsConnected
  <1>9. Intact' = Intact
    BY <1>1 DEF Intact
  <1>10. Aimed'
    <2>1. ~ (by.app = "desktop" /\ by.tor /\ from.app = "desktop" /\ Intact)
      BY <1>3, TorAddress DEF ByTor
    <2>. QED
      BY <1>1, <1>9, <2>1 DEF Aimed
  <1>11. ASSUME LanRecipe, Intact PROVE joining' = "connected" /\ met' = "inviter"
    <2>1. t = Pair(Lan, DefaultPort)
      BY <1>11, LanAddress
    <2>2. t.form = "pair" /\ t.host = Lan /\ t.port = DefaultPort
      BY <2>1 DEF Pair, Text
    <2>3. local.host = Wildcard /\ local.port = DefaultPort /\ hosting = "listening"
      BY <1>11, LanAddress DEF Pair, Text
    <2>4. Lan \notin OwnNames
      BY ReachAssumption
    <2>5. Listens(local, t) /\ AtInviter(t)
      BY <2>2, <2>3, <2>4 DEF Listens, AtInviter, OwnNames
    <2>6. Found(t) = {"inviter"}
      BY <2>2, <2>3, <2>4, <2>5 DEF Found
    <2>. QED
      BY <1>3, <2>6
  <1>12. FoundInLan'
    BY <1>1, <1>5, <1>9, <1>11 DEF FoundInLan, LanRecipeWorks, LanRecipe, Direct
  <1>. QED
    BY <1>6, <1>7, <1>8, <1>10, <1>12 DEF JoinInv

LEMMA ByTorStepInv ==
    ASSUME HostInv, JoinInv,
           ByTorStep(Dialing) \/ ByTorStep(Tick) \/ ByTorStep(Proxy)
    PROVE  JoinInv'
  <1>1. /\ joining = "tor"
        /\ UNCHANGED <<by, link, from, pasted, tor, prepared, dialed>>
        /\ \/ UNCHANGED <<joining, met>>
           \/ joining' = "connected" /\ met' = "inviter"
           \/ dial' = "failed" /\ joining' = "failed" /\ UNCHANGED met
    BY DEF ByTorStep, hostVars
  <1>2. target' = target
    <2>1. Dialing \/ Tick \/ Proxy
      BY DEF ByTorStep
    <2>2. Proxy => target' = target
      BY DEF Proxy, ProxySends, ProxyCloses
    <2>3. Tick => target' = target
      BY DEF Tick
    <2>4. Dialing => target' = target
      BY DEF Dialing, WakeUp, GiveUp, Refused, Connect, ReadMethod, MethodFails, ReadHeader,
             HeaderFails, ReadLength, ReadAddress, ReadShort, AttemptFails, TakeBytes
    <2>. QED
      BY <2>1, <2>2, <2>3, <2>4
  <1>3. JoinTypeOK' /\ Copied'
    BY <1>1, <1>2 DEF JoinInv, JoinTypeOK, Copied
  <1>4. Noticed'
    BY <1>1 DEF JoinInv, Noticed, PreparedBeforeTor, InviteContainsOnion, Decode
  <1>5. MetIsConnected'
    BY <1>1 DEF JoinInv, MetIsConnected
  <1>6. Intact' = Intact
    BY <1>1 DEF Intact
  <1>7. Aimed'
    BY <1>1, <1>2, <1>6 DEF JoinInv, Aimed
  <1>8. ~ (LanRecipe /\ Intact)
    BY <1>1 DEF JoinInv, FoundInLan
  <1>9. FoundInLan'
    BY <1>1, <1>6, <1>8 DEF FoundInLan, LanRecipeWorks, LanRecipe, Direct
  <1>. QED
    BY <1>3, <1>4, <1>5, <1>7, <1>9 DEF JoinInv

LEMMA JoinKept == JoinInv /\ UNCHANGED vars => JoinInv'
  <1>. SUFFICES ASSUME JoinInv, UNCHANGED vars PROVE JoinInv'
    OBVIOUS
  <1>1. UNCHANGED <<by, link, from, pasted, tor, prepared, joining, dialed, met, dial, target>>
    BY DEF vars, hostVars, joinVars, socks
  <1>2. JoinTypeOK' /\ Copied' /\ MetIsConnected'
    BY <1>1 DEF JoinInv, JoinTypeOK, Copied, MetIsConnected
  <1>3. Noticed'
    BY <1>1 DEF JoinInv, Noticed, PreparedBeforeTor, InviteContainsOnion, Decode
  <1>4. Intact' = Intact
    BY <1>1 DEF Intact
  <1>5. Aimed'
    BY <1>1, <1>4 DEF JoinInv, Aimed
  <1>6. FoundInLan'
    BY <1>1, <1>4 DEF JoinInv, FoundInLan, LanRecipeWorks, LanRecipe, Direct
  <1>. QED
    BY <1>2, <1>3, <1>5, <1>6 DEF JoinInv

----------------------------------------------------------------------------
(* The invariant of Reach, and what follows from it.                       *)

\* Every reachable state of an invite, its host and its joiner satisfies Inv,
\* for every way to make an invite and every way to join.
THEOREM Invariance == Spec => []Inv
  <1>1. Init => Inv
    BY SocksInitInv, HostInitInv, JoinInitInv DEF Init, Inv
  <1>2. ASSUME Inv, [Next]_vars PROVE Inv'
    <2>1. CASE Host
      <3>1. UNCHANGED socks
        BY <2>1, ElsewhereKeepsSocks DEF Elsewhere
      <3>. QED
        BY <1>2, <2>1, <3>1, SocksKept, HostStepInv, HostJoinInv DEF Inv
    <2>2. CASE StartJoin \/ CliJoin \/ PrepareTor \/ ReadInvite \/ RefuseAddress
               \/ ConnectDirectly
      <3>1. UNCHANGED socks
        BY <2>2, ElsewhereKeepsSocks DEF Elsewhere
      <3>2. UNCHANGED hostVars
        BY <2>2 DEF StartJoin, CliJoin, PrepareTor, ReadInvite, RefuseAddress, ConnectDirectly
      <3>3. JoinInv'
        BY <1>2, <2>2, PasteInv, PrepareInv, ReadInv, RefuseInv, ConnectDirectlyInv DEF Inv
      <3>. QED
        BY <1>2, <3>1, <3>2, <3>3, SocksKept, HostKept DEF Inv
    <2>3. CASE ConnectByTor
      <3>1. SocksInv'
        BY <1>2, <2>3, DialOnionInv, SocksKept DEF ConnectByTor, Inv
      <3>2. UNCHANGED hostVars
        BY <2>3 DEF ConnectByTor
      <3>. QED
        BY <1>2, <2>3, <3>1, <3>2, HostKept, ConnectByTorInv DEF Inv
    <2>4. CASE ByTorStep(Dialing) \/ ByTorStep(Tick) \/ ByTorStep(Proxy)
      <3>1. SocksInv'
        BY <1>2, <2>4, DialingInv, TickInv, ProxyInv DEF ByTorStep, Inv
      <3>2. UNCHANGED hostVars
        BY <2>4 DEF ByTorStep
      <3>. QED
        BY <1>2, <2>4, <3>1, <3>2, HostKept, ByTorStepInv DEF Inv
    <2>5. CASE UNCHANGED vars
      <3>1. UNCHANGED <<hostVars, socks>>
        BY <2>5 DEF vars
      <3>. QED
        BY <1>2, <2>5, <3>1, SocksKept, HostKept, JoinKept DEF Inv
    <2>. QED
      BY <1>2, <2>1, <2>2, <2>3, <2>4, <2>5 DEF Next, JoinThread
  <1>. QED
    BY <1>1, <1>2, PTL DEF Spec

\* Type correctness of Reach, the dialing thread of Socks included.
THEOREM TypeCorrect == Spec => []TypeOK
  <1>1. Inv => TypeOK
    BY DEF Inv, SocksInv, HostInv, HostTypeOK, JoinInv, JoinTypeOK, TypeOK
  <1>. QED
    BY <1>1, Invariance, PTL

\* The session gets the stream of connect_via_socks5 just behind the proxy's
\* answers, for every reply, every size of its pieces and every length of name.
THEOREM HelloComesNext == Spec => []StreamAtHello
  <1>1. Inv => StreamAtHello
    BY DEF Inv, SocksInv, Position, StreamAtHello
  <1>. QED
    BY <1>1, Invariance, PTL

\* connect_via_socks5_with_retry makes no more attempts than its pauses leave
\* room for, for every time limit and every pause.
THEOREM FewAttempts == Spec => []AttemptsBounded
  <1>1. Inv => AttemptsBounded
    BY DEF Inv, SocksInv, Paused, AttemptsBounded
  <1>. QED
    BY <1>1, Invariance, PTL

\* start_join looks for an onion address in the whole invite and join_network
\* dials the first of it: no SOCKS address is dialed that prepare_tor_config
\* has not given.
THEOREM TorIsPrepared == Spec => []PreparedBeforeTor
  <1>1. Inv => PreparedBeforeTor
    BY DEF Inv, JoinInv, Noticed
  <1>. QED
    BY <1>1, Invariance, PTL

\* tor_service_port of host_network, whatever was typed in, and the port of
\* parse_onion_address are those of one service, which leads to the listener.
THEOREM OnionInvitesLeadHome == Spec => []OnionLeadsHome
  <1>1. Inv => OnionLeadsHome
    <2>. SUFFICES ASSUME Inv, by.app = "desktop", by.tor, from.app = "desktop", Intact
                  PROVE  /\ joining = "tor" =>
                               target.host = Name /\ \E s \in service :
                                   s.virtual = target.port /\ s.forward = local
                         /\ joining = "failed" => dial = "failed" \/ ~ prepared
      BY DEF OnionLeadsHome
    <2>1. hosting = "listening"
      BY AddressIsAdvertised DEF Inv
    <2>2. PICK s \in service : s.virtual = ServicePort(by.port) /\ s.forward = local
      BY <2>1 DEF Inv, HostInv, Published
    <2>. QED
      BY <2>2 DEF Inv, JoinInv, Aimed
  <1>. QED
    BY <1>1, Invariance, PTL

\* normalize_direct_bind_addr and normalize_direct_public_addr leave the
\* recipe of README.md for a LAN as it is: whoever joins with it arrives.
THEOREM LanInvitesLeadHome == Spec => []LanRecipeWorks
  <1>1. Inv => LanRecipeWorks
    BY DEF Inv, JoinInv, FoundInLan
  <1>. QED
    BY <1>1, Invariance, PTL

----------------------------------------------------------------------------
(* Every step of a join uses up some of the work that is left to do.       *)

\* What the proxy has sent fits, and a pause ends when its time has come.
AttemptGoing ==
    /\ arrived <= 24 + HelloSize
    /\ dial = "sleep" => clock <= wake

\* An address has been read, and the dialing thread is at work with the join.
JoinGoing ==
    /\ joining = "connect" => Address # {}
    /\ joining = "tor" => dial \in Reading \cup {"retry", "sleep"}

Going == AttemptGoing /\ JoinGoing

HostWork(h) ==
    [start |-> 3, bound |-> 2, published |-> 1, listening |-> 0, over |-> 0, failed |-> 0][h]

JoinWork(j) ==
    [start |-> 4, prepare |-> 3, read |-> 2, connect |-> 1, tor |-> 0, connected |-> 0,
     failed |-> 0][j]

DialWork(d) ==
    [idle |-> 7, retry |-> 6, method |-> 5, header |-> 4, length |-> 3, address |-> 2,
     open |-> 0, failed |-> 0][d]

ShutWork(over) == IF over THEN 0 ELSE 1

\* More than an attempt can take, every byte of the proxy a step of its own.
AttemptCost == 32 + HelloSize

\* An attempt that failed has spent the pause after it as well.
Spent == IF dial = "sleep" THEN wake ELSE clock

AttemptWork ==
    IF dial = "sleep" THEN AttemptCost + (wake - clock)
    ELSE DialWork(dial) + (24 + HelloSize - arrived) + ShutWork(shut)

SocksWork == AttemptCost * (Timeout + Pause - Spent) + AttemptWork

Work == HostWork(hosting) + JoinWork(joining) + SocksWork

LEMMA Ranks ==
    /\ HostWork("start") = 3 /\ HostWork("bound") = 2 /\ HostWork("published") = 1
    /\ HostWork("listening") = 0 /\ HostWork("over") = 0 /\ HostWork("failed") = 0
    /\ JoinWork("start") = 4 /\ JoinWork("prepare") = 3 /\ JoinWork("read") = 2
    /\ JoinWork("connect") = 1 /\ JoinWork("tor") = 0 /\ JoinWork("connected") = 0
    /\ JoinWork("failed") = 0
    /\ DialWork("idle") = 7 /\ DialWork("retry") = 6 /\ DialWork("method") = 5
    /\ DialWork("header") = 4 /\ DialWork("length") = 3 /\ DialWork("address") = 2
    /\ DialWork("open") = 0 /\ DialWork("failed") = 0
    /\ ShutWork(TRUE) = 0 /\ ShutWork(FALSE) = 1
  BY DEF HostWork, JoinWork, DialWork, ShutWork

LEMMA Products == \A k, x, p \in Nat : p <= x =>
    /\ k * x \in Nat /\ k * p \in Nat /\ k * (x - p) \in Nat
    /\ k * (x - p) = k * x - k * p
  <1>. SUFFICES ASSUME NEW k \in Nat, NEW x \in Nat, NEW p \in Nat, p <= x
                PROVE  /\ k * x \in Nat /\ k * p \in Nat /\ k * (x - p) \in Nat
                       /\ k * (x - p) = k * x - k * p
    OBVIOUS
  <1>1. x - p \in Nat
    OBVIOUS
  <1>2. \A n \in Nat : k * n \in Nat
    OBVIOUS
  <1>3. k * (x - p) = k * x - k * p
    OBVIOUS
  <1>. QED
    BY <1>1, <1>2, <1>3

LEMMA PauseCosts == \A k, p \in Nat \ {0} : k * p >= k + p - 1
  <1>. SUFFICES ASSUME NEW k \in Nat \ {0}, NEW p \in Nat \ {0} PROVE k * p >= k + p - 1
    OBVIOUS
  <1>1. (k - 1) * (p - 1) \in Nat
    OBVIOUS
  <1>2. (k - 1) * (p - 1) = k * p - k - p + 1
    OBVIOUS
  <1>. QED
    BY <1>1, <1>2

LEMMA NameBound == \A r \in Replies : r.name <= 7
  <1>. SUFFICES ASSUME NEW r \in Replies PROVE r.name <= 7
    OBVIOUS
  <1>1. r.name = NoReply.name \/ \E n \in {0, 7} : r = [NoReply EXCEPT !.kind = 3, !.name = n]
    BY DEF Replies, NoReply
  <1>2. NoReply.name = 0
    BY DEF NoReply
  <1>3. ASSUME NEW n \in {0, 7}, r = [NoReply EXCEPT !.kind = 3, !.name = n]
        PROVE  r.name = n
    <2>1. r = [method |-> 0, code |-> 0, kind |-> 3, name |-> n]
      BY <1>3 DEF NoReply
    <2>. QED
      BY <2>1
  <1>. QED
    BY <1>1, <1>2, <1>3

LEMMA SendableBound == SocksInv => Sendable \in Nat /\ Sendable <= 24 + HelloSize
  <1>. SUFFICES ASSUME SocksInv PROVE Sendable \in Nat /\ Sendable <= 24 + HelloSize
    OBVIOUS
  <1>1. reply \in Replies /\ HelloSize \in Nat
    BY SocksAssumption DEF SocksInv, SocksTypeOK
  <1>2. BoundAddress(reply) \in 0..18
    BY <1>1, ReplyTypes, NameBound DEF BoundAddress
  <1>. QED
    BY <1>1, <1>2 DEF Sendable

CostType == AttemptCost \in Nat /\ AttemptCost >= 32

LEMMA CostTypes == CostType
  BY SocksAssumption DEF AttemptCost, CostType

LEMMA DialRanks == SocksInv /\ dial # "sleep" => DialWork(dial) \in Nat
  <1>. SUFFICES ASSUME SocksInv, dial # "sleep" PROVE DialWork(dial) \in Nat
    OBVIOUS
  <1>1. dial \in {"method", "header", "length", "address", "idle", "retry", "open", "failed"}
    BY DEF SocksInv, SocksTypeOK, Reading
  <1>. QED
    BY <1>1, Ranks

\* The terms of SocksWork are natural numbers.
Sized ==
    /\ Spent \in Nat /\ Spent <= Timeout + Pause
    /\ AttemptWork \in Nat

LEMMA AttemptNats == SocksInv /\ AttemptGoing => Sized
  <1>. SUFFICES ASSUME SocksInv, AttemptGoing PROVE Sized
    OBVIOUS
  <1>1. HelloSize \in Nat /\ Timeout \in Nat /\ Pause \in Nat
    BY SocksAssumption
  <1>2. clock \in 0..(Timeout + Pause) /\ wake \in 0..(Timeout + Pause) /\ arrived \in Nat
    BY DEF SocksInv, SocksTypeOK
  <1>3. CASE dial = "sleep"
    BY <1>1, <1>2, <1>3 DEF AttemptGoing, Spent, AttemptWork, AttemptCost, Sized
  <1>4. CASE dial # "sleep"
    <2>1. DialWork(dial) \in Nat /\ ShutWork(shut) \in Nat
      BY <1>4, DialRanks DEF ShutWork
    <2>2. 24 + HelloSize - arrived \in Nat
      BY <1>1, <1>2 DEF AttemptGoing
    <2>. QED
      BY <1>1, <1>2, <1>4, <2>1, <2>2 DEF Spent, AttemptWork, Sized
  <1>. QED
    BY <1>3, <1>4

\* Time that has been spent pays for what is to be done anew.
LEMMA LessOfSocks ==
    ASSUME Sized, Sized', NEW p \in Nat, Spent' = Spent + p,
           AttemptWork' < AttemptWork + AttemptCost * p
    PROVE  SocksWork' < SocksWork
  <1>. DEFINE x == Timeout + Pause - Spent
  <1>. DEFINE y == Timeout + Pause - Spent'
  <1>. DEFINE a == AttemptWork
  <1>. DEFINE b == AttemptWork'
  <1>. DEFINE kx == AttemptCost * x
  <1>. DEFINE kp == AttemptCost * p
  <1>. DEFINE ky == AttemptCost * y
  <1>1. x \in Nat /\ y \in Nat /\ y = x - p /\ p <= x
    BY SocksAssumption DEF Sized
  <1>2. a \in Nat /\ b \in Nat /\ b < a + kp
    BY DEF Sized
  <1>3. AttemptCost \in Nat
    BY CostTypes DEF CostType
  <1>4. kx \in Nat /\ kp \in Nat /\ ky = kx - kp
    <2>. HIDE DEF x, y
    <2>. QED
      BY <1>1, <1>3, Products
  <1>5. SocksWork = kx + a
    BY DEF SocksWork
  <1>6. SocksWork' = ky + b
    BY DEF SocksWork, AttemptCost
  <1>7. ky \in Nat
    <2>. HIDE DEF x, y
    <2>. QED
      BY <1>1, <1>3, Products
  <1>. HIDE DEF kx, kp, ky, a, b
  <1>. QED
    BY <1>2, <1>4, <1>5, <1>6, <1>7

LEMMA LessOfAttempt ==
    ASSUME Sized, Sized', Spent' = Spent, AttemptWork' < AttemptWork
    PROVE  SocksWork' < SocksWork
  <1>1. AttemptCost * 0 = 0
    BY CostTypes DEF CostType
  <1>2. Spent' = Spent + 0 /\ AttemptWork' < AttemptWork + AttemptCost * 0
    BY <1>1 DEF Sized
  <1>. QED
    BY <1>2, LessOfSocks

\* An attempt that fails pays for the next one with its pause.
LEMMA FailureCosts ==
    ASSUME SocksInv, AttemptGoing, SocksInv', AttemptGoing', AttemptFails,
           dial \in Reading \cup {"retry"}
    PROVE  SocksWork' < SocksWork
  <1>1. Sized /\ Sized'
    BY AttemptNats, PTL
  <1>2. /\ dial' = "sleep" /\ wake' = clock + Pause /\ clock' = clock
        /\ dial # "sleep"
    BY DEF AttemptFails, Reading
  <1>3. Spent' = Spent + Pause
    BY <1>2 DEF Spent
  <1>4. AttemptWork' = AttemptCost + Pause
    <2>1. AttemptWork' = AttemptCost + (wake' - clock')
      BY <1>2 DEF AttemptWork, AttemptCost
    <2>. QED
      BY <1>2, <2>1, SocksAssumption DEF SocksInv, SocksTypeOK
  <1>5. AttemptWork >= 2
    <2>1. DialWork(dial) \in Nat /\ DialWork(dial) >= 2
      BY Ranks DEF Reading
    <2>2. ShutWork(shut) \in Nat
      BY DEF ShutWork
    <2>3. 24 + HelloSize - arrived \in Nat
      BY SocksAssumption DEF AttemptGoing, SocksInv, SocksTypeOK
    <2>. QED
      BY <1>2, <2>1, <2>2, <2>3 DEF AttemptWork
  <1>6. Pause \in Nat \ {0} /\ AttemptCost \in Nat \ {0}
    BY SocksAssumption, CostTypes DEF CostType
  <1>. DEFINE kp == AttemptCost * Pause
  <1>7. kp >= AttemptCost + Pause - 1 /\ kp \in Nat
    BY <1>6, PauseCosts
  <1>8. AttemptWork' < AttemptWork + kp
    <2>. HIDE DEF kp
    <2>. QED
      BY <1>1, <1>4, <1>5, <1>6, <1>7 DEF Sized
  <1>. QED
    BY <1>1, <1>3, <1>6, <1>8, LessOfSocks

\* A read_exact that gets its bytes is a rank less.
LEMMA TakesLess ==
    ASSUME SocksInv, AttemptGoing, SocksInv', AttemptGoing', TakeBytes,
           NEW d \in Reading, NEW e \in Reading \cup {"open"}, NEW n,
           dial = d, Read(e, n), DialWork(e) < DialWork(d)
    PROVE  SocksWork' < SocksWork
  <1>1. Sized /\ Sized'
    BY AttemptNats, PTL
  <1>2. dial' = e /\ UNCHANGED <<clock, wake, arrived, shut>>
        /\ dial # "sleep" /\ dial' # "sleep"
    BY DEF TakeBytes, Read, Reading
  <1>3. Spent' = Spent
    BY <1>2 DEF Spent
  <1>4. AttemptWork' < AttemptWork
    <2>1. DialWork(e) \in Nat /\ DialWork(d) \in Nat
      BY Ranks DEF Reading
    <2>2. ShutWork(shut) \in Nat /\ ShutWork(shut') = ShutWork(shut)
      BY <1>2 DEF ShutWork
    <2>3. AttemptWork = DialWork(d) + (24 + HelloSize - arrived) + ShutWork(shut)
      BY <1>2 DEF AttemptWork
    <2>4. AttemptWork' = DialWork(e) + (24 + HelloSize - arrived) + ShutWork(shut)
      BY <1>2, <2>2 DEF AttemptWork
    <2>5. 24 + HelloSize - arrived \in Nat
      BY SocksAssumption DEF AttemptGoing, SocksInv, SocksTypeOK
    <2>. QED
      BY <2>1, <2>2, <2>3, <2>4, <2>5
  <1>. QED
    BY <1>1, <1>3, <1>4, LessOfAttempt

LEMMA DialingLess ==
    ASSUME SocksInv, AttemptGoing, SocksInv', AttemptGoing', Dialing
    PROVE  SocksWork' < SocksWork
  <1>1. Sized /\ Sized'
    BY AttemptNats, PTL
  <1>2. CASE WakeUp
    <2>1. /\ dial = "sleep" /\ dial' = "retry" /\ clock = wake
          /\ UNCHANGED <<clock, wake, arrived, shut>>
      BY <1>2 DEF WakeUp, stream, AttemptGoing, SocksInv, SocksTypeOK
    <2>2. Spent' = Spent
      BY <2>1 DEF Spent
    <2>3. AttemptWork = AttemptCost
      <3>1. wake - clock = 0
        BY <2>1 DEF SocksInv, SocksTypeOK
      <3>. QED
        BY <2>1, <3>1, CostTypes DEF AttemptWork, CostType
    <2>4. AttemptWork' = 6 + (24 + HelloSize - arrived) + ShutWork(shut')
      BY <2>1, Ranks DEF AttemptWork
    <2>5. ShutWork(shut') \in 0..1
      BY DEF ShutWork
    <2>6. arrived \in Nat
      BY DEF SocksInv, SocksTypeOK
    <2>7. AttemptWork' < AttemptWork
      BY <2>3, <2>4, <2>5, <2>6, SocksAssumption DEF AttemptCost
    <2>. QED
      BY <1>1, <2>2, <2>7, LessOfAttempt
  <1>3. CASE GiveUp \/ Connect
    <2>1. /\ dial = "retry" /\ dial' \in {"failed", "method"}
          /\ UNCHANGED <<clock, wake, arrived, shut>>
      BY <1>3 DEF GiveUp, Connect, Read, stream
    <2>2. Spent' = Spent
      BY <2>1 DEF Spent
    <2>3. AttemptWork' < AttemptWork
      <3>1. ShutWork(shut) \in Nat /\ ShutWork(shut') = ShutWork(shut)
        BY <2>1 DEF ShutWork
      <3>2. AttemptWork = 6 + (24 + HelloSize - arrived) + ShutWork(shut)
        BY <2>1, Ranks DEF AttemptWork
      <3>3. AttemptWork' = DialWork(dial') + (24 + HelloSize - arrived) + ShutWork(shut)
        BY <2>1, <3>1 DEF AttemptWork
      <3>4. DialWork(dial') \in 0..5
        BY <2>1, Ranks
      <3>5. 24 + HelloSize - arrived \in Nat
        BY SocksAssumption DEF AttemptGoing, SocksInv, SocksTypeOK
      <3>. QED
        BY <3>1, <3>2, <3>3, <3>4, <3>5
    <2>. QED
      BY <1>1, <2>2, <2>3, LessOfAttempt
  <1>4. CASE Refused \/ MethodFails \/ HeaderFails \/ ReadShort
    BY <1>4, FailureCosts DEF Refused, MethodFails, HeaderFails, ReadShort, Reading
  <1>5. CASE ReadMethod
    <2>1. DialWork("header") < DialWork("method")
      BY Ranks
    <2>. QED
      BY <1>5, <2>1, TakesLess DEF ReadMethod, Reading
  <1>6. CASE ReadHeader
    <2>1. DialWork("address") < DialWork("header") /\ DialWork("length") < DialWork("header")
      BY Ranks
    <2>2. \/ Read("address", 6) \/ Read("length", 1) \/ Read("address", 18)
      BY <1>6 DEF ReadHeader, HeaderFits
    <2>3. dial = "header" /\ TakeBytes
      BY <1>6 DEF ReadHeader
    <2>4. "header" \in Reading /\ "address" \in Reading /\ "length" \in Reading
      BY DEF Reading
    <2>. QED
      BY <2>1, <2>2, <2>3, <2>4, TakesLess
  <1>7. CASE ReadLength
    <2>1. DialWork("address") < DialWork("length")
      BY Ranks
    <2>. QED
      BY <1>7, <2>1, TakesLess DEF ReadLength, Reading
  <1>8. CASE ReadAddress
    <2>1. DialWork("open") < DialWork("address")
      BY Ranks
    <2>. QED
      BY <1>8, <2>1, TakesLess DEF ReadAddress, Reading
  <1>. QED
    BY <1>2, <1>3, <1>4, <1>5, <1>6, <1>7, <1>8 DEF Dialing

LEMMA TickLess ==
    ASSUME SocksInv, AttemptGoing, SocksInv', AttemptGoing', Tick
    PROVE  SocksWork' < SocksWork
  <1>1. Sized /\ Sized'
    BY AttemptNats, PTL
  <1>2. clock' = clock + 1 /\ UNCHANGED <<dial, wake, arrived, shut>>
    BY DEF Tick, stream
  <1>3. CASE dial = "sleep"
    <2>1. Spent' = Spent
      BY <1>2, <1>3 DEF Spent
    <2>2. AttemptWork = AttemptCost + (wake - clock)
      BY <1>3 DEF AttemptWork
    <2>3. AttemptWork' = AttemptCost + (wake - (clock + 1))
      BY <1>2, <1>3 DEF AttemptWork, AttemptCost
    <2>4. AttemptWork' < AttemptWork
      BY <2>2, <2>3, CostTypes DEF CostType, SocksInv, SocksTypeOK
    <2>. QED
      BY <1>1, <2>1, <2>4, LessOfAttempt
  <1>4. CASE dial # "sleep"
    <2>1. Spent' = Spent + 1
      BY <1>2, <1>4 DEF Spent
    <2>2. AttemptWork' = AttemptWork
      <3>1. ShutWork(shut') = ShutWork(shut)
        BY <1>2 DEF ShutWork
      <3>. QED
        BY <1>2, <1>4, <3>1 DEF AttemptWork
    <2>3. AttemptCost * 1 = AttemptCost /\ AttemptCost \in Nat /\ AttemptCost > 0
      BY CostTypes DEF CostType
    <2>4. AttemptWork' < AttemptWork + AttemptCost * 1
      BY <1>1, <2>2, <2>3 DEF Sized
    <2>. QED
      BY <1>1, <2>1, <2>4, LessOfSocks
  <1>. QED
    BY <1>3, <1>4

LEMMA ProxyLess ==
    ASSUME SocksInv, AttemptGoing, SocksInv', AttemptGoing', Proxy
    PROVE  SocksWork' < SocksWork
  <1>1. Sized /\ Sized'
    BY AttemptNats, PTL
  <1>2. dial # "sleep" /\ UNCHANGED <<dial, clock, wake>>
    BY DEF Proxy, ProxySends, ProxyCloses, Reading
  <1>3. Spent' = Spent
    BY <1>2 DEF Spent
  <1>4. \/ arrived' > arrived /\ shut' = shut
        \/ arrived' = arrived /\ ~ shut /\ shut'
    <2>1. CASE ProxySends
      <3>1. PICK n \in Pieces : arrived' = Least(arrived + n, Sendable)
        BY <2>1 DEF ProxySends
      <3>2. n \in Nat \ {0} /\ arrived < Sendable /\ shut' = shut
        BY <2>1, SocksAssumption DEF ProxySends
      <3>. QED
        BY <3>1, <3>2, SendableBound DEF Least, SocksInv, SocksTypeOK
    <2>2. CASE ProxyCloses
      BY <2>2 DEF ProxyCloses
    <2>. QED
      BY <2>1, <2>2 DEF Proxy
  <1>5. AttemptWork' < AttemptWork
    <2>1. DialWork(dial) \in Nat
      BY <1>2, DialRanks
    <2>2. AttemptWork = DialWork(dial) + (24 + HelloSize - arrived) + ShutWork(shut)
      BY <1>2 DEF AttemptWork
    <2>3. AttemptWork' = DialWork(dial) + (24 + HelloSize - arrived') + ShutWork(shut')
      BY <1>2 DEF AttemptWork
    <2>4. arrived \in Nat /\ arrived' \in Nat /\ HelloSize \in Nat
      BY SocksAssumption DEF SocksInv, SocksTypeOK
    <2>5. ShutWork(shut) \in Nat /\ ShutWork(shut') \in Nat
      BY DEF ShutWork
    <2>6. CASE arrived' > arrived /\ shut' = shut
      BY <2>1, <2>2, <2>3, <2>4, <2>5, <2>6
    <2>7. CASE arrived' = arrived /\ ~ shut /\ shut'
      <3>1. ShutWork(shut) = 1 /\ ShutWork(shut') = 0
        BY <2>7 DEF ShutWork
      <3>2. AttemptWork = DialWork(dial) + (24 + HelloSize - arrived) + 1
        BY <2>2, <3>1
      <3>3. AttemptWork' = DialWork(dial) + (24 + HelloSize - arrived) + 0
        BY <2>3, <2>7, <3>1
      <3>. QED
        BY <2>1, <2>4, <3>2, <3>3
    <2>. QED
      BY <1>4, <2>6, <2>7
  <1>. QED
    BY <1>1, <1>3, <1>5, LessOfAttempt

\* The thread begins to dial.
LEMMA DialOnionLess ==
    ASSUME SocksInv, AttemptGoing, SocksInv', AttemptGoing', NEW t, DialOnion(t)
    PROVE  SocksWork' < SocksWork
  <1>1. Sized /\ Sized'
    BY AttemptNats, PTL
  <1>2. dial = "idle" /\ dial' = "retry" /\ UNCHANGED <<clock, wake, arrived, shut>>
    BY DEF DialOnion, stream
  <1>3. Spent' = Spent
    BY <1>2 DEF Spent
  <1>4. AttemptWork' < AttemptWork
    <2>1. AttemptWork = 7 + (24 + HelloSize - arrived) + ShutWork(shut)
      BY <1>2, Ranks DEF AttemptWork
    <2>2. ShutWork(shut') = ShutWork(shut) /\ ShutWork(shut) \in Nat
      BY <1>2 DEF ShutWork
    <2>3. AttemptWork' = 6 + (24 + HelloSize - arrived) + ShutWork(shut)
      BY <1>2, <2>2, Ranks DEF AttemptWork
    <2>4. 24 + HelloSize - arrived \in Nat
      BY SocksAssumption DEF AttemptGoing, SocksInv, SocksTypeOK
    <2>. QED
      BY <2>1, <2>2, <2>3, <2>4
  <1>. QED
    BY <1>1, <1>3, <1>4, LessOfAttempt

----------------------------------------------------------------------------
(* A step of the whole system.                                             *)

LEMMA AttemptGoes ==
    ASSUME SocksInv, AttemptGoing, Dialing \/ Tick \/ Proxy
    PROVE  AttemptGoing'
  <1>1. CASE AttemptFails
    BY <1>1, SocksAssumption DEF AttemptFails, AttemptGoing, SocksInv, SocksTypeOK
  <1>2. CASE WakeUp \/ GiveUp \/ Connect
    BY <1>2 DEF WakeUp, GiveUp, Connect, Read, stream, AttemptGoing
  <1>3. CASE ReadMethod \/ ReadHeader \/ ReadLength \/ ReadAddress
    <2>1. TakeBytes /\ dial' # "sleep"
      BY <1>3 DEF ReadMethod, ReadHeader, ReadLength, ReadAddress, HeaderFits, Read
    <2>. QED
      BY <2>1 DEF TakeBytes, AttemptGoing
  <1>4. CASE Tick
    BY <1>4 DEF Tick, stream, AttemptGoing, SocksInv, SocksTypeOK
  <1>5. CASE ProxySends
    <2>1. PICK n \in Pieces : arrived' = Least(arrived + n, Sendable)
      BY <1>5 DEF ProxySends
    <2>2. n \in Nat /\ Sendable \in Nat /\ Sendable <= 24 + HelloSize /\ arrived \in Nat
      BY SendableBound, SocksAssumption DEF SocksInv, SocksTypeOK
    <2>3. arrived' <= Sendable /\ arrived' \in Nat
      BY <2>1, <2>2 DEF Least
    <2>4. UNCHANGED <<dial, clock, wake>>
      BY <1>5 DEF ProxySends
    <2>. QED
      BY <2>2, <2>3, <2>4, SocksAssumption DEF AttemptGoing
  <1>6. CASE ProxyCloses
    BY <1>6 DEF ProxyCloses, AttemptGoing
  <1>. QED
    BY <1>1, <1>2, <1>3, <1>4, <1>5, <1>6
       DEF Dialing, Proxy, Refused, MethodFails, HeaderFails, ReadShort

LEMMA DialingStays ==
    ASSUME SocksInv, Dialing \/ Tick \/ Proxy
    PROVE  dial' # "idle" /\ dial # "idle"
  BY DEF Dialing, Tick, Proxy, WakeUp, GiveUp, Refused, Connect, ReadMethod, MethodFails,
         ReadHeader, HeaderFails, HeaderFits, ReadLength, ReadAddress, ReadShort, Read,
         AttemptFails, ProxySends, ProxyCloses, Reading

\* The terms of the work that are not of the attempts.
LEMMA RankTypes == Inv => HostWork(hosting) \in 0..3 /\ JoinWork(joining) \in 0..4
  <1>. SUFFICES ASSUME Inv
                PROVE  HostWork(hosting) \in 0..3 /\ JoinWork(joining) \in 0..4
    OBVIOUS
  <1>1. hosting \in {"start", "bound", "published", "listening", "over", "failed"}
    BY DEF Inv, HostInv, HostTypeOK
  <1>2. joining \in {"start", "prepare", "read", "connect", "tor", "connected", "failed"}
    BY DEF Inv, JoinInv, JoinTypeOK
  <1>. QED
    BY <1>1, <1>2, Ranks

SocksWorkOK == SocksWork \in Nat

LEMMA SocksWorkType == SocksInv /\ AttemptGoing => SocksWorkOK
  <1>. SUFFICES ASSUME SocksInv, AttemptGoing PROVE SocksWorkOK
    OBVIOUS
  <1>1. Sized /\ CostType
    BY AttemptNats, CostTypes
  <1>2. Timeout + Pause - Spent \in Nat
    BY <1>1, SocksAssumption DEF Sized
  <1>3. AttemptCost * (Timeout + Pause - Spent) \in Nat
    BY <1>1, <1>2, Products DEF CostType
  <1>. QED
    BY <1>1, <1>3 DEF SocksWork, Sized, SocksWorkOK

\* The parts of the work of a state, and that none of them grows.
LEMMA HostLess ==
    ASSUME Inv, Host
    PROVE  HostWork(hosting') < HostWork(hosting)
  BY Ranks
     DEF Host, HostRefuses, BindListener, BindFails, PublishOnion, PublishFails,
         CreateInvite, InviteCommand

LEMMA JoinLess ==
    ASSUME Inv, StartJoin \/ CliJoin \/ PrepareTor \/ ReadInvite \/ RefuseAddress
                \/ ConnectDirectly
    PROVE  JoinWork(joining') < JoinWork(joining)
  BY Ranks DEF StartJoin, CliJoin, PrepareTor, ReadInvite, RefuseAddress, ConnectDirectly

LEMMA GoingInit == Init => Going
  <1>. SUFFICES ASSUME Init PROVE Going
    OBVIOUS
  <1>1. arrived = 0 /\ dial = "idle" /\ joining = "start"
    BY DEF Init, SocksInit
  <1>. QED
    BY <1>1, SocksAssumption DEF Going, AttemptGoing, JoinGoing

LEMMA SocksStill ==
    ASSUME UNCHANGED socks
    PROVE  SocksWork' = SocksWork /\ AttemptGoing' = AttemptGoing
  <1>1. UNCHANGED <<dial, clock, wake, arrived, shut>>
    BY DEF socks, stream
  <1>2. Spent' = Spent
    BY <1>1 DEF Spent
  <1>3. ShutWork(shut') = ShutWork(shut)
    BY <1>1 DEF ShutWork
  <1>4. AttemptWork' = AttemptWork
    BY <1>1, <1>3 DEF AttemptWork, AttemptCost
  <1>5. SocksWork' = SocksWork
    BY <1>2, <1>4 DEF SocksWork, AttemptCost
  <1>. QED
    BY <1>1, <1>5 DEF AttemptGoing

LEMMA AddressStill ==
    ASSUME UNCHANGED <<pasted, joining, dial>>, JoinGoing
    PROVE  JoinGoing'
  <1>1. Address' = Address
    BY DEF Address
  <1>. QED
    BY <1>1 DEF JoinGoing

\* What an attempt does leaves the host alone, and the join is going on or over.
LEMMA ByTorLess ==
    ASSUME Inv, Inv', Going, ByTorStep(Dialing) \/ ByTorStep(Tick) \/ ByTorStep(Proxy)
    PROVE  /\ Going' /\ SocksWork' < SocksWork
           /\ hosting' = hosting /\ JoinWork(joining') = JoinWork(joining)
  <1>1. SocksInv /\ SocksInv' /\ AttemptGoing
    BY DEF Inv, Going
  <1>2. Dialing \/ Tick \/ Proxy
    BY DEF ByTorStep
  <1>3. AttemptGoing'
    BY <1>1, <1>2, AttemptGoes
  <1>4. SocksWork' < SocksWork
    BY <1>1, <1>2, <1>3, DialingLess, TickLess, ProxyLess
  <1>5. dial' \in Reading \cup {"retry", "sleep", "open", "failed"}
    BY <1>1, <1>2, DialingStays DEF SocksInv, SocksTypeOK
  <1>6. /\ joining = "tor" /\ hosting' = hosting
        /\ \/ joining' = "tor" /\ dial' \notin {"open", "failed"}
           \/ joining' \in {"connected", "failed"}
    BY DEF ByTorStep, hostVars
  <1>7. JoinGoing'
    BY <1>5, <1>6 DEF JoinGoing
  <1>8. JoinWork(joining') = JoinWork(joining)
    BY <1>6, Ranks
  <1>. QED
    BY <1>3, <1>4, <1>6, <1>7, <1>8 DEF Going

LEMMA ConnectByTorLess ==
    ASSUME Inv, Inv', Going, ConnectByTor
    PROVE  /\ Going' /\ SocksWork' <= SocksWork
           /\ hosting' = hosting /\ JoinWork(joining') < JoinWork(joining)
  <1>1. SocksInv /\ SocksInv' /\ AttemptGoing
    BY DEF Inv, Going
  <1>2. joining = "connect" /\ joining' \in {"tor", "failed"} /\ hosting' = hosting
    BY DEF ConnectByTor, hostVars
  <1>3. JoinWork(joining') < JoinWork(joining)
    BY <1>2, Ranks
  <1>4. PICK text \in Address :
            \/ \E t \in OnionTarget(text) : DialOnion(t) /\ joining' = "tor"
            \/ joining' = "failed" /\ UNCHANGED socks
    BY DEF ConnectByTor
  <1>5. ASSUME NEW t, DialOnion(t), joining' = "tor"
        PROVE  Going' /\ SocksWork' <= SocksWork
    <2>1. dial' = "retry" /\ UNCHANGED <<clock, wake, arrived, shut>>
      BY <1>5 DEF DialOnion, stream
    <2>2. AttemptGoing' /\ JoinGoing'
      BY <1>1, <1>5, <2>1 DEF AttemptGoing, JoinGoing
    <2>3. SocksWork' < SocksWork
      BY <1>1, <1>5, <2>2, DialOnionLess
    <2>4. SocksWorkOK /\ SocksWorkOK'
      BY <1>1, <2>2, SocksWorkType, PTL
    <2>. QED
      BY <2>2, <2>3, <2>4 DEF Going, SocksWorkOK
  <1>6. ASSUME joining' = "failed", UNCHANGED socks
        PROVE  Going' /\ SocksWork' <= SocksWork
    <2>1. AttemptGoing' /\ SocksWork' = SocksWork
      BY <1>1, <1>6, SocksStill
    <2>2. JoinGoing'
      BY <1>6 DEF JoinGoing
    <2>3. SocksWork \in Nat
      BY <1>1, SocksWorkType DEF SocksWorkOK
    <2>. QED
      BY <2>1, <2>2, <2>3 DEF Going
  <1>. QED
    BY <1>2, <1>3, <1>4, <1>5, <1>6

LEMMA ElsewhereLess ==
    ASSUME Inv, Going, Elsewhere
    PROVE  /\ Going' /\ SocksWork' = SocksWork
           /\ \/ HostWork(hosting') < HostWork(hosting) /\ joining' = joining
              \/ hosting' = hosting /\ JoinWork(joining') < JoinWork(joining)
  <1>1. AttemptGoing' /\ SocksWork' = SocksWork
    BY ElsewhereKeepsSocks, SocksStill DEF Going
  <1>2. CASE Host
    <2>1. UNCHANGED joinVars /\ UNCHANGED socks
      BY <1>2 DEF Host, HostRefuses, BindListener, BindFails, PublishOnion, PublishFails,
                  CreateInvite, InviteCommand
    <2>2. UNCHANGED <<pasted, joining, dial>>
      BY <2>1 DEF joinVars, socks
    <2>3. JoinGoing'
      BY <2>2, AddressStill DEF Going
    <2>. QED
      BY <1>1, <1>2, <2>2, <2>3, HostLess DEF Going
  <1>3. CASE StartJoin \/ CliJoin \/ PrepareTor \/ ReadInvite \/ RefuseAddress
             \/ ConnectDirectly
    <2>1. hosting' = hosting
      BY <1>3 DEF StartJoin, CliJoin, PrepareTor, ReadInvite, RefuseAddress,
                  ConnectDirectly, hostVars
    <2>2. JoinGoing'
      <3>1. CASE ReadInvite
        <4>1. Address' = Address
          BY <3>1 DEF ReadInvite, Address
        <4>. QED
          BY <3>1, <4>1 DEF ReadInvite, JoinGoing
      <3>2. CASE ~ ReadInvite
        BY <1>3, <3>2 DEF StartJoin, CliJoin, PrepareTor, RefuseAddress, ConnectDirectly,
                          JoinGoing
      <3>. QED
        BY <3>1, <3>2
    <2>. QED
      BY <1>1, <1>3, <2>1, <2>2, JoinLess DEF Going
  <1>. QED
    BY <1>2, <1>3 DEF Elsewhere

LEMMA WorkStep ==
    ASSUME Inv, Inv', Going, Next
    PROVE  Going' /\ Work' < Work
  <1>1. /\ HostWork(hosting) \in 0..3 /\ JoinWork(joining) \in 0..4
        /\ HostWork(hosting') \in 0..3 /\ JoinWork(joining') \in 0..4
    <2>1. (HostWork(hosting) \in 0..3 /\ JoinWork(joining) \in 0..4)'
      BY RankTypes, PTL
    <2>2. HostWork(hosting') \in 0..3 /\ JoinWork(joining') \in 0..4
      BY <2>1 DEF HostWork, JoinWork
    <2>. QED
      BY <2>2, RankTypes
  <1>2. /\ Going'
        /\ SocksWork \in Nat /\ SocksWork' \in Nat
        /\ \/ /\ SocksWork' < SocksWork
              /\ HostWork(hosting') = HostWork(hosting)
              /\ JoinWork(joining') = JoinWork(joining)
           \/ /\ SocksWork' <= SocksWork
              /\ \/ /\ HostWork(hosting') < HostWork(hosting)
                    /\ JoinWork(joining') = JoinWork(joining)
                 \/ /\ HostWork(hosting') = HostWork(hosting)
                    /\ JoinWork(joining') < JoinWork(joining)
    <2>1. SocksWork \in Nat
      BY SocksWorkType DEF Inv, Going, SocksWorkOK
    <2>2. Going' => SocksWork' \in Nat
      <3>1. SocksInv' /\ AttemptGoing' => SocksWorkOK'
        BY SocksWorkType, PTL
      <3>. QED
        BY <3>1 DEF Inv, Going, SocksWorkOK
    <2>3. CASE Elsewhere
      BY <2>1, <2>2, <2>3, ElsewhereLess
    <2>4. CASE ConnectByTor
      BY <2>1, <2>2, <2>4, ConnectByTorLess
    <2>5. CASE ByTorStep(Dialing) \/ ByTorStep(Tick) \/ ByTorStep(Proxy)
      BY <2>1, <2>2, <2>5, ByTorLess
    <2>. QED
      BY <2>3, <2>4, <2>5 DEF Next, JoinThread, Elsewhere
  <1>3. Work = HostWork(hosting) + JoinWork(joining) + SocksWork
    BY DEF Work
  <1>4. Work' = HostWork(hosting') + JoinWork(joining') + SocksWork'
    BY DEF Work, HostWork, JoinWork
  <1>. DEFINE h == HostWork(hosting)
  <1>. DEFINE h2 == HostWork(hosting')
  <1>. DEFINE j == JoinWork(joining)
  <1>. DEFINE j2 == JoinWork(joining')
  <1>. DEFINE s == SocksWork
  <1>. DEFINE s2 == SocksWork'
  <1>5. /\ h \in Nat /\ h2 \in Nat /\ j \in Nat /\ j2 \in Nat
    BY <1>1
  <1>6. /\ s \in Nat /\ s2 \in Nat
        /\ \/ s2 < s /\ h2 = h /\ j2 = j
           \/ s2 <= s /\ h2 < h /\ j2 = j
           \/ s2 <= s /\ h2 = h /\ j2 < j
    BY <1>2
  <1>7. Work = h + j + s /\ Work' = h2 + j2 + s2
    BY <1>3, <1>4
  <1>. HIDE DEF h, h2, j, j2, s, s2
  <1>. QED
    BY <1>2, <1>5, <1>6, <1>7

Ongoing == Inv /\ Going

LEMMA OngoingInv == Spec => []Ongoing
  <1>1. Init => Going
    BY GoingInit
  <1>2. Inv /\ Inv' /\ Going /\ [Next]_vars => Going'
    <2>. SUFFICES ASSUME Inv, Inv', Going, [Next]_vars PROVE Going'
      OBVIOUS
    <2>1. CASE UNCHANGED vars
      <3>1. UNCHANGED socks /\ UNCHANGED <<pasted, joining, dial>>
        BY <2>1 DEF vars, joinVars, socks
      <3>. QED
        BY <3>1, SocksStill, AddressStill DEF Going
    <2>. QED
      BY <2>1, WorkStep
  <1>. QED
    BY <1>1, <1>2, Invariance, PTL DEF Spec, Ongoing

\* Every step of the system uses up some of the work that is left: nothing
\* that host, dialing thread, proxy or time can do goes on for ever.
THEOREM JoinWorkFalls == Spec => [][Work' < Work]_vars
  <1>1. Ongoing /\ Ongoing' /\ Next => Work' < Work
    BY WorkStep DEF Ongoing
  <1>. QED
    BY <1>1, OngoingInv, PTL DEF Spec

\* A bound for the steps of a join, its attempts and all bytes of the proxy.
Bounded == Work \in Nat /\ Work <= 39 + HelloSize + AttemptCost * (Timeout + Pause)

WorkOK == Work \in Nat

\* No join is longer, for every time limit, pause, hello and pieces: the time
\* of connect_via_socks5_with_retry pays for its attempts.
THEOREM JoinIsBounded == Spec => []Bounded
  <1>1. Init => Work = 39 + HelloSize + AttemptCost * (Timeout + Pause)
    <2>. SUFFICES ASSUME Init
                  PROVE  Work = 39 + HelloSize + AttemptCost * (Timeout + Pause)
      OBVIOUS
    <2>1. /\ hosting = "start" /\ joining = "start" /\ dial = "idle"
          /\ clock = 0 /\ arrived = 0 /\ shut = FALSE
      BY DEF Init, SocksInit
    <2>2. HostWork(hosting) = 3 /\ JoinWork(joining) = 4
      BY <2>1, Ranks
    <2>3. AttemptWork = 7 + (24 + HelloSize) + 1
      <3>1. AttemptWork = 7 + (24 + HelloSize - 0) + 1
        BY <2>1, Ranks DEF AttemptWork
      <3>. QED
        BY <3>1, SocksAssumption
    <2>4. Timeout + Pause - Spent = Timeout + Pause
      BY <2>1, SocksAssumption DEF Spent
    <2>. DEFINE p == AttemptCost * (Timeout + Pause)
    <2>5. SocksWork = p + (7 + (24 + HelloSize) + 1)
      BY <2>3, <2>4 DEF SocksWork
    <2>6. p \in Nat
      BY CostTypes, Products, SocksAssumption DEF CostType
    <2>. HIDE DEF p
    <2>7. Work = 39 + HelloSize + p
      BY <2>2, <2>5, <2>6, SocksAssumption DEF Work
    <2>. QED
      BY <2>7 DEF p
  <1>2. Ongoing => WorkOK
    <2>. SUFFICES ASSUME Ongoing PROVE WorkOK
      OBVIOUS
    <2>1. SocksWork \in Nat
      BY SocksWorkType DEF Ongoing, Inv, Going, SocksWorkOK
    <2>2. HostWork(hosting) \in Nat /\ JoinWork(joining) \in Nat
      BY RankTypes DEF Ongoing
    <2>. QED
      BY <2>1, <2>2 DEF Work, WorkOK
  <1>3. AttemptCost * (Timeout + Pause) \in Nat
    BY CostTypes, Products, SocksAssumption DEF CostType
  <1>4. Init /\ Ongoing => Bounded
    BY <1>1, <1>2, <1>3, SocksAssumption DEF Bounded, WorkOK
  <1>5. Bounded /\ Ongoing /\ Ongoing' /\ [Next]_vars => Bounded'
    <2>. SUFFICES ASSUME Bounded, Ongoing, Ongoing', [Next]_vars PROVE Bounded'
      OBVIOUS
    <2>. DEFINE B == 39 + HelloSize + AttemptCost * (Timeout + Pause)
    <2>1. B \in Nat /\ Work \in Nat /\ Work <= B
      BY <1>3, SocksAssumption DEF Bounded
    <2>2. Work' <= B
      <3>1. CASE Next
        <4>1. Work' < Work
          BY <3>1, WorkStep DEF Ongoing
        <4>2. Work' \in Nat
          <5>1. WorkOK'
            BY <1>2, PTL
          <5>. QED
            BY <5>1 DEF WorkOK
        <4>. HIDE DEF B
        <4>. QED
          BY <2>1, <4>1, <4>2
      <3>2. CASE UNCHANGED vars
        <4>1. UNCHANGED <<hosting, joining>> /\ UNCHANGED socks
          BY <3>2 DEF vars, hostVars, joinVars
        <4>2. HostWork(hosting') = HostWork(hosting) /\ JoinWork(joining') = JoinWork(joining)
          BY <4>1
        <4>3. Work' = Work
          BY <4>1, <4>2, SocksStill DEF Work, HostWork, JoinWork
        <4>. HIDE DEF B
        <4>. QED
          BY <2>1, <4>3
      <3>. QED
        BY <3>1, <3>2
    <2>3. Work' \in Nat
      <3>1. WorkOK'
        BY <1>2, PTL
      <3>. QED
        BY <3>1 DEF WorkOK
    <2>. QED
      BY <2>2, <2>3 DEF Bounded, AttemptCost
  <1>. QED
    BY <1>4, <1>5, OngoingInv, PTL DEF Spec

JoinIsOver == joining \in {"connected", "failed"}

\* prepare_tor_config waits for the Tor that is started.
AwaitsTor == joining = "prepare"

\* A join that has begun and is not over can go on, or time can, or it waits
\* for Tor: for the one that is started or for an answer of the proxy.
OnlyTor ==
    joining = "start" \/ JoinIsOver \/ AwaitsTor \/ AwaitsProxy \/ JoinCanStep \/ TickCanStep

\* No part of a join waits for anything but time, the start of Tor and the
\* proxy's answers: the dialing thread is never stuck on its own account.
THEOREM OnlyTorIsWaitedFor == Spec => []OnlyTor
  <1>1. Ongoing => OnlyTor
    <2>. SUFFICES ASSUME Ongoing, joining # "start", ~ JoinIsOver
                  PROVE  AwaitsTor \/ AwaitsProxy \/ JoinCanStep \/ TickCanStep
      BY DEF OnlyTor
    <2>1. joining \in {"prepare", "read", "connect", "tor"}
      BY DEF JoinIsOver, Ongoing, Inv, JoinInv, JoinTypeOK
    <2>2. CASE joining # "tor"
      BY <2>1, <2>2 DEF AwaitsTor, JoinCanStep, Ongoing, Going, JoinGoing
    <2>3. CASE joining = "tor"
      <3>1. dial \in Reading \cup {"retry", "sleep"}
        BY <2>3 DEF Ongoing, Going, JoinGoing
      <3>2. clock >= wake \/ clock < wake
        BY SocksAssumption DEF Ongoing, Inv, SocksInv, SocksTypeOK
      <3>. QED
        BY <2>3, <3>1, <3>2 DEF AwaitsProxy, JoinCanStep, TickCanStep
    <2>. QED
      BY <2>2, <2>3
  <1>. QED
    BY <1>1, OngoingInv, PTL

JoinBusy(k) == Work = k /\ JoinCanStep
TickBusy(k) == Work = k /\ TickCanStep
Stuck(k) == Work = k /\ AwaitsProxy
Starting(k) == Work = k /\ AwaitsTor
Less(k) == Work < k

LEMMA AllStill ==
    ASSUME UNCHANGED vars
    PROVE  UNCHANGED <<Work, JoinCanStep, TickCanStep, AwaitsProxy, AwaitsTor>>
  <1>1. /\ UNCHANGED <<hosting, joining, pasted>> /\ UNCHANGED socks
        /\ UNCHANGED <<dial, clock, wake, arrived, taken, want, shut>>
    BY DEF vars, hostVars, joinVars, socks, stream
  <1>2. HostWork(hosting') = HostWork(hosting) /\ JoinWork(joining') = JoinWork(joining)
    BY <1>1
  <1>3. Work' = Work
    BY <1>1, <1>2, SocksStill DEF Work, HostWork, JoinWork
  <1>4. Address' = Address
    BY <1>1 DEF Address
  <1>5. JoinCanStep' = JoinCanStep
    BY <1>1, <1>4 DEF JoinCanStep, HasBytes
  <1>6. TickCanStep' = TickCanStep /\ AwaitsProxy' = AwaitsProxy /\ AwaitsTor' = AwaitsTor
    BY <1>1 DEF TickCanStep, AwaitsProxy, AwaitsTor, HasBytes
  <1>. QED
    BY <1>3, <1>5, <1>6

\* A join that has begun and is not over has less work to do after a while,
\* or waits for ever, for the Tor that is started or for the proxy.  Work is a
\* natural number, so this is all of JoinEnds but the induction on it, which
\* TLC stands for.
THEOREM JoinGoesOn ==
    ASSUME NEW k \in Nat
    PROVE  FairSpec /\ []GuardsEnable =>
               (Work = k ~> \/ Work < k \/ joining = "start" \/ JoinIsOver
                            \/ []AwaitsTor \/ []AwaitsProxy)
  <1>1. Ongoing /\ Ongoing' /\ [Next]_vars =>
           /\ JoinBusy(k) => JoinBusy(k)' \/ Less(k)'
           /\ TickBusy(k) => TickBusy(k)' \/ Less(k)'
           /\ Stuck(k) => Stuck(k)' \/ Less(k)'
           /\ Starting(k) => Starting(k)' \/ Less(k)'
    <2>. SUFFICES ASSUME Ongoing, Ongoing', [Next]_vars, Work = k
                  PROVE  \/ UNCHANGED <<Work, JoinCanStep, TickCanStep, AwaitsProxy, AwaitsTor>>
                         \/ Work' < k
      BY DEF JoinBusy, TickBusy, Stuck, Starting, Less
    <2>1. CASE UNCHANGED vars
      BY <2>1, AllStill
    <2>2. CASE Next
      BY <2>2, WorkStep DEF Ongoing
    <2>. QED
      BY <2>1, <2>2
  <1>2. Ongoing /\ Ongoing' /\ <<JoinThread>>_vars => (JoinBusy(k) => Less(k)')
    BY WorkStep DEF Ongoing, Next, JoinBusy, Less
  <1>3. Ongoing /\ Ongoing' /\ <<ByTorStep(Tick)>>_vars => (TickBusy(k) => Less(k)')
    BY WorkStep DEF Ongoing, Next, TickBusy, Less
  <1>4. JoinBusy(k) /\ GuardsEnable => ENABLED <<JoinThread>>_vars
    BY DEF JoinBusy, GuardsEnable, JoinGuardEnables
  <1>5. TickBusy(k) /\ GuardsEnable => ENABLED <<ByTorStep(Tick)>>_vars
    BY DEF TickBusy, GuardsEnable, TickGuardEnables
  <1>6. OnlyTor /\ Work = k =>
            \/ JoinBusy(k) \/ TickBusy(k) \/ Stuck(k) \/ Starting(k)
            \/ joining = "start" \/ JoinIsOver
    BY DEF OnlyTor, JoinBusy, TickBusy, Stuck, Starting
  <1>7. (Stuck(k) => AwaitsProxy) /\ (Starting(k) => AwaitsTor)
    BY DEF Stuck, Starting
  <1>8. Less(k) => Work < k
    BY DEF Less
  <1>. QED
    BY <1>1, <1>2, <1>3, <1>4, <1>5, <1>6, <1>7, <1>8, OngoingInv,
       OnlyTorIsWaitedFor, PTL DEF FairSpec, Spec, Fairness
=============================================================================
