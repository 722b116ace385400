-------------------------- MODULE TorControlProofs --------------------------
(***************************************************************************)
(* Proofs about TorControl for every set of cookies, every number of       *)
(* places for them, and however much another program has to say: what the  *)
(* client reveals and believes, and what can keep it from an end.          *)
(***************************************************************************)
EXTENDS TorControl, SequenceTheorems, TLAPS

----------------------------------------------------------------------------
(* The inductive invariant.                                                *)

In(s) == {s[i] : i \in 1..Len(s)}

\* One cookie at most is read, and one at most is in a file.
OneCookie ==
    /\ \A c, d \in cookie : c = d
    /\ \A i \in 1..Files : \A c, d \in file[i] : c = d

\* Whoever shows the hash of a cookie knows it.
Knows(c) == server.cookie = {c}

HashesTrue(S) == \A line \in S : \A c \in Cookie :
    line.hash = {ServerHash(c)} => Knows(c)

\* A proof is sent after such a hash only.
ProofsSafe ==
    /\ HashesTrue(lines) /\ HashesTrue(In(toClient))
    /\ step = "prove" => \A c \in cookie : Knows(c)
    /\ ProofOnlyToKnower

\* Tor is asked one thing at a time, and its reply is read to its end.
OneAtATime ==
    /\ \A c, d \in asked : c = d
    /\ asked = {} => toClient = <<>> /\ (shut \/ toServer = <<>>)
    /\ toServer # <<>> /\ ~ shut =>
          Len(toServer) = 1 /\ toClient = <<>> /\ toServer[1] \in asked
    /\ \A line \in In(toClient) \cup lines : line.about \in asked
    /\ \A i \in 1..Len(toClient) :
          Ends(toClient[i]) \/ Error(toClient[i]) => i = Len(toClient)

\* Tor says yes to an AUTHENTICATE when it trusts the client, and the command
\* proper comes after a yes.
YesMeansTrust ==
    /\ step \in {"anonymous", "proof"} => \A c \in asked : c.verb = "AUTHENTICATE"
    /\ \A line \in In(toClient) : Ends(line) /\ line.about.verb = "AUTHENTICATE" => trusts
    /\ step \in {"command", "answer"} \/ Wanted \in In(toServer) \cup received => trusts

IInv == TypeOK /\ OneCookie /\ ProofsSafe /\ (IsTor => OneAtATime /\ YesMeansTrust)

----------------------------------------------------------------------------
(* Sequences, commands and lines.                                          *)

LEMMA AppendIn == \A S : \A s \in Seq(S) : \A x \in S :
    /\ Append(s, x) \in Seq(S)
    /\ In(Append(s, x)) = In(s) \cup {x}
  BY DEF In

LEMMA TailIn == \A S : \A s \in Seq(S) : s # <<>> =>
    /\ Tail(s) \in Seq(S)
    /\ Len(s) \in Nat /\ Len(s) >= 1 /\ Len(Tail(s)) = Len(s) - 1
    /\ Head(s) = s[1] /\ Head(s) \in S /\ Head(s) \in In(s)
    /\ \A i \in 1..Len(Tail(s)) : Tail(s)[i] = s[i + 1]
    /\ In(Tail(s)) \subseteq In(s)
  BY DEF In

LEMMA EmptyIn == In(<<>>) = {} /\ \A S : <<>> \in Seq(S)
  BY EmptySeq DEF In

LEMMA CommandTypes ==
    /\ \A v \in {"AUTHENTICATE", "AUTHCHALLENGE", "ADD_ONION", "GETINFO", "none"} :
          Command(v) \in Commands
    /\ \A c \in Cookie : Proof(c) \in Commands
    /\ \A c \in Cookie : \A v : Proof(c) # Command(v)
    /\ \A c, d \in Cookie : Proof(c) = Proof(d) => c = d
    /\ Wanted \in Commands /\ \A c \in Cookie : Wanted # Proof(c)
  <1>1. \A v \in {"AUTHENTICATE", "AUTHCHALLENGE", "ADD_ONION", "GETINFO", "none"} :
           Command(v) \in Commands
    BY DEF Command, Commands
  <1>2. \A c \in Cookie : ClientHash(c) \in Hash
    BY DEF ClientHash, Hash
  <1>3. \A c \in Cookie : Proof(c) \in Commands
    BY <1>2 DEF Proof, Commands
  <1>4. \A c : Proof(c).hash = {ClientHash(c)} /\ ClientHash(c).key = c
    BY DEF Proof, ClientHash
  <1>5. \A v : Command(v).hash = {}
    BY DEF Command
  <1>6. \A c : \A v : Proof(c) # Command(v)
    BY <1>4, <1>5
  <1>7. \A c, d : Proof(c) = Proof(d) => c = d
    <2>. SUFFICES ASSUME NEW c, NEW d, Proof(c) = Proof(d) PROVE c = d
      OBVIOUS
    <2>1. {ClientHash(c)} = {ClientHash(d)}
      BY <1>4
    <2>2. ClientHash(c) = ClientHash(d)
      BY <2>1
    <2>. QED
      BY <2>2, <1>4
  <1>8. Wanted \in Commands /\ \A c \in Cookie : Wanted # Proof(c)
    BY <1>1, <1>6 DEF Wanted
  <1>. QED
    BY <1>1, <1>3, <1>6, <1>7, <1>8

LEMMA LineTypes ==
    /\ \A code \in {"250 ", "250-", "4", "5", "text"}, c \in Commands, h \in SUBSET Hash,
          f \in BOOLEAN : Line(code, c, h, f) \in Lines
    /\ \A code, c : Plain(code, c) = Line(code, c, {}, FALSE)
    /\ \A k \in Cookie : {ServerHash(k)} \in SUBSET Hash
    /\ {ServerHash("guess")} \in SUBSET Hash
    /\ \A k, l : ServerHash(k) = ServerHash(l) => k = l
  BY DEF Line, Plain, Lines, Hash, ServerHash

LEMMA InitInv == Init => IInv
  <1>. SUFFICES ASSUME Init PROVE IInv
    OBVIOUS
  <1>1. TypeOK
    <2>1. file \in [1..Files -> SUBSET Cookie]
      BY DEF Init
    <2>. QED
      BY <2>1, EmptyIn DEF Init, TypeOK, Waiting
  <1>2. OneCookie
    BY DEF Init, OneCookie
  <1>3. ProofsSafe
    BY EmptyIn DEF Init, ProofsSafe, HashesTrue, ProofOnlyToKnower
  <1>4. OneAtATime
    BY EmptyIn DEF Init, OneAtATime
  <1>5. YesMeansTrust
    BY EmptyIn DEF Init, YesMeansTrust
  <1>. QED
    BY <1>1, <1>2, <1>3, <1>4, <1>5 DEF IInv

----------------------------------------------------------------------------
(* The client's primitives.                                                *)

\* What a step of the client leaves alone.
LEMMA OutsideKept ==
    ASSUME UNCHANGED outside
    PROVE  /\ IsTor' = IsTor /\ Wanted' = Wanted
           /\ \A c : Knows(c)' = Knows(c)
  BY DEF outside, IsTor, Wanted, Knows, Command

LEMMA WriteInv ==
    ASSUME IInv, step \notin Waiting,
           NEW c \in Commands, NEW next \in Waiting, Write(c, next),
           cookie' \in SUBSET Cookie, \A k, l \in cookie' : k = l,
           \A k \in Cookie : c = Proof(k) => Knows(k),
           next \in {"anonymous", "proof"} => c.verb = "AUTHENTICATE",
           c = Wanted \/ next = "answer" => step = "command"
    PROVE  IInv'
  <1>1. /\ step' = next /\ asked' = {c} /\ asked = {}
        /\ UNCHANGED <<outside, lines, toClient, atServer>>
        /\ toServer' = IF shut THEN toServer ELSE Append(toServer, c)
    BY DEF Write, IInv, TypeOK
  <1>2. toServer' \in Seq(Commands) /\ In(toServer') \subseteq In(toServer) \cup {c}
    BY <1>1, AppendIn DEF IInv, TypeOK
  <1>3. TypeOK'
    <2>1. asked' # {} /\ step' \in Waiting
      BY <1>1
    <2>2. {c} \in SUBSET Commands
      OBVIOUS
    <2>. QED
      BY <1>1, <1>2, <2>1, <2>2 DEF IInv, TypeOK, outside, atServer, Waiting
  <1>4. OneCookie'
    BY <1>1 DEF IInv, OneCookie, outside
  <1>5. HashesTrue(lines)' /\ HashesTrue(In(toClient))'
    BY <1>1, OutsideKept DEF IInv, ProofsSafe, HashesTrue
  <1>6. ProofOnlyToKnower'
    <2>1. \A k \in Cookie : Proof(k) \in In(toServer) \cup received => Knows(k)
      BY DEF IInv, ProofsSafe, ProofOnlyToKnower, In, Knows
    <2>2. \A k \in Cookie : Proof(k) \in In(toServer') \cup received' => Knows(k)
      BY <1>1, <1>2, <2>1 DEF atServer
    <2>. QED
      BY <2>2, <1>1 DEF ProofOnlyToKnower, In, Knows, outside
  <1>7. ProofsSafe'
    BY <1>1, <1>5, <1>6 DEF ProofsSafe, Waiting
  <1>8. ASSUME IsTor PROVE OneAtATime' /\ YesMeansTrust'
    <2>1. toClient' = <<>> /\ (shut \/ toServer = <<>>) /\ In(toClient') = {}
      BY <1>1, <1>8, EmptyIn DEF IInv, OneAtATime
    <2>2. lines' = {}
      BY <1>1 DEF IInv, TypeOK
    <2>3. shut' = shut /\ trusts' = trusts /\ received' = received
      BY <1>1 DEF atServer
    <2>4. toServer' # <<>> /\ ~ shut' => Len(toServer') = 1 /\ toServer'[1] = c
      BY <1>1, <2>1, <2>3
    <2>5. OneAtATime'
      BY <1>1, <2>1, <2>2, <2>4 DEF OneAtATime
    <2>6. YesMeansTrust'
      BY <1>1, <1>2, <1>8, <2>1, <2>3, OutsideKept, CommandTypes DEF IInv, YesMeansTrust, Waiting
    <2>. QED
      BY <2>5, <2>6
  <1>. QED
    BY <1>1, <1>3, <1>4, <1>7, <1>8, OutsideKept DEF IInv

\* A line is taken, and the reply goes on.
LEMMA ReadLineInv ==
    ASSUME IInv, ReadLine
    PROVE  IInv'
  <1>1. /\ asked # {} /\ toClient # <<>>
        /\ lines' = lines \cup {Head(toClient)} /\ toClient' = Tail(toClient)
        /\ ~ Ends(Head(toClient)) /\ ~ Error(Head(toClient))
        /\ UNCHANGED <<outside, step, asked, cookie, toServer, atServer>>
    BY DEF ReadLine, HasLine, Reply
  <1>2. /\ toClient' \in Seq(Lines) /\ lines' \in SUBSET Lines
        /\ In(toClient') \subseteq In(toClient)
        /\ lines' \subseteq lines \cup In(toClient)
    BY <1>1, TailIn, AppendIn DEF IInv, TypeOK
  <1>3. TypeOK'
    BY <1>1, <1>2 DEF IInv, TypeOK, outside, atServer
  <1>4. OneCookie'
    BY <1>1 DEF IInv, OneCookie, outside
  <1>5. ProofsSafe'
    <2>1. HashesTrue(lines)' /\ HashesTrue(In(toClient))'
      BY <1>1, <1>2, OutsideKept DEF IInv, ProofsSafe, HashesTrue
    <2>2. ProofOnlyToKnower'
      BY <1>1 DEF IInv, ProofsSafe, ProofOnlyToKnower, outside, atServer
    <2>. QED
      BY <1>1, <2>1, <2>2, OutsideKept DEF IInv, ProofsSafe
  <1>6. ASSUME IsTor PROVE OneAtATime' /\ YesMeansTrust'
    <2>1. /\ Len(toClient) \in Nat /\ Len(toClient') = Len(toClient) - 1
          /\ \A i \in 1..Len(toClient') : toClient'[i] = toClient[i + 1]
      BY <1>1, TailIn DEF IInv, TypeOK
    <2>2. \A i \in 1..Len(toClient') :
             Ends(toClient'[i]) \/ Error(toClient'[i]) => i = Len(toClient')
      BY SMTT(30), <1>6, <2>1 DEF IInv, OneAtATime
    <2>3. toServer # <<>> /\ ~ shut => FALSE
      BY <1>1, <1>6 DEF IInv, OneAtATime
    <2>4. OneAtATime'
      BY <1>1, <1>2, <1>6, <2>2, <2>3 DEF IInv, OneAtATime, atServer, Ends, Error
    <2>5. YesMeansTrust'
      BY <1>1, <1>2, <1>6, OutsideKept DEF IInv, YesMeansTrust, atServer, Ends
    <2>. QED
      BY <2>4, <2>5
  <1>. QED
    BY <1>1, <1>3, <1>4, <1>5, <1>6, OutsideKept DEF IInv

\* The client asks nothing any more: its reply has been read to its end, there
\* is no more to read, or it had not asked.
LEMMA DoneInv ==
    ASSUME IInv, NEW next \in {"cookie", "prove", "command", "done", "later", "failed"},
           Done(next),
           \/ HasLine /\ (Ends(Head(toClient)) \/ Error(Head(toClient)))
              /\ toClient' = Tail(toClient)
           \/ (ReadsNothing \/ asked = {}) /\ UNCHANGED toClient,
           next = "prove" => \A c \in cookie : Knows(c),
           IsTor /\ next = "command" => trusts
    PROVE  IInv'
  <1>1. /\ step' = next /\ asked' = {} /\ lines' = {}
        /\ UNCHANGED <<outside, cookie, toServer, atServer>>
    BY DEF Done
  <1>2. toClient' \in Seq(Lines) /\ In(toClient') \subseteq In(toClient)
    BY ZenonT(40), TailIn DEF IInv, TypeOK, HasLine
  <1>3. TypeOK'
    BY <1>1, <1>2, EmptyIn DEF IInv, TypeOK, Waiting, outside, atServer
  <1>4. OneCookie'
    BY <1>1 DEF IInv, OneCookie, outside
  <1>5. ProofsSafe'
    <2>1. HashesTrue(lines)' /\ HashesTrue(In(toClient))'
      BY <1>1, <1>2, EmptyIn, OutsideKept DEF IInv, ProofsSafe, HashesTrue
    <2>2. ProofOnlyToKnower'
      BY <1>1 DEF IInv, ProofsSafe, ProofOnlyToKnower, outside, atServer
    <2>3. step' = "prove" => \A c \in cookie' : Knows(c)'
      BY <1>1, OutsideKept
    <2>. QED
      BY <2>1, <2>2, <2>3 DEF ProofsSafe
  <1>6. ASSUME IsTor PROVE OneAtATime' /\ YesMeansTrust'
    <2>1. toClient' = <<>>
      <3>1. CASE HasLine /\ (Ends(Head(toClient)) \/ Error(Head(toClient)))
                 /\ toClient' = Tail(toClient)
        <4>1. toClient \in Seq(Lines) /\ toClient # <<>>
          BY <3>1 DEF IInv, TypeOK, HasLine
        <4>2. Len(toClient) \in Nat /\ Len(toClient) >= 1 /\ Head(toClient) = toClient[1]
          BY <4>1, TailIn
        <4>3. Len(toClient) = 1
          <5>1. Ends(toClient[1]) \/ Error(toClient[1])
            BY <3>1, <4>2
          <5>2. \A i \in 1..Len(toClient) :
                   Ends(toClient[i]) \/ Error(toClient[i]) => i = Len(toClient)
            BY <1>6 DEF IInv, OneAtATime
          <5>3. 1 \in 1..Len(toClient)
            BY <4>2
          <5>. QED
            BY <5>1, <5>2, <5>3
        <4>. QED
          BY <3>1, <4>1, <4>3
      <3>2. CASE (ReadsNothing \/ asked = {}) /\ UNCHANGED toClient
        BY <1>6, <3>2 DEF ReadsNothing, IInv, OneAtATime
      <3>. QED
        BY <3>1, <3>2
    <2>2. shut \/ toServer = <<>>
      BY <1>6 DEF IInv, OneAtATime, HasLine, ReadsNothing
    <2>3. OneAtATime'
      BY <1>1, <2>1, <2>2, EmptyIn DEF OneAtATime, atServer
    <2>4. YesMeansTrust'
      BY <1>1, <1>6, <2>1, EmptyIn, OutsideKept DEF IInv, YesMeansTrust, atServer
    <2>. QED
      BY <2>3, <2>4
  <1>. QED
    BY <1>1, <1>3, <1>4, <1>5, <1>6, OutsideKept DEF IInv

----------------------------------------------------------------------------
(* Who listens at the control address.                                     *)

\* The replies of a Tor, written out.
LEMMA Forms ==
    ASSUME NEW c \in Commands, NEW r \in Answers(c)
    PROVE  \/ r = <<Plain("5", c)>>
           \/ /\ c.verb = "AUTHENTICATE" /\ Accepts(c)
              /\ r = <<Plain("250 ", c)>>
           \/ /\ c.verb = "AUTHCHALLENGE" /\ server.kind = "cookie"
              /\ \/ r = <<Line("250 ", c, {ServerHash(k) : k \in server.cookie}, FALSE)>>
                 \/ r = <<Line("250-", c, {ServerHash(k) : k \in server.cookie}, FALSE),
                          Plain("250 ", c)>>
           \/ /\ c.verb = "GETINFO"
              /\ \E f \in BOOLEAN : r = <<Line("250-", c, {}, f), Plain("250 ", c)>>
           \/ /\ c.verb = "ADD_ONION"
              /\ r = <<Line("250-", c, {}, TRUE), Plain("250-", c), Plain("250 ", c)>>
  BY DEF Answers, Refusal

\* A line that may be in an answer to c.
Fits(line, c) ==
    /\ line \in Lines /\ line.about = c
    /\ \A k \in Cookie : line.hash = {ServerHash(k)} => Knows(k)
    /\ Ends(line) /\ c.verb = "AUTHENTICATE" => Accepts(c)

LEMMA PlainFits ==
    ASSUME NEW c \in Commands, NEW code \in {"250 ", "250-", "5"}, NEW f \in BOOLEAN,
           code = "250 " /\ c.verb = "AUTHENTICATE" => Accepts(c)
    PROVE  Fits(Line(code, c, {}, f), c)
  <1>1. Line(code, c, {}, f) \in Lines
    BY LineTypes
  <1>. QED
    BY <1>1 DEF Fits, Line, Ends

LEMMA ChallengeFits ==
    ASSUME IInv, NEW c \in Commands, NEW code \in {"250 ", "250-"},
           c.verb = "AUTHCHALLENGE", server.kind = "cookie"
    PROVE  Fits(Line(code, c, {ServerHash(k) : k \in server.cookie}, FALSE), c)
  <1>1. PICK k \in Cookie : server.cookie = {k}
    BY DEF IInv, TypeOK, Servers
  <1>2. {ServerHash(l) : l \in server.cookie} = {ServerHash(k)}
    BY <1>1
  <1>3. Line(code, c, {ServerHash(k)}, FALSE) \in Lines
    BY LineTypes
  <1>4. \A l \in Cookie : {ServerHash(k)} = {ServerHash(l)} => Knows(l)
    BY <1>1, LineTypes DEF Knows
  <1>. QED
    BY <1>2, <1>3, <1>4 DEF Fits, Line

\* A reply: lines that fit, of which the last one only ends it.
Good(r, c) ==
    /\ r \in Seq(Lines) /\ Len(r) \in Nat
    /\ \A i \in 1..Len(r) : Fits(r[i], c)
    /\ \A i \in 1..Len(r) : Ends(r[i]) \/ Error(r[i]) => i = Len(r)

LEMMA OneLine ==
    ASSUME NEW c, NEW z, Fits(z, c)
    PROVE  Good(<<z>>, c)
  <1>1. /\ <<z>> \in Seq(Lines) /\ Len(<<z>>) = 1 /\ <<z>>[1] = z
        /\ \A i \in 1..1 : i = 1
    BY DEF Fits
  <1>. QED
    BY <1>1 DEF Good

LEMMA TwoLines ==
    ASSUME NEW c, NEW x, NEW z, Fits(x, c), Fits(z, c), x.code = "250-"
    PROVE  Good(<<x, z>>, c)
  <1>1. /\ <<x, z>> \in Seq(Lines) /\ Len(<<x, z>>) = 2
        /\ <<x, z>>[1] = x /\ <<x, z>>[2] = z
        /\ \A i \in 1..2 : i = 1 \/ i = 2
    BY DEF Fits
  <1>2. ~ Ends(x) /\ ~ Error(x)
    BY DEF Ends, Error
  <1>. QED
    BY <1>1, <1>2 DEF Good

LEMMA ThreeLines ==
    ASSUME NEW c, NEW x, NEW y, NEW z, Fits(x, c), Fits(y, c), Fits(z, c),
           x.code = "250-", y.code = "250-"
    PROVE  Good(<<x, y, z>>, c)
  <1>1. /\ <<x, y, z>> \in Seq(Lines) /\ Len(<<x, y, z>>) = 3
        /\ <<x, y, z>>[1] = x /\ <<x, y, z>>[2] = y /\ <<x, y, z>>[3] = z
        /\ \A i \in 1..3 : i = 1 \/ i = 2 \/ i = 3
    BY DEF Fits
  <1>2. ~ Ends(x) /\ ~ Error(x) /\ ~ Ends(y) /\ ~ Error(y)
    BY DEF Ends, Error
  <1>. QED
    BY <1>1, <1>2 DEF Good

LEMMA AnswersFit ==
    ASSUME IInv, NEW c \in Commands, NEW r \in Answers(c)
    PROVE  Good(r, c)
  <1>. DEFINE hash == {ServerHash(k) : k \in server.cookie}
  <1>1. /\ \A code, h, f : Line(code, c, h, f).code = code
        /\ \A code : Plain(code, c).code = code
    BY DEF Line, Plain
  <1>2. \A f \in BOOLEAN : Fits(Line("250-", c, {}, f), c)
    BY PlainFits
  <1>3. Fits(Plain("250-", c), c) /\ Fits(Plain("5", c), c)
    BY PlainFits, LineTypes
  <1>4. c.verb # "AUTHENTICATE" \/ Accepts(c) => Fits(Plain("250 ", c), c)
    BY PlainFits, LineTypes
  <1>5. CASE r = <<Plain("5", c)>>
    BY <1>3, <1>5, OneLine
  <1>6. CASE c.verb = "AUTHENTICATE" /\ Accepts(c) /\ r = <<Plain("250 ", c)>>
    BY <1>4, <1>6, OneLine
  <1>7. CASE /\ c.verb = "AUTHCHALLENGE" /\ server.kind = "cookie"
             /\ r = <<Line("250 ", c, hash, FALSE)>>
    <2>1. Fits(Line("250 ", c, hash, FALSE), c)
      BY <1>7, ChallengeFits
    <2>. QED
      BY <1>7, <2>1, OneLine
  <1>8. CASE /\ c.verb = "AUTHCHALLENGE" /\ server.kind = "cookie"
             /\ r = <<Line("250-", c, hash, FALSE), Plain("250 ", c)>>
    <2>1. Fits(Line("250-", c, hash, FALSE), c)
      BY <1>8, ChallengeFits
    <2>2. Fits(Plain("250 ", c), c)
      BY <1>4, <1>8
    <2>3. Line("250-", c, hash, FALSE).code = "250-"
      BY <1>1
    <2>. HIDE DEF hash
    <2>4. Good(<<Line("250-", c, hash, FALSE), Plain("250 ", c)>>, c)
      BY <2>1, <2>2, <2>3, TwoLines
    <2>. QED
      BY <1>8, <2>4
  <1>. HIDE DEF hash
  <1>9. ASSUME c.verb = "GETINFO", NEW f \in BOOLEAN,
               r = <<Line("250-", c, {}, f), Plain("250 ", c)>>
        PROVE  Good(r, c)
    <2>1. Fits(Plain("250 ", c), c)
      BY <1>4, <1>9
    <2>. QED
      BY <1>1, <1>2, <1>9, <2>1, TwoLines
  <1>10. CASE /\ c.verb = "ADD_ONION"
              /\ r = <<Line("250-", c, {}, TRUE), Plain("250-", c), Plain("250 ", c)>>
    <2>1. Fits(Plain("250 ", c), c)
      BY <1>4, <1>10
    <2>. QED
      BY <1>1, <1>2, <1>3, <1>10, <2>1, ThreeLines
  <1>. QED
    BY <1>5, <1>6, <1>7, <1>8, <1>9, <1>10, Forms DEF hash

LEMMA HandleInv ==
    ASSUME IInv, Handle
    PROVE  IInv'
  <1>. DEFINE c == Head(toServer)
  <1>1. /\ IsTor /\ toServer # <<>> /\ ~ shut
        /\ trusts' = (trusts \/ Accepts(c)) /\ received' = received \cup {c}
        /\ toServer' = Tail(toServer)
        /\ UNCHANGED <<outside, step, asked, lines, cookie, shut>>
    BY DEF Handle
  <1>2. PICK r \in Answers(c) : toClient' = toClient \o r
    BY DEF Handle
  <1>3. c \in Commands /\ c \in In(toServer) /\ c = toServer[1]
        /\ toServer' \in Seq(Commands) /\ In(toServer') \subseteq In(toServer)
    BY <1>1, TailIn DEF IInv, TypeOK
  <1>4. Len(toServer) = 1 /\ toClient = <<>> /\ c \in asked
    BY <1>1, <1>3 DEF IInv, OneAtATime
  <1>. HIDE DEF c
  <1>5. /\ r \in Seq(Lines)
        /\ \A i \in 1..Len(r) : Fits(r[i], c)
        /\ \A i \in 1..Len(r) : Ends(r[i]) \/ Error(r[i]) => i = Len(r)
    BY <1>3, AnswersFit DEF Good
  <1>6. toClient' = r
    BY <1>2, <1>4, <1>5
  <1>7. toServer' = <<>>
    BY <1>1, <1>3, <1>4 DEF IInv, TypeOK
  <1>8. TypeOK'
    <2>1. trusts' \in BOOLEAN
      BY <1>1 DEF IInv, TypeOK
    <2>. QED
      BY <1>1, <1>3, <1>5, <1>6, <2>1 DEF IInv, TypeOK, outside
  <1>9. OneCookie'
    BY <1>1 DEF IInv, OneCookie, outside
  <1>10. ProofsSafe'
    <2>1. HashesTrue(lines)' /\ HashesTrue(In(toClient))'
      BY <1>1, <1>5, <1>6, OutsideKept DEF IInv, ProofsSafe, HashesTrue, In, Fits
    <2>2. \A k \in Cookie : Proof(k) \in In(toServer) \cup received => Knows(k)
      BY DEF IInv, ProofsSafe, ProofOnlyToKnower, In, Knows
    <2>3. \A k \in Cookie : Proof(k) \in In(toServer') \cup received' => Knows(k)
      BY <1>1, <1>3, <2>2
    <2>4. ProofOnlyToKnower'
      BY <2>3, <1>1 DEF ProofOnlyToKnower, In, Knows, outside
    <2>. QED
      BY <1>1, <2>1, <2>4, OutsideKept DEF IInv, ProofsSafe
  <1>11. OneAtATime'
    <2>1. \A line \in In(r) : line.about \in asked
      BY <1>4, <1>5 DEF In, Fits
    <2>2. \A line \in lines : line.about \in asked
      BY <1>1 DEF IInv, OneAtATime
    <2>3. \A i \in 1..Len(toClient') :
             Ends(toClient'[i]) \/ Error(toClient'[i]) => i = Len(toClient')
      BY <1>5, <1>6
    <2>4. asked' # {} /\ \A k, l \in asked' : k = l
      BY <1>1, <1>4 DEF IInv, OneAtATime
    <2>. QED
      BY <1>1, <1>6, <1>7, <2>1, <2>2, <2>3, <2>4 DEF OneAtATime, Ends, Error
  <1>12. YesMeansTrust'
    <2>1. \A line \in In(r) : Ends(line) /\ line.about.verb = "AUTHENTICATE" => Accepts(c)
      BY <1>5 DEF In, Fits
    <2>2. Wanted \in In(toServer') \cup received' => trusts
      BY <1>1, <1>3 DEF IInv, YesMeansTrust
    <2>3. step \in {"command", "answer"} => trusts
      BY <1>1 DEF IInv, YesMeansTrust
    <2>4. step \in {"anonymous", "proof"} => \A k \in asked : k.verb = "AUTHENTICATE"
      BY <1>1 DEF IInv, YesMeansTrust
    <2>. QED
      BY <1>1, <1>6, <2>1, <2>2, <2>3, <2>4, OutsideKept DEF YesMeansTrust, Ends
  <1>. QED
    BY <1>8, <1>9, <1>10, <1>11, <1>12 DEF IInv

\* Another program: none of its lines has the hash of a cookie.
LEMMA ChatInv ==
    ASSUME IInv, Chat
    PROVE  IInv'
  <1>1. /\ ~ IsTor
        /\ UNCHANGED <<outside, step, asked, lines, cookie, toServer, shut, trusts, received>>
    BY DEF Chat
  <1>2. PICK line \in Babble : toClient' = Append(toClient, line)
    BY DEF Chat
  <1>3. line \in Lines /\ (line.hash = {} \/ line.hash = {ServerHash("guess")})
    <2>1. ASSUME NEW code \in {"250 ", "250-", "5", "text"}, line = Plain(code, Command("none"))
          PROVE  line \in Lines /\ line.hash = {}
      <3>1. line = Line(code, Command("none"), {}, FALSE)
        BY <2>1, LineTypes
      <3>. QED
        BY <3>1, LineTypes, CommandTypes DEF Line
    <2>2. CASE line = Line("250 ", Command("none"), {ServerHash("guess")}, FALSE)
      <3>1. line \in Lines
        BY <2>2, LineTypes, CommandTypes
      <3>. QED
        BY <2>2, <3>1 DEF Line
    <2>3. CASE line = Line("250-", Command("none"), {}, TRUE)
      <3>1. line \in Lines
        BY <2>3, LineTypes, CommandTypes
      <3>. QED
        BY <2>3, <3>1 DEF Line
    <2>. QED
      BY <2>1, <2>2, <2>3 DEF Babble
  <1>4. \A k \in Cookie : line.hash # {ServerHash(k)}
    BY <1>3, LineTypes, ControlAssumption
  <1>5. toClient' \in Seq(Lines) /\ In(toClient') = In(toClient) \cup {line}
    BY <1>2, <1>3, AppendIn DEF IInv, TypeOK
  <1>6. TypeOK'
    BY <1>1, <1>5, ControlAssumption DEF IInv, TypeOK, outside
  <1>7. OneCookie'
    BY <1>1 DEF IInv, OneCookie, outside
  <1>8. HashesTrue(lines)' /\ HashesTrue(In(toClient))'
    BY <1>1, <1>4, <1>5, OutsideKept DEF IInv, ProofsSafe, HashesTrue
  <1>9. ProofsSafe'
    BY <1>1, <1>8, OutsideKept DEF IInv, ProofsSafe, ProofOnlyToKnower, outside
  <1>. QED
    BY <1>1, <1>6, <1>7, <1>9, OutsideKept DEF IInv

LEMMA CloseInv ==
    ASSUME IInv, Close
    PROVE  IInv'
  <1>1. /\ shut' = TRUE
        /\ UNCHANGED <<outside, step, asked, lines, cookie, toServer, toClient, trusts, received>>
    BY DEF Close
  <1>2. TypeOK' /\ OneCookie'
    BY <1>1 DEF IInv, TypeOK, OneCookie, outside
  <1>3. HashesTrue(lines)' /\ HashesTrue(In(toClient))'
    BY <1>1, OutsideKept DEF IInv, ProofsSafe, HashesTrue
  <1>4. ProofsSafe'
    BY <1>1, <1>3, OutsideKept DEF IInv, ProofsSafe, ProofOnlyToKnower, outside
  <1>5. ASSUME IsTor PROVE OneAtATime' /\ YesMeansTrust'
    BY <1>1, <1>5, OutsideKept DEF IInv, OneAtATime, YesMeansTrust, Ends, Error
  <1>. QED
    BY <1>1, <1>2, <1>4, <1>5, OutsideKept DEF IInv

----------------------------------------------------------------------------
(* The client's actions.                                                   *)

LEMMA WritesInv ==
    ASSUME IInv, Connect \/ ReadCookie \/ Prove \/ Ask
    PROVE  IInv'
  <1>. USE CommandTypes
  <1>1. \A k, l \in cookie : k = l
    BY DEF IInv, OneCookie
  <1>2. CASE Connect
    <2>1. Command("AUTHENTICATE").verb = "AUTHENTICATE" /\ Command("AUTHENTICATE") # Wanted
      BY DEF Command, Wanted
    <2>. QED
      <3>1. /\ step \notin Waiting /\ cookie' \in SUBSET Cookie
            /\ Write(Command("AUTHENTICATE"), "anonymous")
        BY <1>2 DEF Connect, Waiting, IInv, TypeOK
      <3>2. \A k, l \in cookie' : k = l
        BY <1>1, <1>2 DEF Connect
      <3>. QED
        BY <2>1, <3>1, <3>2, WriteInv DEF Waiting
  <1>3. CASE ReadCookie
    <2>1. PICK i \in FirstFile : cookie' = file[i]
      BY <1>3 DEF ReadCookie
    <2>2. cookie' \in SUBSET Cookie /\ \A k, l \in cookie' : k = l
      BY <2>1 DEF FirstFile, IInv, TypeOK, OneCookie
    <2>3. Command("AUTHCHALLENGE") # Wanted
      BY DEF Command, Wanted
    <2>. QED
      BY <1>3, <2>2, <2>3, WriteInv DEF ReadCookie, Waiting
  <1>4. CASE Prove
    <2>1. PICK c \in cookie : Write(Proof(c), "proof")
      BY <1>4 DEF Prove
    <2>2. c \in Cookie /\ Knows(c)
      BY <1>4 DEF Prove, IInv, TypeOK, ProofsSafe
    <2>3. Proof(c).verb = "AUTHENTICATE"
      BY DEF Proof
    <2>4. Proof(c) \in Commands /\ Proof(c) # Wanted
      BY <2>2
    <2>5. \A k \in Cookie : Proof(c) = Proof(k) => Knows(k)
      BY <2>2
    <2>. QED
      BY <1>1, <1>4, <2>1, <2>3, <2>4, <2>5, WriteInv DEF Prove, Waiting, IInv, TypeOK
  <1>5. CASE Ask
    BY <1>1, <1>5, WriteInv DEF Ask, Waiting, IInv, TypeOK
  <1>. QED
    BY <1>2, <1>3, <1>4, <1>5

\* A reply that ended well, or did not.
LEMMA ReturnsInv ==
    ASSUME IInv, NEW next \in {"cookie", "prove", "command", "done", "later", "failed"},
           Returns(next) \/ Fails(next),
           next = "prove" => \A c \in cookie : Knows(c),
           IsTor /\ next = "command" => trusts
    PROVE  IInv'
  BY DoneInv DEF Returns, Fails

LEMMA YesIsTrust ==
    ASSUME IInv, IsTor, step \in {"anonymous", "proof"}, HasLine, Ends(Head(toClient))
    PROVE  trusts
  <1>1. Head(toClient) \in In(toClient)
    BY TailIn DEF IInv, TypeOK, HasLine
  <1>2. Head(toClient).about \in asked
    BY <1>1 DEF IInv, OneAtATime
  <1>. QED
    BY <1>1, <1>2 DEF IInv, YesMeansTrust

\* The hash that fits comes from a server that knows the one cookie we have.
LEMMA FitMeansKnown ==
    ASSUME IInv, HasLine, HashFits
    PROVE  \A c \in cookie : Knows(c)
  <1>1. Reply \subseteq lines \cup In(toClient)
    BY TailIn DEF IInv, TypeOK, HasLine, Reply
  <1>2. PICK line \in Reply, c \in cookie : line.hash = {ServerHash(c)}
    BY DEF HashFits
  <1>3. line \in lines \cup In(toClient)
    BY <1>1
  <1>4. c \in Cookie
    BY DEF IInv, TypeOK
  <1>5. Knows(c)
    BY <1>2, <1>3, <1>4 DEF IInv, ProofsSafe, HashesTrue
  <1>. QED
    BY <1>5 DEF IInv, OneCookie

LEMMA ClientInv ==
    ASSUME IInv, Client
    PROVE  IInv'
  <1>1. CASE ConnectFails \/ CookieFails
    <2>1. asked = {} /\ Done("failed") /\ UNCHANGED toClient
      BY <1>1 DEF ConnectFails, CookieFails, IInv, TypeOK, Waiting
    <2>. QED
      BY <2>1, DoneInv
  <1>2. CASE Connect \/ ReadCookie \/ Prove \/ Ask
    BY <1>2, WritesInv
  <1>3. CASE ReadLine
    BY <1>3, ReadLineInv
  <1>4. CASE AnonymousWorks \/ ProofWorks
    <2>1. Returns("command") /\ (IsTor => trusts)
      BY <1>4, YesIsTrust DEF AnonymousWorks, ProofWorks, Returns
    <2>. QED
      BY <2>1, ReturnsInv
  <1>5. CASE AnonymousFails
    BY <1>5, ReturnsInv DEF AnonymousFails
  <1>6. CASE ServerKnows
    BY <1>6, ReturnsInv, FitMeansKnown DEF ServerKnows
  <1>7. CASE ServerDoesNot
    BY <1>7, ReturnsInv DEF ServerDoesNot
  <1>8. CASE Answered
    <2>1. Returns("done") \/ Returns("later") \/ Returns("failed")
      BY <1>8 DEF Answered
    <2>. QED
      BY <2>1, ReturnsInv
  <1>9. CASE CommandFails
    BY <1>9, ReturnsInv DEF CommandFails
  <1>. QED
    BY <1>1, <1>2, <1>3, <1>4, <1>5, <1>6, <1>7, <1>8, <1>9 DEF Client

LEMMA NextInv == IInv /\ [Next]_vars => IInv'
  <1>. SUFFICES ASSUME IInv, [Next]_vars PROVE IInv'
    OBVIOUS
  <1>1. CASE UNCHANGED vars
    <2>1. /\ UNCHANGED outside
          /\ UNCHANGED <<step, asked, lines, cookie, toServer, toClient, shut, trusts, received>>
      BY <1>1 DEF vars, atServer
    <2>2. TypeOK' /\ OneCookie'
      BY <2>1 DEF IInv, TypeOK, OneCookie, outside
    <2>3. HashesTrue(lines)' /\ HashesTrue(In(toClient))' /\ ProofOnlyToKnower'
      BY <2>1, OutsideKept DEF IInv, ProofsSafe, HashesTrue, ProofOnlyToKnower, outside
    <2>4. ProofsSafe'
      BY <2>1, <2>3, OutsideKept DEF IInv, ProofsSafe
    <2>5. ASSUME IsTor PROVE OneAtATime' /\ YesMeansTrust'
      BY <2>1, <2>5, OutsideKept DEF IInv, OneAtATime, YesMeansTrust, Ends, Error
    <2>. QED
      BY <2>1, <2>2, <2>4, <2>5, OutsideKept DEF IInv
  <1>2. CASE Client
    BY <1>2, ClientInv
  <1>3. CASE Server
    BY <1>3, HandleInv, ChatInv, CloseInv DEF Server
  <1>. QED
    BY <1>1, <1>2, <1>3 DEF Next

\* The inductive invariant, for every cookie, file and server.
THEOREM Invariance == Spec => []IInv
  BY InitInv, NextInv, PTL DEF Spec

----------------------------------------------------------------------------
(* The properties.                                                         *)

\* Every reachable state has its type: TorControl::command starts every reply
\* afresh, and reads only when it has asked.
THEOREM TypeCorrect == Spec => []TypeOK
  BY Invariance, PTL DEF IInv

\* authenticate_safe_cookie proves its cookie to nobody who does not know it,
\* whichever file it found and whoever has taken the control port.
THEOREM ProofIsSafe == Spec => []ProofOnlyToKnower
  <1>1. IInv => ProofOnlyToKnower
    BY DEF IInv, ProofsSafe
  <1>. QED
    BY <1>1, Invariance, PTL

\* The command proper reaches a Tor after it has accepted one of the two
\* authentications only.
THEOREM TorIsAskedInTrust == Spec => []AsksTrusted
  <1>1. IInv => AsksTrusted
    BY DEF IInv, YesMeansTrust, AsksTrusted
  <1>. QED
    BY <1>1, Invariance, PTL

\* A reply of a Tor is never taken for the reply to another command.
THEOREM RepliesMatch == Spec => []AnswersMatch
  <1>1. ASSUME IInv, IsTor, NEW command \in asked
        PROVE  /\ \A line \in lines : line.about = command
               /\ \A i \in 1..Len(toClient) : toClient[i].about = command
    BY <1>1 DEF IInv, OneAtATime, In
  <1>2. IInv => AnswersMatch
    BY <1>1 DEF AnswersMatch
  <1>. QED
    BY <1>2, Invariance, PTL

----------------------------------------------------------------------------
(* A connection that ends well has been answered.                          *)

\* A Tor sends lines about what it has handled only, and the last reply that
\* is read is to the command proper.
Told ==
    /\ \A line \in In(toClient) \cup lines : line.about \in received
    /\ step = "answer" => asked = {Wanted}
    /\ step \in {"done", "later"} => Wanted \in received

LEMMA ToldStep == IInv /\ (IsTor => Told) /\ [Next]_vars => (IsTor' => Told')
  <1>. SUFFICES ASSUME IInv, Told, IsTor, [Next]_vars PROVE Told'
    BY OutsideKept DEF Next, vars, Client, Server, ConnectFails, Connect, ReadLine,
       AnonymousWorks, AnonymousFails, ReadCookie, CookieFails, ServerKnows, ServerDoesNot,
       Prove, ProofWorks, Ask, Answered, CommandFails, Handle, Chat, Close, Write, Returns,
       Fails, Done
  <1>1. ASSUME NEW c, NEW next, Write(c, next), next = "answer" => c = Wanted,
               next \notin {"done", "later"}
        PROVE  Told'
    BY <1>1, OutsideKept DEF Write, Told, atServer
  <1>2. ASSUME NEW next, Done(next), next # "answer",
               toClient' = toClient \/ (toClient # <<>> /\ toClient' = Tail(toClient)),
               next \in {"done", "later"} => Wanted \in received
        PROVE  Told'
    <2>1. In(toClient') \subseteq In(toClient)
      BY <1>2, TailIn DEF IInv, TypeOK
    <2>. QED
      BY <1>2, <2>1, OutsideKept, EmptyIn DEF Done, Told, atServer
  <1>3. ASSUME NEW next, Returns(next) \/ Fails(next)
        PROVE  /\ Done(next)
               /\ toClient' = toClient \/ (toClient # <<>> /\ toClient' = Tail(toClient))
    BY <1>3 DEF Returns, Fails, HasLine
  <1>4. CASE Connect \/ ReadCookie \/ Prove \/ Ask
    BY <1>1, <1>4 DEF Connect, ReadCookie, Prove, Ask
  <1>5. CASE ConnectFails \/ CookieFails
    BY <1>2, <1>5 DEF ConnectFails, CookieFails
  <1>6. CASE AnonymousWorks \/ AnonymousFails \/ ServerKnows \/ ServerDoesNot \/ ProofWorks
    BY <1>2, <1>3, <1>6
       DEF AnonymousWorks, AnonymousFails, ServerKnows, ServerDoesNot, ProofWorks
  <1>7. CASE CommandFails
    BY <1>2, <1>3, <1>7 DEF CommandFails
  <1>8. CASE ReadLine
    <2>1. /\ In(toClient') \subseteq In(toClient)
          /\ lines' \subseteq lines \cup In(toClient)
      BY <1>8, TailIn, AppendIn DEF ReadLine, HasLine, Reply, IInv, TypeOK
    <2>. QED
      BY <1>8, <2>1, OutsideKept DEF ReadLine, Told, atServer
  <1>9. CASE Answered
    <2>1. Head(toClient) \in In(toClient)
      BY <1>9, TailIn DEF Answered, HasLine, IInv, TypeOK
    <2>2. Head(toClient).about \in received /\ Head(toClient).about \in asked
      BY <2>1 DEF Told, IInv, OneAtATime
    <2>3. Wanted \in received
      BY <1>9, <2>2 DEF Answered, Told
    <2>4. PICK next \in {"done", "later", "failed"} : Returns(next)
      BY <1>9 DEF Answered
    <2>. QED
      BY <1>2, <1>3, <2>3, <2>4
  <1>10. CASE Handle
    <2>1. PICK reply \in Answers(Head(toServer)) : toClient' = toClient \o reply
      BY <1>10 DEF Handle
    <2>2. Head(toServer) \in Commands /\ received' = received \cup {Head(toServer)}
      BY <1>10, TailIn DEF Handle, IInv, TypeOK
    <2>3. /\ reply \in Seq(Lines) /\ toClient \in Seq(Lines)
          /\ \A i \in 1..Len(reply) : reply[i].about = Head(toServer)
      BY <2>1, <2>2, AnswersFit DEF Good, Fits, IInv, TypeOK
    <2>4. In(toClient') \subseteq In(toClient) \cup In(reply)
      BY <2>1, <2>3 DEF In
    <2>5. \A line \in In(reply) : line.about = Head(toServer)
      BY <2>3 DEF In
    <2>. QED
      BY <1>10, <2>2, <2>4, <2>5, OutsideKept DEF Handle, Told
  <1>11. CASE Chat
    BY <1>11 DEF Chat
  <1>12. CASE Close \/ UNCHANGED vars
    BY <1>12, OutsideKept DEF Close, vars, atServer, Told
  <1>. QED
    BY <1>4, <1>5, <1>6, <1>7, <1>8, <1>9, <1>10, <1>11, <1>12 DEF Next, Client, Server

SuccessIsTold == IsTor /\ step \in {"done", "later"} => trusts /\ Wanted \in received

\* What publish_onion_service and wait_for_bootstrap report of a Tor, it has
\* said itself: it has accepted an authentication and handled the command,
\* whatever it refused before.
THEOREM SuccessIsNotInvented == Spec => []SuccessIsTold
  <1>1. Init => Told
    BY EmptyIn DEF Init, Told
  <1>2. IInv /\ (IsTor => Told) => SuccessIsTold
    BY DEF IInv, YesMeansTrust, Told, SuccessIsTold
  <1>. QED
    BY <1>1, <1>2, ToldStep, Invariance, PTL DEF Spec

----------------------------------------------------------------------------
(* The work of a connection runs out.                                      *)

\* How many times the client may go on to another step.
StepsLeft == CASE step = "connect"   -> 8
               [] step = "anonymous" -> 7
               [] step = "cookie"    -> 6
               [] step = "challenge" -> 5
               [] step = "prove"     -> 4
               [] step = "proof"     -> 3
               [] step = "command"   -> 2
               [] step = "answer"    -> 1
               [] OTHER              -> 0

\* A step may write one command, which makes three lines of a Tor at most, and
\* the server may close the connection.
Work == 5 * StepsLeft + 4 * Len(toServer) + Len(toClient) + (IF shut THEN 0 ELSE 1)

WorkTypes ==
    /\ StepsLeft \in 0..8 /\ Len(toServer) \in Nat /\ Len(toClient) \in Nat
    /\ shut \in BOOLEAN
    /\ Work \in Nat

LEMMA WorkTyped == IInv => WorkTypes
  <1>. SUFFICES ASSUME TypeOK PROVE WorkTypes
    BY DEF IInv
  <1>1. StepsLeft \in 0..8
    BY DEF StepsLeft
  <1>2. Len(toServer) \in Nat /\ Len(toClient) \in Nat
    BY DEF TypeOK
  <1>3. shut \in BOOLEAN
    BY DEF TypeOK
  <1>4. Work \in Nat
    BY <1>1, <1>2, <1>3 DEF Work
  <1>. QED
    BY <1>1, <1>2, <1>3, <1>4 DEF WorkTypes

\* The client writes at most one command on its way to a later step.
LEMMA ClientWorks ==
    ASSUME IInv, Client
    PROVE  /\ shut' = shut
           /\ \/ StepsLeft' <= StepsLeft - 1 /\ Len(toServer') <= Len(toServer) + 1
              \/ StepsLeft' = StepsLeft /\ toServer' = toServer /\ toClient # <<>>
           /\ toClient' = toClient \/ (toClient # <<>> /\ toClient' = Tail(toClient))
           /\ StepsLeft' = StepsLeft => toClient' = Tail(toClient)
  <1>. USE DEF StepsLeft
  <1>0. /\ Len(toServer) \in Nat
        /\ \A c \in Commands : Len(Append(toServer, c)) = Len(toServer) + 1
    BY DEF IInv, TypeOK
  <1>1. ASSUME NEW c \in Commands, NEW next, Write(c, next)
        PROVE  /\ shut' = shut /\ toClient' = toClient
               /\ step' = next /\ Len(toServer') <= Len(toServer) + 1
    BY <1>0, <1>1 DEF Write, atServer
  <1>2. ASSUME NEW next, Done(next)
        PROVE  /\ shut' = shut
               /\ step' = next /\ toServer' = toServer /\ Len(toServer') <= Len(toServer) + 1
    BY <1>0, <1>2 DEF Done, atServer
  <1>3. ASSUME NEW next, Returns(next) \/ Fails(next)
        PROVE  /\ Done(next)
               /\ toClient' = toClient \/ (toClient # <<>> /\ toClient' = Tail(toClient))
    BY <1>3 DEF Returns, Fails, HasLine
  <1>4. CASE ConnectFails \/ CookieFails
    BY <1>2, <1>4 DEF ConnectFails, CookieFails
  <1>5. CASE Connect \/ ReadCookie \/ Ask
    BY <1>1, <1>5, CommandTypes DEF Connect, ReadCookie, Ask
  <1>6. CASE Prove
    <2>1. PICK c \in cookie : Write(Proof(c), "proof")
      BY <1>6 DEF Prove
    <2>2. Proof(c) \in Commands
      BY CommandTypes DEF IInv, TypeOK
    <2>. QED
      BY <1>1, <1>6, <2>1, <2>2 DEF Prove
  <1>7. CASE ReadLine
    BY <1>7 DEF ReadLine, HasLine, atServer
  <1>8. CASE AnonymousWorks \/ AnonymousFails \/ ServerKnows \/ ServerDoesNot \/ ProofWorks
    BY <1>2, <1>3, <1>8
       DEF AnonymousWorks, AnonymousFails, ServerKnows, ServerDoesNot, ProofWorks
  <1>9. CASE Answered
    <2>1. PICK next \in {"done", "later", "failed"} : Returns(next)
      BY <1>9 DEF Answered
    <2>. QED
      BY <1>2, <1>3, <1>9, <2>1 DEF Answered
  <1>10. CASE CommandFails
    BY <1>2, <1>3, <1>10 DEF CommandFails
  <1>. QED
    BY <1>4, <1>5, <1>6, <1>7, <1>8, <1>9, <1>10 DEF Client

LEMMA ShortAnswers ==
    ASSUME NEW c \in Commands, NEW r \in Answers(c), IInv
    PROVE  r \in Seq(Lines) /\ Len(r) <= 3
  <1>1. r \in Seq(Lines)
    BY AnswersFit DEF Good
  <1>2. /\ \A x, y, z : Len(<<x>>) = 1 /\ Len(<<x, y>>) = 2 /\ Len(<<x, y, z>>) = 3
    OBVIOUS
  <1>3. Len(r) = 1 \/ Len(r) = 2 \/ Len(r) = 3
    BY <1>2, Forms, Zenon
  <1>4. 1 <= 3 /\ 2 <= 3 /\ 3 <= 3
    OBVIOUS
  <1>. QED
    BY <1>1, <1>3, <1>4, Zenon

LEMMA ServerWorks ==
    ASSUME IInv, Server
    PROVE  \/ Chat
           \/ /\ Len(toServer') = Len(toServer) - 1 /\ Len(toClient') <= Len(toClient) + 3
              /\ step' = step /\ shut' = shut
           \/ /\ toServer' = toServer /\ toClient' = toClient
              /\ step' = step /\ shut = FALSE /\ shut' = TRUE
  <1>1. CASE Handle
    <2>1. PICK reply \in Answers(Head(toServer)) : toClient' = toClient \o reply
      BY <1>1 DEF Handle
    <2>2. toServer # <<>> /\ toServer' = Tail(toServer) /\ UNCHANGED <<step, shut>>
      BY <1>1 DEF Handle
    <2>3. Head(toServer) \in Commands /\ Len(toServer') = Len(toServer) - 1
      BY <2>2, TailIn DEF IInv, TypeOK
    <2>4. reply \in Seq(Lines) /\ Len(reply) <= 3 /\ toClient \in Seq(Lines)
      BY <2>1, <2>3, ShortAnswers DEF IInv, TypeOK
    <2>5. Len(toClient') = Len(toClient) + Len(reply)
      BY <2>1, <2>4
    <2>6. Len(toClient') <= Len(toClient) + 3
      BY <2>4, <2>5
    <2>. QED
      BY <2>2, <2>3, <2>6
  <1>3. CASE Close
    BY <1>3 DEF Close, IInv, TypeOK
  <1>. QED
    BY <1>1, <1>3 DEF Server

Sum(s, p, q, open) == 5 * s + 4 * p + q + open

LEMMA SumFalls ==
    ASSUME NEW s \in Nat, NEW p \in Nat, NEW q \in Nat, NEW o \in Nat,
           NEW t \in Nat, NEW u \in Nat, NEW v \in Nat, NEW x \in Nat,
           \/ t <= s - 1 /\ u <= p + 1 /\ v <= q /\ x = o
           \/ t = s /\ u = p /\ v = q - 1 /\ x = o
           \/ t = s /\ u = p - 1 /\ v <= q + 3 /\ x = o
           \/ t = s /\ u = p /\ v = q /\ o = 1 /\ x = 0
    PROVE  Sum(t, u, v, x) < Sum(s, p, q, o)
  BY DEF Sum

LEMMA WorkStep == IInv /\ [Next]_vars => UNCHANGED vars \/ Chat \/ Work' < Work
  <1>. SUFFICES ASSUME IInv, Next, ~ Chat PROVE Work' < Work
    OBVIOUS
  <1>1. WorkTypes /\ WorkTypes'
    BY WorkTyped, NextInv, PTL
  <1>. DEFINE open == IF shut THEN 0 ELSE 1
  <1>2. /\ Work = Sum(StepsLeft, Len(toServer), Len(toClient), open)
        /\ Work' = Sum(StepsLeft', Len(toServer'), Len(toClient'), open')
    BY DEF Work, Sum
  <1>3. /\ StepsLeft \in Nat /\ Len(toServer) \in Nat /\ Len(toClient) \in Nat
        /\ StepsLeft' \in Nat /\ Len(toServer') \in Nat /\ Len(toClient') \in Nat
    BY <1>1 DEF WorkTypes
  <1>4. /\ open \in {0, 1} /\ open' \in {0, 1}
        /\ shut' = shut => open' = open
        /\ shut = FALSE /\ shut' = TRUE => open = 1 /\ open' = 0
    OBVIOUS
  <1>. HIDE DEF open
  <1>5. CASE Client
    <2>1. /\ shut' = shut
          /\ \/ StepsLeft' <= StepsLeft - 1 /\ Len(toServer') <= Len(toServer) + 1
             \/ StepsLeft' = StepsLeft /\ toServer' = toServer /\ toClient # <<>>
          /\ toClient' = toClient \/ (toClient # <<>> /\ toClient' = Tail(toClient))
          /\ StepsLeft' = StepsLeft => toClient' = Tail(toClient)
      BY <1>5, ClientWorks
    <2>2. toClient # <<>> => Len(Tail(toClient)) = Len(toClient) - 1
      BY TailIn DEF IInv, TypeOK
    <2>3. \/ StepsLeft' <= StepsLeft - 1 /\ Len(toServer') <= Len(toServer) + 1
             /\ Len(toClient') <= Len(toClient)
          \/ StepsLeft' = StepsLeft /\ Len(toServer') = Len(toServer)
             /\ Len(toClient') = Len(toClient) - 1
      BY <1>1, <2>1, <2>2 DEF WorkTypes
    <2>4. Sum(StepsLeft', Len(toServer'), Len(toClient'), open')
             < Sum(StepsLeft, Len(toServer), Len(toClient), open)
      BY ZenonT(40), <1>3, <1>4, <2>1, <2>3, SumFalls
    <2>. QED
      BY <1>2, <2>4
  <1>6. CASE Server
    <2>1. step' = step => StepsLeft' = StepsLeft
      BY DEF StepsLeft
    <2>2. /\ StepsLeft' = StepsLeft
          /\ \/ /\ Len(toServer') = Len(toServer) - 1 /\ Len(toClient') <= Len(toClient) + 3
                /\ open' = open
             \/ /\ Len(toServer') = Len(toServer) /\ Len(toClient') = Len(toClient)
                /\ open = 1 /\ open' = 0
      BY <1>4, <1>6, <2>1, ServerWorks
    <2>3. Sum(StepsLeft', Len(toServer'), Len(toClient'), open')
             < Sum(StepsLeft, Len(toServer), Len(toClient), open)
      BY ZenonT(40), <1>3, <1>4, <2>2, SumFalls
    <2>. QED
      BY <1>2, <2>3
  <1>. QED
    BY <1>5, <1>6 DEF Next

\* Each step of authenticate and the command after it lessens the work that is
\* left, whatever the server does, but for the lines that another program
\* sends: of those `command` reads as many as there are.
THEOREM WorkFalls == Spec => [][Chat \/ Work' < Work]_vars
  BY WorkStep, Invariance, PTL DEF Spec

TorWork == Work \in Nat /\ (IsTor => Work <= 41)

\* With a Tor, of whatever kind, authenticate and the command after it take 41
\* steps of both at most: no refusal and no reply starts anything over.
THEOREM WorkIsBounded == Spec => []TorWork
  <1>1. Init => TorWork
    <2>. SUFFICES ASSUME Init PROVE TorWork
      OBVIOUS
    <2>1. StepsLeft = 8 /\ Len(toServer) = 0 /\ Len(toClient) = 0 /\ ~ shut
      BY DEF Init, StepsLeft
    <2>. QED
      BY <2>1 DEF Work, TorWork
  <1>2. IInv /\ TorWork /\ [Next]_vars => TorWork'
    <2>. SUFFICES ASSUME IInv, TorWork, [Next]_vars PROVE TorWork'
      OBVIOUS
    <2>1. WorkTypes /\ WorkTypes'
      BY WorkTyped, NextInv, PTL
    <2>2. IsTor' = IsTor
      BY OutsideKept DEF Next, vars, Client, Server, ConnectFails, Connect, ReadLine,
         AnonymousWorks, AnonymousFails, ReadCookie, CookieFails, ServerKnows, ServerDoesNot,
         Prove, ProofWorks, Ask, Answered, CommandFails, Handle, Chat, Close, Write, Returns,
         Fails, Done
    <2>3. IsTor => Work' = Work \/ Work' < Work
      BY WorkStep DEF vars, atServer, Work, StepsLeft, Chat
    <2>. QED
      BY <2>1, <2>2, <2>3 DEF WorkTypes, TorWork
  <1>. QED
    BY <1>1, <1>2, Invariance, PTL DEF Spec

----------------------------------------------------------------------------
(* The client does not stop before its end, unless the server keeps it     *)
(* waiting.  TLAPS does not reason about ENABLED: that the client's thread *)
(* can run when its guard holds is the premise GuardsEnable.               *)

\* A client that is about to prove its cookie has one.
HasCookie == step = "prove" => cookie # {}

LEMMA CookieAlways == Spec => []HasCookie
  <1>1. Init => HasCookie
    BY DEF Init, HasCookie
  <1>2. HasCookie /\ [Next]_vars => HasCookie'
    <2>. SUFFICES ASSUME HasCookie, [Next]_vars PROVE HasCookie'
      OBVIOUS
    <2>1. CASE ServerKnows
      BY <2>1 DEF ServerKnows, HashFits, Returns, Done, HasCookie
    <2>2. CASE Client /\ ~ ServerKnows
      BY <2>2 DEF Client, ConnectFails, Connect, ReadLine, AnonymousWorks, AnonymousFails,
         ReadCookie, CookieFails, ServerDoesNot, Prove, ProofWorks, Ask, Answered, CommandFails,
         Write, Returns, Fails, Done, HasCookie
    <2>3. CASE Server \/ UNCHANGED vars
      BY <2>3 DEF Server, Handle, Chat, Close, vars, HasCookie
    <2>. QED
      BY <2>1, <2>2, <2>3 DEF Next
  <1>. QED
    BY <1>1, <1>2, PTL DEF Spec

\* Nobody waits for anything but the server.
NobodyWaits == Over \/ AwaitsServer \/ ClientCanStep

\* A connection that is not over can go on by itself, unless the server keeps
\* it open and silent: no other state of `command` stops its thread.
THEOREM OnlyTheServerIsWaitedFor == Spec => []NobodyWaits
  <1>1. TypeOK /\ HasCookie => NobodyWaits
    BY DEF TypeOK, HasCookie, NobodyWaits, Over, AwaitsServer, ClientCanStep, HasLine,
       ReadsNothing, Waiting
  <1>. QED
    BY <1>1, TypeCorrect, CookieAlways, PTL

Busy(k) == Work = k /\ ~ Over /\ ~ AwaitsServer
Stuck(k) == Work = k /\ AwaitsServer
Less(k) == Work < k

\* A server that no longer sends lines unasked, which a Tor never does: until
\* the connection is over the work that is left becomes less, whatever it is,
\* or the server is waited for for ever.  Work is a natural number, so this is
\* all of ControlEnds but the induction on it, which TLC stands for.
THEOREM WorkGoesOn ==
    ASSUME NEW k \in Nat
    PROVE  FairSpec /\ []GuardsEnable /\ <>[][~ Chat]_vars =>
               <>[](Work = k => <>(Work < k \/ Over \/ []AwaitsServer))
  <1>1. IInv /\ [Next]_vars /\ [~ Chat]_vars =>
           /\ Busy(k) => Busy(k)' \/ Less(k)'
           /\ Stuck(k) => Stuck(k)' \/ Less(k)'
    <2>1. UNCHANGED vars => UNCHANGED <<Work, Over, AwaitsServer>>
      BY DEF vars, atServer, Work, StepsLeft, Over, AwaitsServer
    <2>. QED
      BY <2>1, WorkStep DEF Busy, Stuck, Less
  <1>2. IInv /\ <<Client>>_vars /\ [~ Chat]_vars => (Busy(k) => Less(k)')
    BY WorkStep DEF Next, Busy, Less
  <1>3. Busy(k) /\ NobodyWaits /\ GuardsEnable => ENABLED <<Client>>_vars
    BY DEF Busy, NobodyWaits, GuardsEnable
  <1>4. Work = k => Busy(k) \/ Stuck(k) \/ Over
    BY DEF Busy, Stuck
  <1>5. Stuck(k) => AwaitsServer
    BY DEF Stuck
  <1>6. Less(k) => Work < k
    BY DEF Less
  <1>. QED
    BY <1>1, <1>2, <1>3, <1>4, <1>5, <1>6, Invariance, OnlyTheServerIsWaitedFor, PTL
       DEF FairSpec, Spec
=============================================================================
