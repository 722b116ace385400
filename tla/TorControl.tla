----------------------------- MODULE TorControl -----------------------------
(***************************************************************************)
(* One control connection, as publish_onion_service and wait_for_bootstrap *)
(* use it: connect, authenticate, one command, and the connection is gone. *)
(* `command` writes a line and reads lines up to one that begins with      *)
(* "250 ", 4 or 5; a read has no time limit.                               *)
(*                                                                         *)
(* Authentication is tried without a secret first.  If that fails, for     *)
(* whatever reason, the connection goes on with SAFECOOKIE: the cookie is  *)
(* the first file found at the known places, which may be another Tor's;   *)
(* the server has to show that it knows the cookie before the client does. *)
(*                                                                         *)
(* Who listens at the control address is external: a Tor that asks for     *)
(* nothing ("open"), one that wants its cookie, one that takes neither     *)
(* ("closed"), or another program that sends lines of its own ("other"),   *)
(* as many as it likes.  It may close the connection at any time, after a  *)
(* refusal above all.  A program that relays what a Tor answers is not     *)
(* among them.                                                             *)
(***************************************************************************)
EXTENDS Naturals, Sequences

CONSTANTS
    Cookie,     \* the contents that cookie files may have
    Files,      \* number of the places where a cookie file is looked for
    Window      \* how many lines of another program are under way at once

ASSUME ControlAssumption == Files \in Nat /\ Window \in Nat /\ "guess" \notin Cookie

VARIABLES
    server,     \* who listens: its kind and the cookie it knows
    file,       \* file[i]: the cookie at the i-th place, {} without a file
    purpose,    \* what the connection is for
    step,       \* where the client is
    asked,      \* the command whose reply it reads: {} or one command
    lines,      \* the lines of that reply read so far, a set
    cookie,     \* what read_control_cookie returned: {} or one cookie
    toServer,   \* commands written and not handled
    toClient,   \* lines sent and not read
    shut,       \* the server has closed the connection
    trusts,     \* the server has accepted an authentication
    received    \* every command the server has handled

outside == <<server, file, purpose>>
atServer == <<shut, trusts, received>>
vars == <<outside, step, asked, lines, cookie, toServer, toClient, atServer>>

Command(verb) == [verb |-> verb, hash |-> {}]

\* The HMAC of either side; both nonces are fresh, and left out.
ServerHash(c) == [side |-> "server", key |-> c]
ClientHash(c) == [side |-> "client", key |-> c]

Proof(c) == [verb |-> "AUTHENTICATE", hash |-> {ClientHash(c)}]

Wanted == Command(IF purpose = "publish" THEN "ADD_ONION" ELSE "GETINFO")

\* A line: how it begins, the command it answers, the server's hash in it, and
\* whether it has the service id or PROGRESS=100.
Line(code, about, hash, found) ==
    [code |-> code, about |-> about, hash |-> hash, found |-> found]

Plain(code, about) == Line(code, about, {}, FALSE)

Servers == [kind : {"open", "closed", "other"}, cookie : {{}}]
           \cup [kind : {"cookie"}, cookie : {{c} : c \in Cookie}]

Init ==
    /\ server \in Servers
    /\ file \in [1..Files -> {{c} : c \in Cookie} \cup {{}}]
    /\ purpose \in {"publish", "bootstrap"}
    /\ step = "connect"
    /\ asked = {} /\ lines = {} /\ cookie = {}
    /\ toServer = <<>> /\ toClient = <<>>
    /\ shut = FALSE /\ trusts = FALSE /\ received = {}

----------------------------------------------------------------------------
(* The client: `command`, by its parts.                                    *)

Error(line) == line.code \in {"4", "5"}

\* Mutant: any line with the code 250 ends a reply.
EndsAtFirst(line) == line.code \in {"250 ", "250-"}

Ends(line) == line.code = "250 "

HasLine == asked # {} /\ toClient # <<>>

\* The lines that command() returns, the last one included.  Nobody asks for
\* their order, or how often a line is among them.
Reply == lines \cup {Head(toClient)}

\* The three writes are one step.  On a connection that has been closed they
\* fail or are lost, and if they are, the first read fails.
Write(command, next) ==
    /\ step' = next
    /\ asked' = {command}
    /\ toServer' = IF shut THEN toServer ELSE Append(toServer, command)
    /\ UNCHANGED <<outside, lines, toClient, atServer>>

ReadLine ==
    /\ HasLine
    /\ ~ Ends(Head(toClient)) /\ ~ Error(Head(toClient))
    /\ lines' = Reply
    /\ toClient' = Tail(toClient)
    /\ UNCHANGED <<outside, step, asked, cookie, toServer, atServer>>

\* Mutant: the lines of a reply are kept for the next one.
DoneKeeping(next) ==
    /\ step' = next
    /\ asked' = {}
    /\ UNCHANGED <<outside, lines, cookie, toServer, atServer>>

Done(next) ==
    /\ step' = next
    /\ asked' = {} /\ lines' = {}
    /\ UNCHANGED <<outside, cookie, toServer, atServer>>

Returns(next) ==
    HasLine /\ Ends(Head(toClient)) /\ toClient' = Tail(toClient) /\ Done(next)

\* Mutant: a read of 0 bytes is an empty line.
NeverOver == FALSE

ReadsNothing == asked # {} /\ toClient = <<>> /\ shut

Fails(next) ==
    /\ \/ HasLine /\ Error(Head(toClient)) /\ toClient' = Tail(toClient)
       \/ ReadsNothing /\ UNCHANGED toClient
    /\ Done(next)

----------------------------------------------------------------------------
(* The client: authenticate, and the command it is there for.              *)

ConnectFails == step = "connect" /\ Done("failed") /\ UNCHANGED toClient

Connect ==
    /\ step = "connect"
    /\ Write(Command("AUTHENTICATE"), "anonymous")
    /\ UNCHANGED cookie

AnonymousWorks == step = "anonymous" /\ Returns("command")

\* Mutant: the result of the first AUTHENTICATE is not looked at.
AnonymousIgnored == step = "anonymous" /\ Fails("command")

AnonymousFails == step = "anonymous" /\ Fails("cookie")

\* read_control_cookie: the first file that exists, if it can be read.
FirstFile == {i \in 1..Files : file[i] # {} /\ \A j \in 1..(i - 1) : file[j] = {}}

ReadCookie ==
    /\ step = "cookie"
    /\ \E i \in FirstFile : cookie' = file[i]
    /\ Write(Command("AUTHCHALLENGE"), "challenge")

CookieFails == step = "cookie" /\ Done("failed") /\ UNCHANGED toClient

\* Mutant: the server's hash is read and not compared.
AnyHash == \E line \in Reply : line.hash # {}

\* SERVERHASH= is the hash of the cookie we have read.
HashFits == \E line \in Reply : \E c \in cookie : line.hash = {ServerHash(c)}

ServerKnows == step = "challenge" /\ HasLine /\ HashFits /\ Returns("prove")

\* No field in the reply, or the hash of another cookie.
ServerDoesNot == step = "challenge" /\ HasLine /\ ~ HashFits /\ Returns("failed")

Prove ==
    /\ step = "prove"
    /\ \E c \in cookie : Write(Proof(c), "proof")
    /\ UNCHANGED cookie

ProofWorks == step = "proof" /\ Returns("command")

Ask == step = "command" /\ Write(Wanted, "answer") /\ UNCHANGED cookie

Found == \E line \in Reply : line.found

\* "later": the bootstrap is under way; its caller sleeps and connects anew.
Answered ==
    /\ step = "answer"
    /\ HasLine
    /\ Returns(CASE Found                 -> "done"
                 [] purpose = "bootstrap" -> "later"
                 [] OTHER                 -> "failed")

CommandFails == step \in {"challenge", "proof", "answer"} /\ Fails("failed")

----------------------------------------------------------------------------
(* Who listens at the control address.                                     *)

IsTor == server.kind # "other"

Accepts(c) ==
    /\ c.verb = "AUTHENTICATE"
    /\ \/ server.kind = "open"
       \/ server.kind = "cookie" /\ \E k \in server.cookie : c.hash = {ClientHash(k)}

Refusal(c) == <<Plain("5", c)>>

\* The replies of a Tor to command c, whether it has one line or several.
Answers(c) ==
    CASE c.verb = "AUTHENTICATE" -> {IF Accepts(c) THEN <<Plain("250 ", c)>> ELSE Refusal(c)}
      [] c.verb = "AUTHCHALLENGE" /\ server.kind = "cookie" ->
            LET hash == {ServerHash(k) : k \in server.cookie}
            IN {<<Line("250 ", c, hash, FALSE)>>,
                <<Line("250-", c, hash, FALSE), Plain("250 ", c)>>}
      [] c.verb = "GETINFO" /\ trusts ->
            {<<Line("250-", c, {}, ready), Plain("250 ", c)>> : ready \in BOOLEAN}
      [] c.verb = "ADD_ONION" /\ trusts ->
            {<<Line("250-", c, {}, TRUE), Plain("250-", c), Plain("250 ", c)>>, Refusal(c)}
      [] OTHER -> {Refusal(c)}

Handle ==
    /\ IsTor
    /\ toServer # <<>> /\ ~ shut
    /\ LET c == Head(toServer)
       IN /\ \E reply \in Answers(c) : toClient' = toClient \o reply
          /\ trusts' = (trusts \/ Accepts(c))
          /\ received' = received \cup {c}
    /\ toServer' = Tail(toServer)
    /\ UNCHANGED <<outside, step, asked, lines, cookie, shut>>

Over == step \in {"done", "later", "failed"}

\* Another program sends lines of its own: some look like a reply.
Babble == {Plain(code, Command("none")) : code \in {"250 ", "250-", "5", "text"}}
          \cup {Line("250 ", Command("none"), {ServerHash("guess")}, FALSE),
                Line("250-", Command("none"), {}, TRUE)}

Chat ==
    /\ ~ IsTor /\ ~ shut
    /\ step # "connect" /\ ~ Over
    /\ Len(toClient) < Window
    /\ \E line \in Babble : toClient' = Append(toClient, line)
    /\ UNCHANGED <<outside, step, asked, lines, cookie, toServer, shut, trusts, received>>

Close ==
    /\ step # "connect" /\ ~ Over
    /\ ~ shut
    /\ shut' = TRUE
    /\ UNCHANGED <<outside, step, asked, lines, cookie, toServer, toClient, trusts, received>>

----------------------------------------------------------------------------
Client ==
    \/ ConnectFails \/ Connect \/ ReadLine
    \/ AnonymousWorks \/ AnonymousFails \/ ReadCookie \/ CookieFails
    \/ ServerKnows \/ ServerDoesNot \/ Prove \/ ProofWorks
    \/ Ask \/ Answered \/ CommandFails

Server == Handle \/ Chat \/ Close

Next == Client \/ Server

Spec == Init /\ [][Next]_vars

\* The thread of the client runs; whoever listens need not answer.
FairSpec == Spec /\ WF_vars(Client)

\* What the client waits for, without what it does then: a line or the end of
\* the connection, once it has asked.
ClientCanStep ==
    \/ step \in {"connect", "cookie", "command"}
    \/ step = "prove" /\ cookie # {}
    \/ HasLine \/ ReadsNothing

GuardsEnable == ClientCanStep => ENABLED <<Client>>_vars

----------------------------------------------------------------------------
(* Properties.                                                             *)

Hash == [side : {"server", "client"}, key : Cookie \cup {"guess"}]

Commands == [verb : {"AUTHENTICATE", "AUTHCHALLENGE", "ADD_ONION", "GETINFO", "none"},
             hash : SUBSET Hash]

Lines == [code : {"250 ", "250-", "4", "5", "text"}, about : Commands,
          hash : SUBSET Hash, found : BOOLEAN]

Waiting == {"anonymous", "challenge", "proof", "answer"}

\* Every variable has its type, the client reads when it has asked, and a
\* reply begins with no lines of the one before.
TypeOK ==
    /\ server \in Servers
    /\ file \in [1..Files -> SUBSET Cookie]
    /\ purpose \in {"publish", "bootstrap"}
    /\ step \in Waiting \cup {"connect", "cookie", "prove", "command", "done", "later", "failed"}
    /\ asked \in SUBSET Commands
    /\ asked # {} <=> step \in Waiting
    /\ lines \in SUBSET Lines
    /\ asked = {} => lines = {}
    /\ cookie \in SUBSET Cookie
    /\ toServer \in Seq(Commands)
    /\ toClient \in Seq(Lines)
    /\ shut \in BOOLEAN /\ trusts \in BOOLEAN
    /\ received \in SUBSET Commands

\* The proof of a cookie, which another program could use against the Tor it
\* belongs to, is only sent to a server that knows that cookie, whatever file
\* was found and whoever listens (authenticate_safe_cookie).  The check does not
\* tell a Tor from a program that passes its answers on.
ProofOnlyToKnower == \A c \in Cookie :
    (\E i \in 1..Len(toServer) : toServer[i] = Proof(c)) \/ Proof(c) \in received
        => server.cookie = {c}

\* Neither ADD_ONION nor GETINFO reaches a Tor before it has accepted an
\* authentication, though the first one may fail and the second is another.
AsksTrusted ==
    IsTor /\ Wanted \in received => trusts

\* What `command` takes for its reply is what Tor answered to that command,
\* though replies have one line or several and a connection sees up to four.
AnswersMatch == IsTor => \A command \in asked :
    /\ \A line \in lines : line.about = command
    /\ \A i \in 1..Len(toClient) : toClient[i].about = command

AwaitsServer == asked # {} /\ toClient = <<>> /\ ~ shut

\* The connection ends, one way or another, unless whoever listens keeps it
\* open and for ever says no more, or is no Tor and for ever sends lines that
\* end no reply: `command` has no limit, neither of time nor of lines.
ControlEnds ==
    \/ []<><<Chat>>_vars
    \/ step = "connect" ~> Over \/ []AwaitsServer
=============================================================================
