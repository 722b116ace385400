------------------------------- MODULE Socks -------------------------------
(***************************************************************************)
(* connect_via_socks5_with_retry: one attempt after another to open a      *)
(* stream through a SOCKS5 proxy, with a pause between two of them and a   *)
(* deadline that is looked at before an attempt only.                      *)
(*                                                                         *)
(* The proxy's bytes are counted, not named: its choice of method (2), the *)
(* head of its reply (4), the bound address (which the client has to skip  *)
(* to the byte) and, right behind it, what the other end of the new stream *)
(* has to say, which belongs to the session.  They come in pieces of any   *)
(* size in Pieces.  The proxy may refuse, answer with an error, close the  *)
(* connection at any byte, or say nothing.  The proxy is external.         *)
(***************************************************************************)
EXTENDS Naturals

CONSTANTS
    Timeout,        \* seconds for all attempts
    Pause,          \* seconds between two attempts
    LongName,       \* the host names of more than 255 bytes
    Pieces,         \* in how many bytes at once the stream may arrive
    HelloSize       \* bytes of the peer that follow the proxy's reply

ASSUME SocksAssumption ==
    /\ Timeout \in Nat /\ Pause \in Nat \ {0} /\ HelloSize \in Nat
    /\ Pieces \subseteq Nat \ {0}

VARIABLES
    dial,       \* where the dialing thread is
    target,     \* the host and port it asks for
    attempt,    \* failed attempts so far, as told by on_retry
    clock,      \* seconds since `started`
    wake,       \* when the pause is over
    reply,      \* what the proxy of this attempt will answer
    arrived,    \* bytes of its answers that have arrived
    taken,      \* bytes of them that read_exact has taken
    want,       \* bytes that the read_exact under way asks for
    shut        \* the proxy has closed the connection

stream == <<reply, arrived, taken, want, shut>>
socks  == <<dial, target, attempt, clock, wake, stream>>

NoReply == [method |-> 0, code |-> 0, kind |-> 1, name |-> 0]

\* Every answer the client can tell from others; `name` is the length byte of
\* an address of kind 3.
Replies ==
    {NoReply, [NoReply EXCEPT !.method = 255], [NoReply EXCEPT !.code = 5],
     [NoReply EXCEPT !.kind = 4], [NoReply EXCEPT !.kind = 9]}
    \cup {[NoReply EXCEPT !.kind = 3, !.name = n] : n \in {0, 7}}

\* What a proxy answers when it has opened the stream.
Opens(r) == r.method = 0 /\ r.code = 0 /\ r.kind \in {1, 3, 4}

\* RFC 1928: the bytes after the head of a reply.
BoundAddress(r) ==
    CASE r.kind = 1 -> 4 + 2
      [] r.kind = 3 -> 1 + r.name + 2
      [] r.kind = 4 -> 16 + 2
      [] OTHER      -> 0

Reading == {"method", "header", "length", "address"}

SocksInit ==
    /\ dial = "idle"
    /\ target = [host |-> "", port |-> 0]
    /\ attempt = 0
    /\ clock = 0 /\ wake = 0
    /\ reply = NoReply /\ arrived = 0 /\ taken = 0 /\ want = 0 /\ shut = FALSE

DialOnion(t) ==
    /\ dial = "idle"
    /\ dial' = "retry"
    /\ target' = t
    /\ UNCHANGED <<attempt, clock, wake, stream>>

----------------------------------------------------------------------------
(* The retry loop.                                                         *)

\* Mutant: the next attempt follows at once.
FailsWithoutPause ==
    /\ attempt' = attempt + 1
    /\ dial' = "retry"
    /\ reply' = NoReply /\ arrived' = 0 /\ taken' = 0 /\ want' = 0 /\ shut' = FALSE
    /\ UNCHANGED <<target, clock, wake>>

\* The error is told, the stream is dropped and the thread sleeps.
AttemptFails ==
    /\ attempt' = attempt + 1
    /\ dial' = "sleep"
    /\ wake' = clock + Pause
    /\ reply' = NoReply /\ arrived' = 0 /\ taken' = 0 /\ want' = 0 /\ shut' = FALSE
    /\ UNCHANGED <<target, clock>>

WakeUp ==
    /\ dial = "sleep"
    /\ clock >= wake
    /\ dial' = "retry"
    /\ UNCHANGED <<target, attempt, clock, wake, stream>>

GiveUp ==
    /\ dial = "retry"
    /\ clock >= Timeout
    /\ dial' = "failed"
    /\ UNCHANGED <<target, attempt, clock, wake, stream>>

Refused == dial = "retry" /\ clock < Timeout /\ AttemptFails

\* read_exact of n bytes is the next thing that the thread does.
Read(what, n) == dial' = what /\ want' = n

Connect ==
    /\ dial = "retry"
    /\ clock < Timeout
    /\ Read("method", 2)
    /\ reply' \in Replies
    /\ UNCHANGED <<target, attempt, clock, wake, arrived, taken, shut>>

----------------------------------------------------------------------------
(* One attempt.                                                            *)

HasBytes == taken + want <= arrived

TakeBytes ==
    /\ HasBytes
    /\ taken' = taken + want
    /\ UNCHANGED <<target, attempt, clock, wake, reply, arrived, shut>>

\* The request is written once the method is agreed on and the name fits.
MethodFits == reply.method = 0 /\ target.host \notin LongName

ReadMethod == dial = "method" /\ MethodFits /\ TakeBytes /\ Read("header", 4)

MethodFails == dial = "method" /\ HasBytes /\ ~ MethodFits /\ AttemptFails

HeaderFits == reply.code = 0 /\ reply.kind \in {1, 3, 4}

ReadHeader ==
    /\ dial = "header"
    /\ HeaderFits
    /\ TakeBytes
    /\ CASE reply.kind = 1 -> Read("address", 6)
         [] reply.kind = 3 -> Read("length", 1)
         [] reply.kind = 4 -> Read("address", 18)

HeaderFails == dial = "header" /\ HasBytes /\ ~ HeaderFits /\ AttemptFails

\* Mutant: the port behind a host name is forgotten.
ReadLengthOnly ==
    dial = "length" /\ TakeBytes /\ Read("address", reply.name)

ReadLength == dial = "length" /\ TakeBytes /\ Read("address", reply.name + 2)

ReadAddress == dial = "address" /\ TakeBytes /\ Read("open", 0)

\* Mutant: a read of 0 bytes is tried again.
NeverShort == FALSE

\* UnexpectedEof, or the write before it that failed.
ReadShort == dial \in Reading /\ ~ HasBytes /\ shut /\ AttemptFails

----------------------------------------------------------------------------
(* The proxy, what is behind it, and time.                                 *)

Least(m, n) == IF m < n THEN m ELSE n

\* The proxy answers what it was asked; the peer speaks once it is connected.
Sendable ==
    CASE dial = "method" -> 2
      [] reply.code # 0 \/ reply.kind = 9 -> 2 + 4
      [] OTHER -> 2 + 4 + BoundAddress(reply) + HelloSize

ProxySends ==
    /\ dial \in Reading
    /\ ~ shut
    /\ arrived < Sendable
    /\ \E n \in Pieces : arrived' = Least(arrived + n, Sendable)
    /\ UNCHANGED <<dial, target, attempt, clock, wake, reply, taken, want, shut>>

ProxyCloses ==
    /\ dial \in Reading
    /\ ~ shut
    /\ shut' = TRUE
    /\ UNCHANGED <<dial, target, attempt, clock, wake, reply, arrived, taken, want>>

\* An attempt may take any time; past the deadline it does not matter how much.
Tick ==
    /\ dial \notin {"idle", "open", "failed"}
    /\ clock < IF dial = "sleep" THEN wake ELSE Timeout
    /\ clock' = clock + 1
    /\ UNCHANGED <<dial, target, attempt, wake, stream>>

Dialing ==
    \/ WakeUp \/ GiveUp \/ Refused \/ Connect
    \/ ReadMethod \/ MethodFails \/ ReadHeader \/ HeaderFails
    \/ ReadLength \/ ReadAddress \/ ReadShort

Proxy == ProxySends \/ ProxyCloses

----------------------------------------------------------------------------
(* Properties.                                                             *)

SocksTypeOK ==
    /\ dial \in Reading \cup {"idle", "retry", "sleep", "open", "failed"}
    /\ attempt \in Nat
    /\ clock \in 0..(Timeout + Pause)
    /\ wake \in 0..(Timeout + Pause)
    /\ reply \in Replies
    /\ arrived \in Nat /\ taken \in 0..arrived /\ want \in Nat
    /\ shut \in BOOLEAN

\* In whatever pieces the answers arrive and whatever the form of the bound
\* address (connect_via_socks5), the stream is handed to the session with all
\* of the proxy's bytes read and none of the peer's hello.
StreamAtHello == dial = "open" => taken = 2 + 4 + BoundAddress(reply)

\* connect_via_socks5_with_retry: however early an attempt fails, and though
\* the last may begin just before the deadline, there are no more attempts
\* than the pauses leave room for.
AttemptsBounded == attempt * Pause < Timeout + Pause

\* Waiting for bytes of a proxy that keeps the connection open.
AwaitsProxy == dial \in Reading /\ ~ HasBytes /\ ~ shut
=============================================================================
