------------------------------ MODULE Session ------------------------------
(***************************************************************************)
(* One desktop chat, from the accepted connection on: run_session at both  *)
(* ends.  Each end runs                                                    *)
(*   - the session thread: writes its hello, reads and verifies the other, *)
(*     then encrypts and writes whatever the outbound channel yields;      *)
(*   - the receive thread, spawned after the handshake: reads, decrypts    *)
(*     and reports messages until the stream is over;                      *)
(*   - the UI thread: feeds the outbound channel, drains the event channel *)
(*     and may at any time replace its ConnectionHandle by another chat's, *)
(*     which drops the UI's ends of both channels.                         *)
(*                                                                         *)
(* The body of the n-th message a user sends is modelled as the number n.  *)
(***************************************************************************)
EXTENDS Tcp, Hello

CONSTANTS
    Identity,   \* device identities; every host and join thread makes its own
    MaxSend     \* bound on the messages one user sends

ASSUME MaxSendAssumption == MaxSend \in Nat

VARIABLES
    identity,   \* identity[e]: the device identity of e's thread
    invited,    \* the identity named by the invite that the joiner pasted
    thread,     \* thread[e]: where e's session thread is
    receiver,   \* receiver[e]: e's receive thread
    key,        \* key[e]: the session key, {} before the handshake
    handle,     \* handle[e]: whether the UI still holds the ConnectionHandle
    outbound,   \* outbound[e]: the channel from the UI to the session thread
    events,     \* events[e]: the channel from both threads to the UI
    status,     \* status[e]: what the status line says
    named,      \* named[e]: the header shows the peer's name
    sent,       \* sent[e]: messages the UI accepted and shows as its own
    shown       \* shown[e]: the peer's messages the UI shows

ids  == <<identity, invited>>
work == <<thread, receiver, key>>
ui   == <<handle, status, named, sent, shown>>
vars == <<tcp, ids, work, outbound, events, ui>>

Waiting == {"hello", "await"}           \* the handshake, before Connected
Running == Waiting \cup {"chat"}

\* Mutant: an event loses its message.
EventWithoutBody(kind, body) == [kind |-> kind, body |-> 0]

Event(kind, body) == [kind |-> kind, body |-> body]

\* Mutant: the joiner passes None, as the host does.
ExpectNobody(e) == {}

Expected(e) == IF e = "joiner" THEN {invited} ELSE {}

Init ==
    /\ TcpInit
    /\ identity \in [Ends -> Identity]
    /\ identity["host"] # identity["joiner"]
    /\ invited \in Identity \ {identity["joiner"]}
    /\ thread = [e \in Ends |-> "hello"]
    /\ receiver = [e \in Ends |-> "none"]
    /\ key = [e \in Ends |-> {}]
    /\ handle = [e \in Ends |-> "held"]
    /\ outbound = [e \in Ends |-> <<>>]
    /\ events = [e \in Ends |-> <<>>]
    /\ status = [e \in Ends |-> "connecting"]
    /\ named = [e \in Ends |-> FALSE]
    /\ sent = [e \in Ends |-> 0]
    /\ shown = [e \in Ends |-> <<>>]

----------------------------------------------------------------------------
(* The session thread.                                                     *)

\* Mutant: the newest event overtakes those that wait.
EmitAhead(e, event) ==
    events' = IF handle[e] = "held" THEN [events EXCEPT ![e] = <<event>> \o @]
                                    ELSE events

\* events.send(..).ok(): once the UI has dropped its end nothing is queued.
Emit(e, event) ==
    events' = IF handle[e] = "held" THEN [events EXCEPT ![e] = Append(@, event)]
                                    ELSE events

\* An error leaves run_session: its locals hs and the outbound channel are
\* dropped, and the thread's closure reports the error.
Fail(e, hs, unread) ==
    /\ thread' = [thread EXCEPT ![e] = "failed"]
    /\ outbound' = [outbound EXCEPT ![e] = <<>>]
    /\ Emit(e, Event("Error", 0))
    /\ DropWith(e, hs, unread)
    /\ UNCHANGED <<ids, receiver, key, ui>>

SendHello(e) ==
    /\ thread[e] = "hello"
    /\ Write(e, CreateHello(identity[e], e))
    /\ thread' = [thread EXCEPT ![e] = "await"]
    /\ UNCHANGED <<ids, receiver, key, outbound, events, ui>>

Accepts(e, frame) == frame.kind = "hello" /\ VerifyHello(frame, Expected(e))

\* Mutant: the receive thread gets a BufReader of its own, and what the
\* handshake's has buffered is lost.
RecvHelloFreshReader(e) ==
    /\ thread[e] = "await"
    /\ HasFrame(e)
    /\ Accepts(e, NextFrame(e))
    /\ wire' = [wire EXCEPT ![Other(e)] = <<>>]
    /\ key' = [key EXCEPT ![e] = DeriveSessionKey(e, NextFrame(e).exchange_public_key)]
    /\ Emit(e, Event("Connected", 0))
    /\ receiver' = [receiver EXCEPT ![e] = "reading"]
    /\ thread' = [thread EXCEPT ![e] = "chat"]
    /\ UNCHANGED <<open, rst, ids, outbound, ui>>

RecvHello(e) ==
    /\ thread[e] = "await"
    /\ HasFrame(e)
    /\ Accepts(e, NextFrame(e))
    /\ Consume(e)
    /\ key' = [key EXCEPT ![e] = DeriveSessionKey(e, NextFrame(e).exchange_public_key)]
    /\ Emit(e, Event("Connected", 0))
    /\ receiver' = [receiver EXCEPT ![e] = "reading"]
    /\ thread' = [thread EXCEPT ![e] = "chat"]
    /\ UNCHANGED <<open, rst, ids, outbound, ui>>

RejectHello(e) ==
    /\ thread[e] = "await"
    /\ HasFrame(e)
    /\ ~ Accepts(e, NextFrame(e))
    /\ Fail(e, Handles, Unread(e))

HelloNeverCame(e) ==
    /\ thread[e] = "await"
    /\ StreamOver(e)
    /\ Fail(e, Handles, Unread(e))

SendChat(e) ==
    /\ thread[e] = "chat"
    /\ outbound[e] # <<>>
    /\ Write(e, Encrypt(key[e], Head(outbound[e])))
    /\ outbound' = [outbound EXCEPT ![e] = Tail(@)]
    /\ UNCHANGED <<ids, work, events, ui>>

SendChatFails(e) ==
    /\ thread[e] = "chat"
    /\ outbound[e] # <<>>
    /\ WriteFails(e)
    /\ Fail(e, {"writer"}, wire[Other(e)])

\* Mutant: the loop ends with the UI's sender, before the channel is drained.
SendLoopEndsAtOnce(e) ==
    /\ thread[e] = "chat"
    /\ handle[e] # "held"
    /\ thread' = [thread EXCEPT ![e] = "ended"]
    /\ outbound' = [outbound EXCEPT ![e] = <<>>]
    /\ Drop(e, {"writer"})
    /\ UNCHANGED <<ids, receiver, key, events, ui>>

\* Mutant: a handle of the socket is leaked.
SendLoopEndsLeaking(e) ==
    /\ thread[e] = "chat"
    /\ outbound[e] = <<>>
    /\ handle[e] # "held"
    /\ thread' = [thread EXCEPT ![e] = "ended"]
    /\ UNCHANGED <<tcp, ids, receiver, key, outbound, events, ui>>

\* The UI's sender is gone and the channel is drained: the loop ends, Ok(()).
SendLoopEnds(e) ==
    /\ thread[e] = "chat"
    /\ outbound[e] = <<>>
    /\ handle[e] # "held"
    /\ thread' = [thread EXCEPT ![e] = "ended"]
    /\ Drop(e, {"writer"})
    /\ UNCHANGED <<ids, receiver, key, outbound, events, ui>>

----------------------------------------------------------------------------
(* The receive thread.                                                     *)

Receive(e) ==
    /\ receiver[e] = "reading"
    /\ HasFrame(e)
    /\ Decrypts(key[e], NextFrame(e))
    /\ Emit(e, Event("Incoming", NextFrame(e).body))
    /\ Consume(e)
    /\ UNCHANGED <<open, rst, ids, work, outbound, ui>>

ReadFails(e) ==
    StreamOver(e) \/ (HasFrame(e) /\ ~ Decrypts(key[e], NextFrame(e)))

\* Mutant: the error of receive_loop is dropped, not reported.
ReceiveEndsSilently(e) ==
    /\ receiver[e] = "reading"
    /\ ReadFails(e)
    /\ receiver' = [receiver EXCEPT ![e] = "ended"]
    /\ DropWith(e, {"reader"}, Unread(e))
    /\ UNCHANGED <<ids, thread, key, outbound, events, ui>>

ReceiveEnds(e) ==
    /\ receiver[e] = "reading"
    /\ ReadFails(e)
    /\ receiver' = [receiver EXCEPT ![e] = "ended"]
    /\ Emit(e, Event("Disconnected", 0))
    /\ DropWith(e, {"reader"}, Unread(e))
    /\ UNCHANGED <<ids, thread, key, outbound, ui>>

----------------------------------------------------------------------------
(* The UI thread.                                                          *)

\* send_message: the channel takes it as long as the thread holds the other
\* end, and the UI shows it as sent.
SendMessage(e) ==
    /\ handle[e] = "held"
    /\ thread[e] \in Running
    /\ sent[e] < MaxSend
    /\ sent' = [sent EXCEPT ![e] = @ + 1]
    /\ outbound' = [outbound EXCEPT ![e] = Append(@, sent[e] + 1)]
    /\ UNCHANGED <<tcp, ids, work, events, handle, status, named, shown>>

\* drain_network_events handles what is queued in one go, before the user can
\* act; as the queue is filled asynchronously, one event a step is the same.
Drain(e) ==
    /\ handle[e] = "held"
    /\ events[e] # <<>>
    /\ LET event == Head(events[e])
       IN \/ /\ event.kind = "Connected"
             /\ status' = [status EXCEPT ![e] = "connected"]
             /\ named' = [named EXCEPT ![e] = TRUE]
             /\ UNCHANGED shown
          \/ /\ event.kind = "Incoming"
             /\ shown' = [shown EXCEPT ![e] = Append(@, event.body)]
             /\ UNCHANGED <<status, named>>
          \/ /\ event.kind = "Disconnected"
             /\ status' = [status EXCEPT ![e] = "closed"]
             /\ named' = [named EXCEPT ![e] = FALSE]
             /\ UNCHANGED shown
          \/ /\ event.kind = "Error"
             /\ status' = [status EXCEPT ![e] = "error"]
             /\ UNCHANGED <<named, shown>>
    /\ events' = [events EXCEPT ![e] = Tail(@)]
    /\ UNCHANGED <<tcp, ids, work, outbound, handle, sent>>

\* start_host or start_join puts another ConnectionHandle in place of this one.
ReplaceChat(e) ==
    /\ handle[e] = "held"
    /\ handle' = [handle EXCEPT ![e] = "dropped"]
    /\ events' = [events EXCEPT ![e] = <<>>]
    /\ UNCHANGED <<tcp, ids, work, outbound, status, named, sent, shown>>

\* The window is closed, or the process dies: every thread and handle is gone.
Exit(e) ==
    /\ handle[e] # "exited"
    /\ handle' = [handle EXCEPT ![e] = "exited"]
    /\ thread' = [thread EXCEPT ![e] = "ended"]
    /\ receiver' = [receiver EXCEPT ![e] = "ended"]
    /\ outbound' = [outbound EXCEPT ![e] = <<>>]
    /\ events' = [events EXCEPT ![e] = <<>>]
    /\ Drop(e, Handles)
    /\ UNCHANGED <<ids, key, status, named, sent, shown>>

----------------------------------------------------------------------------
Kernel(e) == RstArrives(e) /\ UNCHANGED <<ids, work, outbound, events, ui>>

SessionThread(e) ==
    \/ SendHello(e) \/ RecvHello(e) \/ RejectHello(e) \/ HelloNeverCame(e)
    \/ SendChat(e) \/ SendChatFails(e) \/ SendLoopEnds(e)

ReceiveThread(e) == Receive(e) \/ ReceiveEnds(e)

User(e) == SendMessage(e) \/ ReplaceChat(e) \/ Exit(e)

Next == \E e \in Ends :
    SessionThread(e) \/ ReceiveThread(e) \/ Drain(e) \/ User(e) \/ Kernel(e)

\* The scheduler runs every thread, the UI repaints every 100 ms and the
\* network delivers; nobody has to type, start another chat or quit.
ThreadsFair(e) ==
    /\ WF_vars(SessionThread(e))
    /\ WF_vars(ReceiveThread(e))
    /\ WF_vars(Drain(e))
    /\ WF_vars(Kernel(e))

Fairness == \A e \in Ends : ThreadsFair(e)

Spec == Init /\ [][Next]_vars

FairSpec == Spec /\ Fairness

\* What fairness promises is only worth something where a step is possible:
\* the guards of each thread, for the proofs, which cannot expand ENABLED.
SessionCanStep(e) ==
    \/ thread[e] = "hello" /\ CanWrite(e)
    \/ thread[e] = "await" /\ (HasFrame(e) \/ StreamOver(e))
    \/ thread[e] = "chat" /\ outbound[e] # <<>> /\ (CanWrite(e) \/ WriteFails(e))
    \/ thread[e] = "chat" /\ outbound[e] = <<>> /\ handle[e] # "held"

ReceiverCanStep(e) == receiver[e] = "reading" /\ (HasFrame(e) \/ StreamOver(e))

UiCanStep(e) == handle[e] = "held" /\ events[e] # <<>>

KernelCanStep(e) == rst[e] = "inflight"

SessionGuardEnables(e) == SessionCanStep(e) => ENABLED <<SessionThread(e)>>_vars

ReceiverGuardEnables(e) == ReceiverCanStep(e) => ENABLED <<ReceiveThread(e)>>_vars

UiGuardEnables(e) == UiCanStep(e) => ENABLED <<Drain(e)>>_vars

KernelGuardEnables(e) == KernelCanStep(e) => ENABLED <<Kernel(e)>>_vars

GuardsEnable == \A e \in Ends :
    /\ SessionGuardEnables(e) /\ ReceiverGuardEnables(e)
    /\ UiGuardEnables(e) /\ KernelGuardEnables(e)

----------------------------------------------------------------------------
(* Properties.                                                             *)

Frame == [kind : {"chat"}, key : SUBSET Ends, body : 1..MaxSend]
         \cup {CreateHello(i, e) : i \in Identity, e \in Ends}

EventType ==
    [kind : {"Connected", "Disconnected", "Error"}, body : {0}]
    \cup [kind : {"Incoming"}, body : 1..MaxSend]

\* Every variable has its type (the structs and enums of main.rs).
TypeOK ==
    /\ wire \in [Ends -> Seq(Frame)]
    /\ open \in [Ends -> SUBSET Handles]
    /\ rst \in [Ends -> {"none", "inflight", "arrived"}]
    /\ identity \in [Ends -> Identity]
    /\ invited \in Identity
    /\ thread \in [Ends -> Running \cup {"ended", "failed"}]
    /\ receiver \in [Ends -> {"none", "reading", "ended"}]
    /\ key \in [Ends -> SUBSET Ends]
    /\ handle \in [Ends -> {"held", "dropped", "exited"}]
    /\ outbound \in [Ends -> Seq(1..MaxSend)]
    /\ events \in [Ends -> Seq(EventType)]
    /\ status \in [Ends -> {"connecting", "connected", "closed", "error"}]
    /\ named \in [Ends -> BOOLEAN]
    /\ sent \in [Ends -> 0..MaxSend]
    /\ shown \in [Ends -> Seq(1..MaxSend)]

\* Through two threads, two channels and a socket that may be reset, a user
\* is shown what the other one sent: in order, none twice, none skipped.
ShowsWhatWasSent == \A e \in Ends :
    /\ Len(shown[e]) <= sent[Other(e)]
    /\ \A i \in DOMAIN shown[e] : shown[e][i] = i

\* verify_hello holds the joiner to its invite: whatever the host believes,
\* nothing a joiner types reaches, and nothing is shown to it from, a host
\* other than the one whose invite it pasted.
TalksToInviter ==
    identity["host"] # invited =>
        /\ ~ named["joiner"]
        /\ shown["joiner"] = <<>>
        /\ shown["host"] = <<>>

\* Both ends of a chat that is up hold one key, so neither end's receive_loop
\* is ever ended by a frame it cannot decrypt.
ReadsEveryFrame == \A e \in Ends :
    receiver[e] = "reading" /\ HasFrame(e) => Decrypts(key[e], NextFrame(e))

\* What the two users may observe of a chat, without threads or network.
phase == [e \in Ends |->
    CASE handle[e] # "held" -> "over"
      [] handle[e] = "held" /\ named[e] -> "open"
      [] handle[e] = "held" /\ ~ named[e] /\ status[e] \in {"closed", "error"} -> "over"
      [] OTHER -> "opening"]

Promise == INSTANCE Relay

\* The session keeps the promise of Relay.
KeepsPromise == Promise!Spec

\* The connection of a chat is broken at e's side.
Broken(e) ==
    \/ handle[e] = "exited"
    \/ handle[Other(e)] # "held"
    \/ \E end \in Ends : thread[end] = "failed"

\* A message that is shown as sent is shown to the other user in the end,
\* unless one of them quit, the other user left the chat or a thread failed:
\* no thread waits on another for ever.
SentIsShown == \A e \in Ends : \A n \in 1..MaxSend :
    sent[e] >= n ~> Len(shown[Other(e)]) >= n \/ Broken(e)

\* A user who stays in the chat is told when the other one quits.
ExitNoticed == \A e \in Ends :
    handle[Other(e)] = "exited" ~>
        handle[e] # "held" \/ status[e] \in {"closed", "error"}

\* Once the other end has quit and this one has left the chat, its threads
\* end and its socket is closed.
SocketFreed == \A e \in Ends :
    handle[Other(e)] = "exited" /\ handle[e] = "dropped" ~> Closed(e)

----------------------------------------------------------------------------
(* What the program's own text says, and it does not do.                   *)

\* "Mesaj gonderilemedi; baglanti kapanmis olabilir." (main.rs): once the
\* status line says the connection is closed, no message is taken.
ClosedChatRefusesMessages ==
    [][\A e \in Ends : status[e] = "closed" => sent'[e] = sent[e]]_vars
=============================================================================
