------------------------------- MODULE Lobby -------------------------------
(***************************************************************************)
(* The desktop apps around their chats: every click on "Sohbet Baslat" or  *)
(* "Baglan" spawns a network thread and makes it the app's connection.     *)
(* Nothing ends the thread that was there before: a host thread stays in   *)
(* accept(), bound to its address, and a join thread goes on dialing.      *)
(* Invites are passed on outside the program and may be pasted late.       *)
(*                                                                         *)
(* A thread is the number of the click that made it; it makes a fresh      *)
(* identity, so it also stands for that identity and for its invite.  What *)
(* happens inside an established chat is in Session: here a chat is only   *)
(* begun, left and closed.                                                 *)
(***************************************************************************)
EXTENDS Naturals, Sequences, SequencesExt

CONSTANTS
    App,            \* the running apps
    MaxThreads      \* bound on the clicks that spawn a thread

ASSUME LobbyAssumption == MaxThreads \in Nat \ {0}

Thread == 1..MaxThreads

Nobody == 0

VARIABLES
    owner,          \* owner[t]: the app whose click spawned t
    onion,          \* onion[t]: t is a host thread that goes by Tor
    step,           \* step[t]: where thread t is
    receiving,      \* receiving[t]: t's receive thread runs
    invite,         \* invite[t]: the host thread whose invite t decoded
    partner,        \* partner[t]: the thread at the other end of t's socket
    line,           \* line[t]: connections that wait for t's accept()
    events,         \* events[t]: the channel from t to the UI
    connection,     \* connection[a]: the thread behind the ConnectionHandle
    status,         \* status[a]: the status line; "other" where it only tells
                    \* what the app is busy with
    peer,           \* peer[a]: peer_name, the header of the chat
    current         \* current[a]: current_invite, the invite on the screen

net  == <<owner, onion, receiving, invite, partner, line>>
view == <<status, peer, current>>
vars == <<net, step, events, connection, view>>

clicks == Len(owner)

HostSteps == {"bind", "publish", "listen", "greet", "chat"}
JoinSteps == {"dial", "greet", "chat"}

IsHost(t) == t <= clicks /\ invite[t] = Nobody

IsJoin(t) == t <= clicks /\ invite[t] # Nobody

Event(kind, who) == [kind |-> kind, who |-> who]

Init ==
    /\ owner = <<>>
    /\ onion = [t \in Thread |-> FALSE]
    /\ step = [t \in Thread |-> "unborn"]
    /\ receiving = [t \in Thread |-> FALSE]
    /\ invite = [t \in Thread |-> Nobody]
    /\ partner = [t \in Thread |-> Nobody]
    /\ line = [t \in Thread |-> <<>>]
    /\ events = [t \in Thread |-> <<>>]
    /\ connection = [a \in App |-> Nobody]
    /\ status = [a \in App |-> "other"]
    /\ peer = [a \in App |-> Nobody]
    /\ current = [a \in App |-> Nobody]

----------------------------------------------------------------------------
(* The UI thread.                                                          *)

\* The old ConnectionHandle is dropped, and what its channel still holds.
Connect(a, t) ==
    /\ owner' = Append(owner, a)
    /\ connection' = [connection EXCEPT ![a] = t]
    /\ events' = [s \in Thread |-> IF s = connection[a] THEN <<>> ELSE events[s]]

StartHost(a, tor) ==
    /\ clicks < MaxThreads
    /\ Connect(a, clicks + 1)
    /\ onion' = [onion EXCEPT ![clicks + 1] = tor]
    /\ step' = [step EXCEPT ![clicks + 1] = "bind"]
    /\ current' = [current EXCEPT ![a] = Nobody]
    /\ status' = [status EXCEPT ![a] = "other"]
    /\ UNCHANGED <<receiving, invite, partner, line, peer>>

\* Any invite that some app has shown so far.
Created(h) == IsHost(h) /\ (step[h] \in {"listen", "greet", "chat"} \/ partner[h] # Nobody)

\* Mutant: the status line of the chat before stays.
StartJoinQuietly(a, h) ==
    /\ clicks < MaxThreads
    /\ Created(h)
    /\ Connect(a, clicks + 1)
    /\ invite' = [invite EXCEPT ![clicks + 1] = h]
    /\ step' = [step EXCEPT ![clicks + 1] = "dial"]
    /\ UNCHANGED <<onion, receiving, partner, line, view>>

StartJoin(a, h) ==
    /\ clicks < MaxThreads
    /\ Created(h)
    /\ Connect(a, clicks + 1)
    /\ invite' = [invite EXCEPT ![clicks + 1] = h]
    /\ step' = [step EXCEPT ![clicks + 1] = "dial"]
    /\ status' = [status EXCEPT ![a] = "other"]
    /\ UNCHANGED <<onion, receiving, partner, line, peer, current>>

\* prepare_tor_config fails: the click changes the status line and no more.
TorFails(a) ==
    /\ status' = [status EXCEPT ![a] = "other"]
    /\ UNCHANGED <<net, step, events, connection, peer, current>>

Drain(a) ==
    /\ connection[a] # Nobody
    /\ events[connection[a]] # <<>>
    /\ LET event == Head(events[connection[a]])
       IN \/ /\ event.kind = "InviteCreated"
             /\ current' = [current EXCEPT ![a] = event.who]
             /\ status' = [status EXCEPT ![a] = "waiting"]
             /\ UNCHANGED peer
          \/ /\ event.kind = "Connected"
             /\ status' = [status EXCEPT ![a] = "connected"]
             /\ peer' = [peer EXCEPT ![a] = event.who]
             /\ UNCHANGED current
          \/ /\ event.kind = "Disconnected"
             /\ status' = [status EXCEPT ![a] = "closed"]
             /\ peer' = [peer EXCEPT ![a] = Nobody]
             /\ UNCHANGED current
          \/ /\ event.kind = "Error"
             /\ status' = [status EXCEPT ![a] = "error"]
             /\ UNCHANGED <<peer, current>>
    /\ events' = [events EXCEPT ![connection[a]] = Tail(@)]
    /\ UNCHANGED <<net, step, connection>>

----------------------------------------------------------------------------
(* The network threads.                                                    *)

Held(t) == connection[owner[t]] = t

\* events.send(..).ok(): nobody receives what a replaced thread reports.
Emit(t, event) ==
    events' = IF Held(t) THEN [events EXCEPT ![t] = Append(@, event)] ELSE events

\* host_network keeps the listener until it returns, after run_session.
Bound(t) == IsHost(t) /\ step[t] \in HostSteps \ {"bind"}

\* A host without Tor binds the address of its settings; one with Tor binds a
\* free port, and its onion address leads to that port alone.
SameAddress(s, t) == s = t \/ (owner[s] = owner[t] /\ ~ onion[s] /\ ~ onion[t])

\* The thread returns an error: what it holds is dropped, and with it the
\* connections that nobody accepted.
Fail(t) ==
    /\ step' = [step EXCEPT ![t] = "over"]
    /\ line' = [line EXCEPT ![t] = <<>>]
    /\ Emit(t, Event("Error", t))
    /\ UNCHANGED <<owner, onion, receiving, invite, partner, connection, view>>

Taken(t) == \E s \in Thread : s # t /\ Bound(s) /\ SameAddress(s, t)

Bind(t) ==
    /\ step[t] = "bind"
    /\ ~ Taken(t)
    /\ step' = [step EXCEPT ![t] = "publish"]
    /\ UNCHANGED <<net, events, connection, view>>

\* Mutant: an address in use is tried again, for ever.
BindNeverFails(t) == FALSE

\* The address is Taken, or by another program, or the text is none.
BindFails(t) == step[t] = "bind" /\ Fail(t)

\* With Tor the onion service comes first: Tor may refuse it, or may never
\* answer, since the control port is read without a time limit.
Publish(t) ==
    /\ step[t] = "publish"
    /\ step' = [step EXCEPT ![t] = "listen"]
    /\ Emit(t, Event("InviteCreated", t))
    /\ UNCHANGED <<net, connection, view>>

PublishFails(t) == step[t] = "publish" /\ onion[t] /\ Fail(t)

\* Mutant: the host goes on accepting until the handshake is over.
AcceptAgain(h) ==
    /\ step[h] \in {"listen", "greet"}
    /\ line[h] # <<>>
    /\ partner' = [partner EXCEPT ![h] = Head(line[h]), ![Head(line[h])] = h]
    /\ line' = [line EXCEPT ![h] = Tail(@)]
    /\ step' = [step EXCEPT ![h] = "greet"]
    /\ UNCHANGED <<owner, onion, receiving, invite, events, connection, view>>

\* The first of the line is accepted, and greeted with this thread's hello.
Accept(h) ==
    /\ step[h] = "listen"
    /\ line[h] # <<>>
    /\ partner' = [partner EXCEPT ![h] = Head(line[h]), ![Head(line[h])] = h]
    /\ line' = [line EXCEPT ![h] = Tail(@)]
    /\ step' = [step EXCEPT ![h] = "greet"]
    /\ UNCHANGED <<owner, onion, receiving, invite, events, connection, view>>

\* connect(): the kernel completes it for a listener that has yet to accept,
\* and the hello of the joiner waits in the socket.
Dial(j) ==
    /\ step[j] = "dial"
    /\ \E h \in Thread :
          /\ Bound(h)
          /\ SameAddress(h, invite[j])
          /\ line' = [line EXCEPT ![h] = Append(@, j)]
    /\ step' = [step EXCEPT ![j] = "greet"]
    /\ UNCHANGED <<owner, onion, receiving, invite, partner, events, connection, view>>

\* Mutant: the retries have no deadline.
DialNeverFails(j) == FALSE

\* The text is no invite or has no usable address, nobody listens or can be
\* reached there, or Tor has not found the onion service in 180 s of retries
\* (whose status lines are left out).
DialFails(j) == step[j] = "dial" /\ Fail(j)

Established(t) ==
    /\ step' = [step EXCEPT ![t] = "chat"]
    /\ receiving' = [receiving EXCEPT ![t] = TRUE]
    /\ Emit(t, Event("Connected", partner[t]))
    /\ UNCHANGED <<owner, onion, invite, partner, line, connection, view>>

\* Mutant: the host reports a peer before it has accepted one.
HostMeetsTooSoon(h) == step[h] \in {"listen", "greet"} /\ IsHost(h) /\ Established(h)

\* The host asks for no identity, and may have the joiner's hello even if the
\* joiner has gone.
HostMeets(h) == step[h] = "greet" /\ IsHost(h) /\ Established(h)

Genuine(j) == partner[j] = invite[j]

\* Mutant: the joiner does not compare the identities.
JoinMeetsAnybody(j) ==
    /\ step[j] = "greet" /\ IsJoin(j)
    /\ partner[j] # Nobody
    /\ Established(j)

JoinMeets(j) ==
    /\ step[j] = "greet" /\ IsJoin(j)
    /\ partner[j] # Nobody
    /\ Genuine(j)
    /\ Established(j)

\* The handshake of either end fails: the identity is not the one of the
\* invite, what comes is no hello of Fauna, or a reset has destroyed it.
GreetFails(t) == step[t] = "greet" /\ partner[t] # Nobody /\ Fail(t)

InLine(j) == \E h \in Thread : j \in ToSet(line[h])

\* The listener was dropped before anybody accepted.
LineReset(j) ==
    /\ step[j] = "greet" /\ IsJoin(j)
    /\ partner[j] = Nobody
    /\ ~ InLine(j)
    /\ Fail(j)

\* Both handles of the socket are dropped.
Closed(t) == step[t] = "over" /\ ~ receiving[t]

\* The handle is replaced, so the outbound channel is over: Ok(()).  The
\* receive thread goes on reading for nobody.
Leave(t) ==
    /\ step[t] = "chat"
    /\ ~ Held(t)
    /\ step' = [step EXCEPT ![t] = "over"]
    /\ line' = [line EXCEPT ![t] = <<>>]
    /\ UNCHANGED <<owner, onion, receiving, invite, partner, events, connection, view>>

ReceiveEnds(t) ==
    /\ receiving[t]
    /\ Closed(partner[t])
    /\ receiving' = [receiving EXCEPT ![t] = FALSE]
    /\ Emit(t, Event("Disconnected", t))
    /\ UNCHANGED <<owner, onion, step, invite, partner, line, connection, view>>

\* The user goes on writing to a closed socket until a write fails.
WriteFails(t) == step[t] = "chat" /\ Held(t) /\ Closed(partner[t]) /\ Fail(t)

----------------------------------------------------------------------------
Click(a) ==
    \/ \E tor \in BOOLEAN : StartHost(a, tor)
    \/ \E h \in Thread : StartJoin(a, h)
    \/ TorFails(a)

HostThread(t) ==
    \/ Bind(t) \/ BindFails(t) \/ Publish(t) \/ PublishFails(t)
    \/ Accept(t) \/ HostMeets(t) \/ (IsHost(t) /\ GreetFails(t))

JoinThread(t) ==
    \/ Dial(t) \/ DialFails(t)
    \/ JoinMeets(t) \/ (IsJoin(t) /\ GreetFails(t)) \/ LineReset(t)

Next ==
    \/ \E a \in App : Click(a) \/ Drain(a)
    \/ \E t \in Thread :
          HostThread(t) \/ JoinThread(t) \/ Leave(t) \/ ReceiveEnds(t) \/ WriteFails(t)

\* Tor answers when it likes: the control port and the SOCKS proxy are read
\* without a time limit.
AwaitsTor(t) == step[t] = "publish" /\ onion[t]

AwaitsProxy(j) == step[j] = "dial" /\ onion[invite[j]]

HostRuns(t) == ~ AwaitsTor(t) /\ HostThread(t)

JoinRuns(t) == ~ AwaitsProxy(t) /\ JoinThread(t)

\* The threads run and the UI repaints; nobody has to click or to write, and
\* Tor need not answer.
UiFairness(a) == WF_vars(Drain(a))

ThreadFairness(t) ==
    /\ WF_vars(HostRuns(t))
    /\ WF_vars(JoinRuns(t))
    /\ WF_vars(Leave(t))
    /\ WF_vars(ReceiveEnds(t))

Fairness == (\A a \in App : UiFairness(a)) /\ \A t \in Thread : ThreadFairness(t)

Spec == Init /\ [][Next]_vars

FairSpec == Spec /\ Fairness

\* What the fair steps ask for, without what they do; the proofs of liveness
\* take it that nothing else keeps such a step from being taken.
UiCanStep(a) == connection[a] # Nobody /\ events[connection[a]] # <<>>

HostCanStep(t) ==
    \/ step[t] = "bind"
    \/ step[t] = "publish" /\ ~ AwaitsTor(t)
    \/ step[t] = "listen" /\ line[t] # <<>>
    \/ step[t] = "greet" /\ IsHost(t)

JoinCanStep(t) ==
    \/ step[t] = "dial" /\ ~ AwaitsProxy(t)
    \/ step[t] = "greet" /\ IsJoin(t) /\ (partner[t] # Nobody \/ ~ InLine(t))

UiGuardEnables(a) == UiCanStep(a) => ENABLED <<Drain(a)>>_vars

ThreadGuardsEnable(t) ==
    /\ HostCanStep(t) => ENABLED <<HostRuns(t)>>_vars
    /\ JoinCanStep(t) => ENABLED <<JoinRuns(t)>>_vars

GuardsEnable ==
    (\A a \in App : UiGuardEnables(a)) /\ \A t \in Thread : ThreadGuardsEnable(t)

----------------------------------------------------------------------------
(* Properties.                                                             *)

Kinds == {"InviteCreated", "Connected", "Disconnected", "Error"}

\* Every variable has its type (FaunaApp and the events of main.rs).
TypeOK ==
    /\ owner \in Seq(App) /\ clicks <= MaxThreads
    /\ onion \in [Thread -> BOOLEAN]
    /\ step \in [Thread -> HostSteps \cup JoinSteps \cup {"unborn", "over"}]
    /\ receiving \in [Thread -> BOOLEAN]
    /\ invite \in [Thread -> Thread \cup {Nobody}]
    /\ partner \in [Thread -> Thread \cup {Nobody}]
    /\ line \in [Thread -> Seq(Thread)]
    /\ events \in [Thread -> Seq([kind : Kinds, who : Thread])]
    /\ connection \in [App -> Thread \cup {Nobody}]
    /\ status \in [App -> {"waiting", "connected", "closed", "error", "other"}]
    /\ peer \in [App -> Thread \cup {Nobody}]
    /\ current \in [App -> Thread \cup {Nobody}]

\* Old invites, reused addresses and host threads nobody owns any more: a
\* user who joins ends up with the thread that made the invite, or with an
\* error, and never in somebody else's chat.
MeetsInviter == \A j \in Thread : IsJoin(j) /\ receiving[j] => Genuine(j)

\* "Waiting for one peer": however many use one invite, and whichever of them
\* gives up, a host thread is in a chat with at most one of them.
OneGuest == \A i, j \in Thread :
    IsJoin(i) /\ IsJoin(j) /\ receiving[i] /\ receiving[j] /\ partner[i] = partner[j]
        => i = j

\* While the status line tells of an encrypted session, the header names the
\* other end of the connection that the composer writes to.
HeaderIsPartner == \A a \in App : status[a] = "connected" =>
    /\ connection[a] # Nobody
    /\ peer[a] # Nobody
    /\ partner[connection[a]] = peer[a]

\* A click on "Sohbet Baslat" ends with an invite or with an error, unless Tor
\* leaves the publication of the onion service unanswered for ever.
InviteOrError == \A a \in App, t \in Thread :
    connection[a] = t /\ step[t] = "bind" ~>
        connection[a] # t \/ current[a] = t \/ status[a] = "error" \/ []AwaitsTor(t)

\* Whoever joins gets a chat or an error.  There are two things he may wait
\* for, for ever: the other guest of the host thread whose line he stands in,
\* and the answer of his own Tor's proxy.
Behind(j) == \E h \in Thread : j \in ToSet(line[h]) /\ partner[h] # Nobody

JoinSettles == \A j \in Thread :
    step[j] = "dial" ~> step[j] \in {"chat", "over"} \/ []Behind(j) \/ []AwaitsProxy(j)

----------------------------------------------------------------------------
(* What the program's own text says, and it does not do.                   *)

\* "Click Sohbet Baslat and share the generated invite link" (README.md): who
\* joins with the link on a screen gets into the chat of that screen.  The
\* click of j is later than the one that made connection[a], so the link was
\* shown by an app that had dropped the channels of its host thread.
ShownInviteIsServed == \A a \in App, j \in Thread :
    IsJoin(j) /\ owner[j] # a /\ step[j] = "chat" /\ partner[j] = current[a]
              /\ connection[a] < j
        => connection[a] = current[a]
=============================================================================
