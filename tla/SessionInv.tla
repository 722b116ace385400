----------------------------- MODULE SessionInv -----------------------------
(***************************************************************************)
(* The inductive invariant of Session: which thread owns what, what a      *)
(* direction of the socket may hold, and where in the pipeline             *)
(*     outbound[e] -> wire[e] -> events[o] -> shown[o]     (o = Other(e))  *)
(* each message of e is.  SessionProofs proves it inductive.               *)
(***************************************************************************)
EXTENDS Session

\* Which thread owns which handle of the socket, and when there is a key.
Owns(e) ==
    /\ "writer" \in open[e] <=> thread[e] \in Running
    /\ "reader" \in open[e] <=> thread[e] \in Waiting \/ receiver[e] = "reading"
    /\ thread[e] \in Waiting => receiver[e] = "none"
    /\ thread[e] = "chat" => receiver[e] # "none"
    /\ thread[e] \in Waiting \/ (thread[e] = "failed" /\ receiver[e] = "none")
          => key[e] = {}
    /\ handle[e] = "exited" => thread[e] = "ended" /\ receiver[e] = "ended"
    /\ handle[e] # "held" => events[e] = <<>>

\* A reset means that the other end's socket is closed.
ResetAfterClose(e) == rst[e] # "none" => Closed(Other(e))

Ownership == TypeOK /\ \A e \in Ends : Owns(e) /\ ResetAfterClose(e)

\* Somebody at e will read what is on its way to e.
MayRead(e) == thread[e] \in Waiting \/ receiver[e] = "reading"

\* The hello and nothing else comes before the chat frames, and these are
\* under the key that both ends hold.
SharedKey(e) == thread[e] = "chat" \/ receiver[e] = "reading" => key[e] = Ends

WireFrames(e) ==
    /\ thread[e] = "hello" => wire[e] = <<>> /\ receiver[Other(e)] # "reading"
    /\ thread[e] \in {"await", "chat"} /\ thread[Other(e)] \in Waiting
          => wire[e] # <<>>
    /\ MayRead(Other(e)) => \A i \in DOMAIN wire[e] :
          IF i = 1 /\ thread[Other(e)] \in Waiting
             THEN wire[e][i] = CreateHello(identity[e], e)
             ELSE wire[e][i].kind = "chat" /\ wire[e][i].key = Ends

\* The joiner got past verify_hello only with the host its invite names.
Invited == key["joiner"] # {} => identity["host"] = invited

Handshake ==
    /\ Ownership
    /\ Invited
    /\ \A e \in Ends : SharedKey(e) /\ WireFrames(e)

\* The frames q are messages r + 1 to m, after the hello if it is still there.
Hellos(q) == IF q # <<>> /\ q[1].kind = "hello" THEN 1 ELSE 0

Carries(q, r, m) ==
    /\ r + Len(q) - Hellos(q) = m
    /\ \A i \in DOMAIN q : q[i].kind = "chat" => q[i].body = r + i - Hellos(q)

\* The outbound channel holds messages w + 1 to s.
Unsent(q, w, s) == w + Len(q) = s /\ \A i \in DOMAIN q : q[i] = w + i

\* The queue holds the messages after the k-th up to the r-th, in order.
Queued(q, k, r) ==
    /\ \A i \in DOMAIN q :
          q[i].kind = "Incoming" => q[i].body > k /\ q[i].body <= r
    /\ \A i, j \in DOMAIN q :
          i < j /\ q[i].kind = "Incoming" /\ q[j].kind = "Incoming"
             => q[i].body < q[j].body
    /\ \A n \in (k + 1)..r : \E i \in DOMAIN q :
          q[i].kind = "Incoming" /\ q[i].body = n

\* Every message that e wrote is read or on the wire: e's session thread runs,
\* or its loop ended and the receive thread keeps the socket open.
Intact(e) ==
    thread[e] \in Running \/ (thread[e] = "ended" /\ receiver[e] = "reading")

\* Where e's messages are, if o's receive thread has taken r of them off the
\* wire and e's session thread has written w of them.
Pipeline(e, o, r, w) ==
    /\ Len(shown[o]) <= r /\ r <= w /\ w <= sent[e]
    /\ \A i \in DOMAIN shown[o] : shown[o][i] = i
    /\ handle[o] = "held" => Queued(events[o], Len(shown[o]), r)
    /\ MayRead(o) => \E m \in r..w :
          Carries(wire[e], r, m) /\ (Intact(e) => m = w)
    /\ Intact(e) => Unsent(outbound[e], w, sent[e])

Numbered(e) == \E r, w \in 0..MaxSend : Pipeline(e, Other(e), r, w)

\* What either user sees took a handshake of both ends.
Visible(e) ==
    /\ named[e] => key[e] # {}
    /\ \A i \in DOMAIN events[e] : events[e][i].kind = "Connected" => key[e] # {}
    /\ \A i \in DOMAIN events[e] :
          events[e][i].kind = "Incoming" => key["joiner"] # {}
    /\ shown[e] # <<>> => key["joiner"] # {}
    /\ \A i \in DOMAIN wire[e] : wire[e][i].kind = "chat" => key[e] # {}

\* With a receive thread at recv, a session thread at th, status line st, a
\* named peer or not (nm), the events q are in order: Connected comes first,
\* nothing is shown before it or after Disconnected.
Kinds(q) == {q[i].kind : i \in DOMAIN q}

Ordered(recv, th, st, nm, q) ==
    /\ recv = "none" =>
          /\ st \in {"connecting", "error"} /\ ~ nm
          /\ Kinds(q) \subseteq {"Error"}
          /\ st = "error" \/ q # <<>> => th = "failed"
    /\ recv # "none" =>
          \/ st = "connecting" /\ ~ nm /\ q # <<>> /\ q[1].kind = "Connected"
          \/ nm
          \/ recv = "ended" /\ st \in {"closed", "error"} /\ "Incoming" \notin Kinds(q)
    /\ \A i \in DOMAIN q :
          q[i].kind = "Connected" => i = 1 /\ st = "connecting" /\ ~ nm
    /\ \A i, j \in DOMAIN q :
          q[i].kind = "Disconnected" /\ q[j].kind = "Incoming" => j < i
    /\ "Disconnected" \in Kinds(q) => recv = "ended"

EventOrder(e) == handle[e] = "held" =>
    Ordered(receiver[e], thread[e], status[e], named[e], events[e])

\* How e's threads come to an end, and what is on the wire until then.
Stops(e) ==
    /\ thread[e] = "hello" => rst[e] = "none"
    /\ thread[e] = "ended" =>
          handle[e] # "held" /\ receiver[e] # "none" /\ outbound[e] = <<>>
    /\ receiver[e] = "ended" => handle[e] = "exited" \/ Closed(Other(e))
    /\ Intact(e) /\ thread[e] # "hello" /\ thread[Other(e)] \in Waiting
          => wire[e] # <<>>

\* The UI is told, or the event that tells it is queued.
Told(e) == handle[e] = "held" =>
    /\ receiver[e] = "ended" =>
          \/ "Disconnected" \in Kinds(events[e])
          \/ ~ named[e] /\ status[e] \in {"closed", "error"}
    /\ thread[e] = "failed" =>
          "Error" \in Kinds(events[e]) \/ status[e] \in {"closed", "error"}

\* The inductive invariant.
IInv == Handshake /\ \A e \in Ends :
    Numbered(e) /\ Visible(e) /\ EventOrder(e) /\ Stops(e) /\ Told(e)
=============================================================================
