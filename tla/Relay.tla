------------------------------- MODULE Relay -------------------------------
(***************************************************************************)
(* What a chat promises its two users, without threads, channels, keys or  *)
(* sockets: each counts the messages it sent and sees a list of the other  *)
(* one's.  A chat opens, messages come in one at a time and in the order   *)
(* they were sent, and when it is over nothing is shown any more.  It may  *)
(* be over before everything was shown: delivery is not promised.          *)
(***************************************************************************)
EXTENDS Naturals, Sequences

CONSTANTS
    Ends,       \* the two ends of the chat
    Other(_),   \* the other end
    MaxSend     \* bound on the messages one user sends

VARIABLES
    phase,      \* phase[e]: "opening", "open" or "over" for the user at e
    sent,       \* sent[e]: the number of messages that e's user sent
    shown       \* shown[e]: the messages of the other user shown at e

Init ==
    /\ phase = [e \in Ends |-> "opening"]
    /\ sent = [e \in Ends |-> 0]
    /\ shown = [e \in Ends |-> <<>>]

Open(e) ==
    /\ phase[e] = "opening"
    /\ phase' = [phase EXCEPT ![e] = "open"]
    /\ UNCHANGED <<sent, shown>>

Finish(e) ==
    /\ phase[e] # "over"
    /\ phase' = [phase EXCEPT ![e] = "over"]
    /\ UNCHANGED <<sent, shown>>

\* The composer takes a message in every phase (send_message does).
Send(e) ==
    /\ sent[e] < MaxSend
    /\ sent' = [sent EXCEPT ![e] = @ + 1]
    /\ UNCHANGED <<phase, shown>>

Show(e) ==
    /\ phase[e] = "open"
    /\ Len(shown[e]) < sent[Other(e)]
    /\ shown' = [shown EXCEPT ![e] = Append(@, Len(@) + 1)]
    /\ UNCHANGED <<phase, sent>>

Next == \E e \in Ends : Open(e) \/ Finish(e) \/ Send(e) \/ Show(e)

Spec == Init /\ [][Next]_<<phase, sent, shown>>
=============================================================================
