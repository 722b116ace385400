----------------------------- MODULE CliSession -----------------------------
(***************************************************************************)
(* One chat between two fauna-cli processes, from the accepted connection  *)
(* on: run_session of p2p.rs at both ends.  Each process has               *)
(*   - a main thread: writes its hello, reads and verifies the other,      *)
(*     starts the receive thread, then sends its standard input line by    *)
(*     line and at last joins the receive thread;                          *)
(*   - a receive thread: prints what it decrypts until the stream is over. *)
(* Standard input is a terminal or a pipe: lines wait in it until they are *)
(* read, it may end, and reading it may fail, after which the lines behind *)
(* the failure are never read.  The socket closes when both threads have   *)
(* dropped their handle of it, so the end of the input alone says nothing  *)
(* to the other process.                                                   *)
(*                                                                         *)
(* The n-th line a user types is modelled as the number n.                 *)
(***************************************************************************)
EXTENDS Tcp, Hello

CONSTANTS
    Identity,   \* device identities; every process makes its own
    MaxLines    \* bound on the lines one user types

ASSUME MaxLinesAssumption == MaxLines \in Nat

VARIABLES
    identity,   \* identity[e]: the device identity of e's process
    invited,    \* the identity named by the invite on the joiner's command line
    main,       \* main[e]: where e's main thread is
    receiver,   \* receiver[e]: e's receive thread
    key,        \* key[e]: the session key, {} before the handshake
    typed,      \* typed[e]: the lines typed so far
    input,      \* input[e]: those that the process has not read
    ended,      \* ended[e]: the standard input is at its end
    unreadable, \* unreadable[e]: reading the standard input has failed
    printed,    \* printed[e]: the lines of the other user printed at e
    outcome     \* outcome[e]: how e's process ended

ids   == <<identity, invited>>
stdin == <<typed, input, ended, unreadable>>
vars  == <<tcp, ids, main, receiver, key, stdin, printed, outcome>>

Blank == 0      \* a line of white space

Expected(e) == IF e = "joiner" THEN {invited} ELSE {}

Init ==
    /\ TcpInit
    /\ identity \in [Ends -> Identity]
    /\ identity["host"] # identity["joiner"]
    /\ invited \in Identity \ {identity["joiner"]}
    /\ main = [e \in Ends |-> "hello"]
    /\ receiver = [e \in Ends |-> "none"]
    /\ key = [e \in Ends |-> {}]
    /\ typed = [e \in Ends |-> 0]
    /\ input = [e \in Ends |-> <<>>]
    /\ ended = [e \in Ends |-> FALSE]
    /\ unreadable = [e \in Ends |-> FALSE]
    /\ printed = [e \in Ends |-> <<>>]
    /\ outcome = [e \in Ends |-> "running"]

----------------------------------------------------------------------------
(* The main thread.                                                        *)

\* The process is gone, and with it every handle of its socket.
Quit(e, how, unread) ==
    /\ main' = [main EXCEPT ![e] = "exited"]
    /\ receiver' = [receiver EXCEPT ![e] = "ended"]
    /\ outcome' = [outcome EXCEPT ![e] = how]
    /\ DropWith(e, Handles, unread)
    /\ UNCHANGED <<ids, key, stdin, printed>>

SendHello(e) ==
    /\ main[e] = "hello"
    /\ Write(e, CreateHello(identity[e], e))
    /\ main' = [main EXCEPT ![e] = "await"]
    /\ UNCHANGED <<ids, receiver, key, stdin, printed, outcome>>

\* Mutant: the hello is parsed and not verified.
AcceptsAnyHello(e, frame) == frame.kind = "hello"

Accepts(e, frame) == frame.kind = "hello" /\ VerifyHello(frame, Expected(e))

RecvHello(e) ==
    /\ main[e] = "await"
    /\ HasFrame(e)
    /\ Accepts(e, NextFrame(e))
    /\ Consume(e)
    /\ key' = [key EXCEPT ![e] = DeriveSessionKey(e, NextFrame(e).exchange_public_key)]
    /\ receiver' = [receiver EXCEPT ![e] = "reading"]
    /\ main' = [main EXCEPT ![e] = "send"]
    /\ UNCHANGED <<open, rst, ids, stdin, printed, outcome>>

HandshakeFails(e) ==
    /\ main[e] = "await"
    /\ \/ HasFrame(e) /\ ~ Accepts(e, NextFrame(e))
       \/ StreamOver(e)
    /\ Quit(e, "failed", Unread(e))

NextLine(e) == Head(input[e])

ReadLine(e) == input' = [input EXCEPT ![e] = Tail(@)]

SkipLine(e) ==
    /\ main[e] = "send"
    /\ input[e] # <<>>
    /\ NextLine(e) = Blank
    /\ ReadLine(e)
    /\ UNCHANGED <<tcp, ids, main, receiver, key, typed, ended, unreadable, printed, outcome>>

\* Mutant: blank lines are sent like others.
SendAnyLine(e) ==
    /\ main[e] = "send"
    /\ input[e] # <<>>
    /\ Write(e, Encrypt(key[e], NextLine(e)))
    /\ ReadLine(e)
    /\ UNCHANGED <<ids, main, receiver, key, typed, ended, unreadable, printed, outcome>>

\* Mutant: a line that was sent is sent again.
SendLineAgain(e) ==
    /\ main[e] = "send"
    /\ input[e] # <<>>
    /\ NextLine(e) # Blank
    /\ Write(e, Encrypt(key[e], NextLine(e)))
    /\ UNCHANGED <<ids, main, receiver, key, stdin, printed, outcome>>

SendLine(e) ==
    /\ main[e] = "send"
    /\ input[e] # <<>>
    /\ NextLine(e) # Blank
    /\ Write(e, Encrypt(key[e], NextLine(e)))
    /\ ReadLine(e)
    /\ UNCHANGED <<ids, main, receiver, key, typed, ended, unreadable, printed, outcome>>

\* send_loop returns, which drops the writer; what is left of the input will
\* never be read.
SendLoopEnds(e) ==
    /\ main' = [main EXCEPT ![e] = "join"]
    /\ Drop(e, {"writer"})
    /\ UNCHANGED <<ids, receiver, key, typed, ended, printed, outcome>>

SendFails(e) ==
    /\ main[e] = "send"
    /\ input[e] # <<>>
    /\ NextLine(e) # Blank
    /\ WriteFails(e)
    /\ ReadLine(e)
    /\ SendLoopEnds(e)
    /\ UNCHANGED unreadable

\* Mutant: the end of the input overtakes the lines before it.
InputOverTooSoon(e) ==
    /\ main[e] = "send"
    /\ ended[e]
    /\ SendLoopEnds(e)
    /\ UNCHANGED <<input, unreadable>>

InputIsOver(e) ==
    /\ main[e] = "send"
    /\ input[e] = <<>>
    /\ ended[e]
    /\ SendLoopEnds(e)
    /\ UNCHANGED <<input, unreadable>>

\* The next line cannot be read: it is not UTF-8, or the input gives an error.
\* It is none of the typed ones; those before it have been read, and those
\* behind it stay where they are.
StdinFails(e) ==
    /\ main[e] = "send"
    /\ SendLoopEnds(e)
    /\ unreadable' = [unreadable EXCEPT ![e] = TRUE]
    /\ UNCHANGED input

\* Mutant: the receive thread is not joined.
FinishAtOnce(e) == main[e] = "join" /\ Quit(e, "finished", wire[Other(e)])

\* receive_thread.join() returns.
Finish(e) ==
    /\ main[e] = "join"
    /\ receiver[e] = "ended"
    /\ Quit(e, "finished", wire[Other(e)])

----------------------------------------------------------------------------
(* The receive thread.                                                     *)

Receive(e) ==
    /\ receiver[e] = "reading"
    /\ HasFrame(e)
    /\ Decrypts(key[e], NextFrame(e))
    /\ printed' = [printed EXCEPT ![e] = Append(@, NextFrame(e).body)]
    /\ Consume(e)
    /\ UNCHANGED <<open, rst, ids, main, receiver, key, stdin, outcome>>

\* Mutant: a read of 0 bytes is not taken for the end of the stream.
ReadFailsOnGarbage(e) == HasFrame(e) /\ ~ Decrypts(key[e], NextFrame(e))

ReadFails(e) ==
    StreamOver(e) \/ (HasFrame(e) /\ ~ Decrypts(key[e], NextFrame(e)))

ReceiveEnds(e) ==
    /\ receiver[e] = "reading"
    /\ ReadFails(e)
    /\ receiver' = [receiver EXCEPT ![e] = "ended"]
    /\ DropWith(e, {"reader"}, Unread(e))
    /\ UNCHANGED <<ids, main, key, stdin, printed, outcome>>

----------------------------------------------------------------------------
(* The user, or the program at the other end of the pipe.                  *)

Type(e) ==
    /\ main[e] # "exited"
    /\ ~ ended[e]
    /\ typed[e] < MaxLines
    /\ typed' = [typed EXCEPT ![e] = @ + 1]
    /\ \E blank \in {<<>>, <<Blank>>} :
          input' = [input EXCEPT ![e] = @ \o blank \o <<typed[e] + 1>>]
    /\ UNCHANGED <<tcp, ids, main, receiver, key, ended, unreadable, printed, outcome>>

EndInput(e) ==
    /\ main[e] # "exited"
    /\ ~ ended[e]
    /\ ended' = [ended EXCEPT ![e] = TRUE]
    /\ UNCHANGED <<tcp, ids, main, receiver, key, typed, input, unreadable, printed,
                   outcome>>

\* Ctrl+C, or the process is killed.
Interrupt(e) == main[e] # "exited" /\ Quit(e, "killed", wire[Other(e)])

----------------------------------------------------------------------------
Kernel(e) ==
    RstArrives(e) /\ UNCHANGED <<ids, main, receiver, key, stdin, printed, outcome>>

MainThread(e) ==
    \/ SendHello(e) \/ RecvHello(e) \/ HandshakeFails(e)
    \/ SkipLine(e) \/ SendLine(e) \/ SendFails(e) \/ InputIsOver(e) \/ Finish(e)

ReceiveThread(e) == Receive(e) \/ ReceiveEnds(e)

User(e) == Type(e) \/ EndInput(e) \/ StdinFails(e) \/ Interrupt(e)

Next == \E e \in Ends : MainThread(e) \/ ReceiveThread(e) \/ User(e) \/ Kernel(e)

\* The threads run and the network delivers; nobody has to type, to end the
\* input, to make it unreadable or to interrupt anything.
ThreadsFair(e) ==
    WF_vars(MainThread(e)) /\ WF_vars(ReceiveThread(e)) /\ WF_vars(Kernel(e))

Fairness == \A e \in Ends : ThreadsFair(e)

Spec == Init /\ [][Next]_vars

FairSpec == Spec /\ Fairness

\* Where each thread can go on: its guards, for the proofs, which cannot expand
\* ENABLED.
MainCanStep(e) ==
    \/ main[e] = "hello" /\ CanWrite(e)
    \/ main[e] = "await" /\ (HasFrame(e) \/ StreamOver(e))
    \/ /\ main[e] = "send" /\ input[e] # <<>>
       /\ NextLine(e) = Blank \/ CanWrite(e) \/ WriteFails(e)
    \/ main[e] = "send" /\ input[e] = <<>> /\ ended[e]
    \/ main[e] = "join" /\ receiver[e] = "ended"

ReceiverCanStep(e) == receiver[e] = "reading" /\ (HasFrame(e) \/ StreamOver(e))

KernelCanStep(e) == rst[e] = "inflight"

MainGuardEnables(e) == MainCanStep(e) => ENABLED <<MainThread(e)>>_vars

ReceiverGuardEnables(e) == ReceiverCanStep(e) => ENABLED <<ReceiveThread(e)>>_vars

KernelGuardEnables(e) == KernelCanStep(e) => ENABLED <<Kernel(e)>>_vars

GuardsEnable == \A e \in Ends :
    MainGuardEnables(e) /\ ReceiverGuardEnables(e) /\ KernelGuardEnables(e)

----------------------------------------------------------------------------
(* Properties.                                                             *)

Frame == [kind : {"chat"}, key : SUBSET Ends, body : 1..MaxLines]
         \cup {CreateHello(i, e) : i \in Identity, e \in Ends}

\* Every variable has its type.
TypeOK ==
    /\ wire \in [Ends -> Seq(Frame)]
    /\ open \in [Ends -> SUBSET Handles]
    /\ rst \in [Ends -> {"none", "inflight", "arrived"}]
    /\ identity \in [Ends -> Identity]
    /\ invited \in Identity
    /\ main \in [Ends -> {"hello", "await", "send", "join", "exited"}]
    /\ receiver \in [Ends -> {"none", "reading", "ended"}]
    /\ key \in [Ends -> SUBSET Ends]
    /\ typed \in [Ends -> 0..MaxLines]
    /\ input \in [Ends -> Seq(0..MaxLines)]
    /\ ended \in [Ends -> BOOLEAN]
    /\ unreadable \in [Ends -> BOOLEAN]
    /\ printed \in [Ends -> Seq(1..MaxLines)]
    /\ outcome \in [Ends -> {"running", "failed", "finished", "killed"}]

\* verify_hello of the CLI: with a host that is not the inviter, nothing is
\* printed at either end, whatever is typed.
PrintsNoStranger ==
    identity["host"] # invited => \A e \in Ends : printed[e] = <<>>

\* The end of both inputs does not end the chat: each process waits for the
\* other one's socket to close.  One of the two has to be interrupted, or must
\* have failed the handshake, before any process finishes.
SomebodyMustInterrupt ==
    (\E e \in Ends : outcome[e] = "finished") =>
        \E e \in Ends : outcome[e] \in {"killed", "failed"}

\* What the users may observe of the chat.
phase == [e \in Ends |->
    CASE receiver[e] = "none" -> "opening"
      [] receiver[e] = "reading" -> "open"
      [] receiver[e] = "ended" -> "over"]

Promise == INSTANCE Relay WITH MaxSend <- MaxLines, sent <- typed, shown <- printed

\* The CLI keeps the promise of Relay, as the desktop app does.
KeepsPromise == Promise!Spec

Over == \E e \in Ends : outcome[e] # "running"

\* Line n has not been read.
Waits(e, n) == \E i \in 1..Len(input[e]) : input[e][i] = n

\* It is behind the one that could not be read.
NeverRead(e, n) == unreadable[e] /\ Waits(e, n)

\* A line that is typed is printed at the other end, even if the input ends
\* right after it, as long as neither process is gone.  The exception is a
\* line behind one that could not be read: send_loop is over, the connection
\* is not.  What was read before that is printed all the same.
TypedIsPrinted == \A e \in Ends : \A n \in 1..MaxLines :
    typed[e] >= n ~> Len(printed[Other(e)]) >= n \/ Over \/ NeverRead(e, n)

\* When one process is gone and the other one has no more input to send,
\* because it is over or send_loop is, that one ends as well.
FollowsPeer == \A e \in Ends :
    main[Other(e)] = "exited" /\ (ended[e] \/ main[e] = "join") ~> main[e] = "exited"
=============================================================================
