-------------------------------- MODULE Tcp --------------------------------
(***************************************************************************)
(* One TCP connection between the end that accepted it and the end that    *)
(* connected, as Fauna's sessions use it.  The program never calls         *)
(* shutdown(): it holds two handles of one socket (try_clone gives the     *)
(* writer, the BufReader keeps the other) and the kernel closes the socket *)
(* when the last of them is dropped.  The kernel's part is external.       *)
(*                                                                         *)
(* A frame is one JSON line.  write_json_line may be cut off in the middle *)
(* of a line, and the reader then finds a line that does not parse: that   *)
(* ends its loop exactly as an end of stream does, so a line is either on  *)
(* the wire as a whole or not at all.                                      *)
(***************************************************************************)
EXTENDS Naturals, Sequences

CONSTANT SocketCap      \* frames the kernel buffers of one direction can hold

ASSUME SocketCapAssumption == SocketCap \in Nat \ {0}

VARIABLES
    wire,   \* wire[e]: frames written by e that the other end has not read
    open,   \* open[e]: the handles of e's socket that are not dropped yet
    rst     \* rst[e]: whether a reset is on its way to e, or has arrived

tcp == <<wire, open, rst>>

Ends == {"host", "joiner"}

Other(e) == IF e = "host" THEN "joiner" ELSE "host"

Handles == {"reader", "writer"}

Closed(e) == open[e] = {}

TcpInit ==
    /\ wire = [e \in Ends |-> <<>>]
    /\ open = [e \in Ends |-> Handles]
    /\ rst = [e \in Ends |-> "none"]

(***************************************************************************)
(* A write succeeds as long as no reset has arrived and there is room.     *)
(* What is written to a socket that is already closed is lost, and         *)
(* answered by a reset.                                                    *)
(***************************************************************************)
Write(e, frame) ==
    /\ rst[e] # "arrived"
    /\ \/ /\ ~ Closed(Other(e))
          /\ Len(wire[e]) < SocketCap
          /\ wire' = [wire EXCEPT ![e] = Append(@, frame)]
          /\ UNCHANGED rst
       \/ /\ Closed(Other(e))
          /\ rst' = [rst EXCEPT ![e] = "inflight"]
          /\ UNCHANGED wire
    /\ UNCHANGED open

WriteFails(e) == rst[e] = "arrived"

\* The guard of Write, for the proofs.
CanWrite(e) ==
    rst[e] # "arrived" /\ (Closed(Other(e)) \/ Len(wire[e]) < SocketCap)

HasFrame(e) == wire[Other(e)] # <<>>

NextFrame(e) == Head(wire[Other(e)])

\* What is left on the wire once e has read the next frame, if there is one.
Unread(e) == SubSeq(wire[Other(e)], 2, Len(wire[Other(e)]))

Consume(e) == wire' = [wire EXCEPT ![Other(e)] = Unread(e)]

\* read_line returns 0 bytes, or an error.
StreamOver(e) ==
    /\ ~ HasFrame(e)
    /\ Closed(Other(e)) \/ rst[e] = "arrived"

(***************************************************************************)
(* Handles hs of e's socket are dropped while the frames `unread` wait to  *)
(* be read by e.  If they were the last ones the socket closes: the unread *)
(* frames are gone, and when some of them were still in the kernel (not in *)
(* the BufReader) the other end gets a reset in place of an end of stream. *)
(***************************************************************************)
DropWith(e, hs, unread) ==
    /\ open' = [open EXCEPT ![e] = @ \ hs]
    /\ \/ /\ open[e] \ hs # {}
          /\ wire' = [wire EXCEPT ![Other(e)] = unread]
          /\ UNCHANGED rst
       \/ /\ open[e] \ hs = {}
          /\ wire' = [wire EXCEPT ![Other(e)] = <<>>]
          /\ \/ UNCHANGED rst
             \/ /\ unread # <<>>
                /\ rst[Other(e)] # "arrived"
                /\ rst' = [rst EXCEPT ![Other(e)] = "inflight"]

Drop(e, hs) == DropWith(e, hs, wire[Other(e)])

\* A reset arrives: any number of the last frames on their way to e is lost.
RstArrives(e) ==
    /\ rst[e] = "inflight"
    /\ rst' = [rst EXCEPT ![e] = "arrived"]
    /\ \E kept \in 0..Len(wire[Other(e)]) :
          wire' = [wire EXCEPT ![Other(e)] = SubSeq(@, 1, kept)]
    /\ UNCHANGED open
=============================================================================
