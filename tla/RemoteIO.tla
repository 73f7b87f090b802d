------------------------------- MODULE RemoteIO -------------------------------
(***************************************************************************)
(* The stream between a process on the buildx server and its client        *)
(* (controller/remote/io.go, Client.Invoke, Server.Invoke): serveIO and    *)
(* attachIO have the same four goroutines, one that reads the source (the  *)
(* output of the process, the keyboard), one that sends what was read, one *)
(* that receives and one that dispatches messages.  Both directions carry  *)
(* messages in order until the stream is cancelled or ends with a status.  *)
(*                                                                         *)
(* Of the two outputs of a process only one is modelled; the code treats   *)
(* them alike.  Signals and window sizes, which change nothing here, are   *)
(* left out.  Neither side sends a kind of message or a descriptor that    *)
(* the other does not expect, so the errors for these do not occur.        *)
(***************************************************************************)
EXTENDS Naturals, Sequences

CONSTANTS
    MaxOutput,   \* bound on the chunks the process prints
    MaxInput     \* bound on the chunks the user types

Server == "server"
Client == "client"
Sides == {Server, Client}
Other(d) == IF d = Server THEN Client ELSE Server

\* Messages: a chunk of a file is its number, 0 is its EOF.
EOF == 0
MaxChunks(d) == IF d = Server THEN MaxOutput ELSE MaxInput

VARIABLES
    phase,      \* of the server: "init", "serving" or "returned"
    outcome,    \* the status of the stream: "none", "ok" or "error"
    broken,     \* the client has cancelled the stream
    exited,     \* the process has exited: "no", "ok" or "error"
    copy,       \* the reading goroutine: "read", "write" or "ended"
    copied,     \* chunks the source has supplied
    pipe,       \* sides whose pipe between the two goroutines is closed
    send,       \* the sending goroutine: "read", "send", "eof" or "ended"
    carried,    \* the chunk it has read from the pipe
    stream,     \* messages under way to each side
    recv,       \* the receiving goroutine: "receive", "give", "stuck" or "ended"
    inHand,     \* the message it holds, EOF for none
    disp,       \* the dispatching goroutine: "wait", "handle" or "ended"
    msg,        \* the message it handles, EOF for none
    ctx,        \* sides whose context has ended
    err,        \* sides with an error
    out,        \* chunks written to the destination
    eof,        \* sides that have handled EOF
    returned    \* the client has returned

pumpVars == <<copy, copied, pipe, send, carried>>
recvVars == <<recv, inHand, disp, msg, out, eof>>
streamVars == <<phase, outcome, broken, returned>>
ioVars == <<exited, pumpVars, recvVars, streamVars, stream, ctx, err>>

\* The client has sent the init message.
StreamInit ==
    /\ phase = "init" /\ outcome = "none" /\ broken = FALSE /\ exited = "no" /\ returned = FALSE
    /\ pipe = {}
    /\ copy = [d \in Sides |-> "read"] /\ copied = [d \in Sides |-> 0] /\ send = [d \in Sides |-> "read"]
    /\ carried = [d \in Sides |-> 0]
    /\ stream = [d \in Sides |-> <<>>]
    /\ recv = [d \in Sides |-> "receive"] /\ inHand = [d \in Sides |-> EOF]
    /\ disp = [d \in Sides |-> "wait"] /\ msg = [d \in Sides |-> EOF]
    /\ ctx = {} /\ err = {} /\ out = [d \in Sides |-> <<>>] /\ eof = {}

Running(d) == IF d = Server THEN phase = "serving" ELSE ~returned
Done(d) == disp[d] = "ended"

\* A goroutine of the group returns an error: the context of the group ends.
Fail(d) == err' = err \cup {d} /\ ctx' = ctx \cup {d}
Fine == UNCHANGED <<err, ctx>>

-----------------------------------------------------------------------------
\* The server answers the init message, or refuses it.
Accept ==
    /\ phase = "init"
    /\ phase' = "serving"
    /\ UNCHANGED <<exited, pumpVars, recvVars, outcome, broken, returned, stream, ctx, err>>

Refuse ==
    /\ phase = "init"
    /\ phase' = "returned" /\ outcome' = "error"
    /\ UNCHANGED <<exited, pumpVars, recvVars, broken, returned, stream, ctx, err>>

\* Invoke cancels serveIO when the process is done.
ProcessEnds(how) ==
    /\ phase = "serving" /\ exited = "no"
    /\ exited' = how /\ ctx' = ctx \cup {Server}
    /\ UNCHANGED <<pumpVars, recvVars, streamVars, stream, err>>

\* The caller of Client.Invoke cancels its context, which is the stream's too.
Cancel ==
    /\ ~returned /\ ~broken
    /\ broken' = TRUE /\ ctx' = ctx \cup {Client}
    /\ UNCHANGED <<exited, pumpVars, recvVars, phase, outcome, returned, stream, err>>

-----------------------------------------------------------------------------
\* io.Copy from the source, the output of the process or the keyboard, into the
\* pipe, which is closed when the source ends and when the dispatcher is done.
CopyRead(d) ==
    /\ Running(d) /\ copy[d] = "read" /\ copied[d] < MaxChunks(d)
    /\ copy' = [copy EXCEPT ![d] = "write"] /\ copied' = [copied EXCEPT ![d] = @ + 1]
    /\ UNCHANGED <<exited, pipe, send, carried, recvVars, streamVars, stream, ctx, err>>

closesEarly(d) == \* mutant: the pipe is closed before the last chunk has been taken out of it
    /\ Running(d) /\ copy[d] \in {"read", "write"}
    /\ copy' = [copy EXCEPT ![d] = "ended"] /\ pipe' = pipe \cup {d}
    /\ UNCHANGED <<exited, copied, send, carried, recvVars, streamVars, stream, ctx, err>>

CopyEnds(d) ==
    /\ Running(d) /\ copy[d] = "read"
    /\ copy' = [copy EXCEPT ![d] = "ended"] /\ pipe' = pipe \cup {d}
    /\ UNCHANGED <<exited, copied, send, carried, recvVars, streamVars, stream, ctx, err>>

CopyFails(d) ==
    /\ Running(d) /\ copy[d] = "write" /\ d \in pipe
    /\ copy' = [copy EXCEPT ![d] = "ended"]
    /\ UNCHANGED <<exited, copied, pipe, send, carried, recvVars, streamVars, stream, ctx, err>>

neverCloses(d) == FALSE \* mutant: nothing closes the pipe when the dispatcher is done

ClosePipe(d) ==
    /\ Running(d) /\ Done(d) /\ d \notin pipe
    /\ pipe' = pipe \cup {d}
    /\ UNCHANGED <<exited, copy, copied, send, carried, recvVars, streamVars, stream, ctx, err>>

\* copyToStream
SendRead(d) ==
    /\ Running(d) /\ send[d] = "read"
    /\ \/ /\ d \notin pipe /\ copy[d] = "write"
          /\ send' = [send EXCEPT ![d] = "send"] /\ copy' = [copy EXCEPT ![d] = "read"]
          /\ carried' = [carried EXCEPT ![d] = copied[d]]
       \/ d \in pipe /\ send' = [send EXCEPT ![d] = "eof"] /\ UNCHANGED <<copy, carried>>
    /\ UNCHANGED <<exited, copied, pipe, recvVars, streamVars, stream, ctx, err>>

Open(d) == ~broken /\ (d = Client => outcome = "none")

SendMessage(d) ==
    /\ Running(d) /\ send[d] \in {"send", "eof"}
    /\ \/ /\ Open(d)
          /\ stream' = [stream EXCEPT ![Other(d)] = Append(@, IF send[d] = "send" THEN carried[d] ELSE EOF)]
          /\ send' = [send EXCEPT ![d] = IF send[d] = "send" THEN "read" ELSE "ended"]
          /\ Fine
       \/ ~Open(d) /\ send' = [send EXCEPT ![d] = "ended"] /\ Fail(d) /\ UNCHANGED stream
    /\ UNCHANGED <<exited, copy, copied, pipe, carried, recvVars, streamVars>>

-----------------------------------------------------------------------------
\* receive: a message, an error, or the end of the context.  When the stream
\* ends without an error only the end of the context is left.
ReceiveMessage(d) ==
    /\ Running(d) /\ recv[d] = "receive" /\ stream[d] # <<>>
    /\ inHand' = [inHand EXCEPT ![d] = Head(stream[d])] /\ stream' = [stream EXCEPT ![d] = Tail(@)]
    /\ recv' = [recv EXCEPT ![d] = "give"]
    /\ UNCHANGED <<exited, pumpVars, disp, msg, out, eof, streamVars, ctx, err>>

ReceiveError(d) ==
    /\ Running(d) /\ recv[d] \in {"receive", "stuck"}
    /\ \/ d \in ctx
       \/ recv[d] = "receive" /\ broken
       \/ recv[d] = "receive" /\ d = Client /\ outcome = "error" /\ stream[d] = <<>>
    /\ recv' = [recv EXCEPT ![d] = "ended"] /\ Fail(d)
    /\ UNCHANGED <<exited, pumpVars, inHand, disp, msg, out, eof, streamVars, stream>>

ReceiveEnd ==
    /\ Running(Client) /\ recv[Client] = "receive" /\ outcome = "ok" /\ stream[Client] = <<>>
    /\ recv' = [recv EXCEPT ![Client] = "stuck"]
    /\ UNCHANGED <<exited, pumpVars, inHand, disp, msg, out, eof, streamVars, stream, ctx, err>>

\* The message is handed to the dispatcher, or dropped.
Give(d) ==
    /\ Running(d) /\ recv[d] = "give"
    /\ \/ /\ disp[d] = "wait"
          /\ msg' = [msg EXCEPT ![d] = inHand[d]] /\ disp' = [disp EXCEPT ![d] = "handle"]
          /\ recv' = [recv EXCEPT ![d] = "receive"]
       \/ (Done(d) \/ d \in ctx) /\ recv' = [recv EXCEPT ![d] = "ended"] /\ UNCHANGED <<msg, disp>>
    /\ inHand' = [inHand EXCEPT ![d] = EOF]
    /\ UNCHANGED <<exited, pumpVars, out, eof, streamVars, stream, ctx, err>>

DispatchEnds(d) ==
    /\ Running(d) /\ disp[d] = "wait" /\ (d \in ctx \/ recv[d] = "ended")
    /\ disp' = [disp EXCEPT ![d] = "ended"]
    /\ UNCHANGED <<exited, pumpVars, recv, inHand, msg, out, eof, streamVars, stream, ctx, err>>

\* The chunk is written to its destination, by the client only before an EOF.  The
\* write fails when the process that would read it has exited, and on the client
\* whenever the terminal or the caller's output refuses it.
Handle(d) ==
    /\ Running(d) /\ disp[d] = "handle"
    /\ \/ /\ out' = [out EXCEPT ![d] = IF msg[d] = EOF \/ (d = Client /\ d \in eof) THEN @ ELSE Append(@, msg[d])]
          /\ eof' = IF msg[d] = EOF THEN eof \cup {d} ELSE eof
          /\ disp' = [disp EXCEPT ![d] = "wait"] /\ Fine
       \/ /\ msg[d] # EOF /\ d \notin (eof \cap {Client}) /\ (d = Server => exited # "no")
          /\ disp' = [disp EXCEPT ![d] = "ended"] /\ Fail(d) /\ UNCHANGED <<out, eof>>
    /\ msg' = [msg EXCEPT ![d] = EOF]
    /\ UNCHANGED <<exited, pumpVars, recv, inHand, streamVars, stream>>

-----------------------------------------------------------------------------
\* eg.Wait: every goroutine of the group has returned.
AllEnded(d) == send[d] = "ended" /\ d \in pipe /\ recv[d] = "ended" /\ disp[d] = "ended"

ServerReturns ==
    /\ phase = "serving" /\ AllEnded(Server)
    /\ phase' = "returned" /\ outcome' = IF Server \in err \/ exited = "error" THEN "error" ELSE "ok"
    /\ UNCHANGED <<exited, pumpVars, recvVars, broken, returned, stream, ctx, err>>

\* The caller cancels the context when Client.Invoke has returned.
AttachReturns ==
    /\ ~returned /\ AllEnded(Client)
    /\ returned' = TRUE /\ broken' = TRUE
    /\ UNCHANGED <<exited, pumpVars, recvVars, phase, outcome, stream, ctx, err>>

Source(d) == CopyRead(d) \/ CopyEnds(d)
Sender(d) == CopyFails(d) \/ ClosePipe(d) \/ SendRead(d) \/ SendMessage(d)
Receiver(d) == ReceiveMessage(d) \/ ReceiveError(d) \/ Give(d)
Dispatcher(d) == DispatchEnds(d) \/ Handle(d)

StreamNext ==
    \/ Accept \/ Refuse \/ Cancel \/ ServerReturns \/ AttachReturns \/ ReceiveEnd
    \/ \E how \in {"ok", "error"} : ProcessEnds(how)
    \/ \E d \in Sides : Source(d) \/ Sender(d) \/ Receiver(d) \/ Dispatcher(d)

StreamSpec == StreamInit /\ [][StreamNext]_ioVars

\* Goroutines run and messages arrive; nothing makes a process print or exit, a
\* user type or cancel.
StreamFairness ==
    /\ WF_ioVars(Accept \/ Refuse \/ ServerReturns) /\ WF_ioVars(AttachReturns)
    /\ \A d \in Sides : WF_ioVars(Sender(d)) /\ WF_ioVars(Receiver(d)) /\ WF_ioVars(Dispatcher(d))

StreamFairSpec == StreamSpec /\ StreamFairness

-----------------------------------------------------------------------------
\* Either side writes out what the other has read, in order, nothing twice and
\* nothing left out before the end.  EOF comes after everything that was read
\* before it: when it arrives and the sending side has not been stopped, nothing
\* is missing.
NoGaps ==
    /\ \A d \in Sides : out[d] = [n \in 1..Len(out[d]) |-> n]
    /\ \A d \in eof : ~Done(Other(d)) => copy[Other(d)] = "ended" /\ Len(out[d]) = copied[Other(d)]

\* The exit of the process, or the end of the client, ends the server's side;
\* cancelling, or a status with an error, ends the client's.
BothEnd ==
    /\ (exited # "no" \/ returned) ~> (phase = "returned")
    /\ (broken \/ outcome = "error") ~> returned
=============================================================================
