------------------------------- MODULE MCWire -------------------------------
(* What goes between the client and the server of the remote controller: the *)
(* encoding of its messages and the stream of an Invoke call.  The one keeps *)
(* no state of the other, so a behaviour of the two is one of either.        *)
EXTENDS ControllerCodec, RemoteIO

CONSTANT MaxChunksInAll  \* bound on the chunks of both directions together

VARIABLE part    \* the component that runs

all == <<part, vars, ioVars>>

\* The stream runs while the codec rests at one of its initial states.
MCInit ==
    /\ part \in {"codec", "stream"} /\ Init /\ StreamInit
    /\ part = "stream" => type = "SignalMessage" /\ order = "up" /\ message = Full(type)

inCodec == part = "codec" /\ UNCHANGED <<part, ioVars>>
inStream == part = "stream" /\ UNCHANGED <<part, vars>>
fewChunks == copied[Server] + copied[Client] <= MaxChunksInAll

MCNext == (inCodec /\ Next) \/ (inStream /\ StreamNext /\ fewChunks')

\* Some goroutine of the stream runs while one can: weaker than the fairness of
\* RemoteIO to each of them, so what holds here holds there.
MCFairness ==
    WF_all(/\ inStream
           /\ \/ Accept \/ Refuse \/ ServerReturns \/ AttachReturns
              \/ \E d \in Sides : Sender(d) \/ Receiver(d) \/ Dispatcher(d))

MCSpec == MCInit /\ [][MCNext]_all /\ MCFairness
=============================================================================
