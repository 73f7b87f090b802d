-------------------------- MODULE MCRemoteServer --------------------------
(* A small instance of RemoteServer.  Either every build has a session ID   *)
(* of its own, as identity.NewID gives it, and its client watches it; or    *)
(* clients of the server's interface build again and again in one session.  *)
EXTENDS RemoteServer

CONSTANTS Own,                   \* the builds with an ID of their own
          SharedBuild, SharedID  \* the builds of the one session, and its ID

VARIABLE part    \* "own" or "shared"

all == <<part, vars>>

MCIDs == [b \in Build |-> ({b} \cap Own) \cup {SharedID}]

MCInit == part \in {"own", "shared"} /\ Init

inOwn(A) ==
    /\ part = "own" /\ A /\ UNCHANGED part
    /\ \A b \in Build : call'[b].id # None => b \in Own /\ call'[b].id = b
inShared(A) ==
    /\ part = "shared" /\ A /\ UNCHANGED <<part, proc>>
    /\ \A b \in Build : call'[b].id # None => b \in SharedBuild /\ call'[b].id = SharedID

MCNext == inOwn(Next) \/ inShared(Next)

\* The fairness of the server and the clients; that of the shared session is of
\* no use to the safety property it is checked for.
MCFairness ==
    /\ \A b \in Own :
          /\ WF_all(inOwn(BuildStep(b))) /\ WF_all(inOwn(StatusFinds(b)))
          /\ WF_all(inOwn(\E c \in Own : Forward(b, c))) /\ WF_all(inOwn(ClientReturns(b)))
    /\ \A id \in Own : WF_all(inOwn(DisconnectEnd(id)))

MCSpec == MCInit /\ [][MCNext]_all /\ MCFairness

\* The client's build returns, whatever others do to the server.
OwnBuildsReturn == part = "own" => BuildsReturn
=============================================================================
