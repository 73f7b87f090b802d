---------------------------- MODULE StreamProofs ----------------------------
(***************************************************************************)
(* The streams between a terminal and its container, for any number of     *)
(* chunks, readers, writers and monitor commands.  RemoteIO, the stream of *)
(* a remote Invoke: no output ever has a gap.  Forwarder, the copiers of   *)
(* ioset: the bytes of each reader are written in order, and what was      *)
(* replaced or closed is closed.  Monitor, the console: the keyboard goes  *)
(* to an output that is enabled and served.                                *)
(***************************************************************************)
EXTENDS RemoteIO, Forwarder, Monitor, TLAPS

(* How many chunks have left the dispatcher, the receiver and the stream of *)
(* side o, those it holds included.                                         *)
given(o) == Len(out[o]) + (IF disp[o] = "handle" /\ msg[o] # EOF THEN 1 ELSE 0)
passed(o) == given(o) + (IF recv[o] = "give" /\ inHand[o] # EOF THEN 1 ELSE 0)
sending(d) == IF send[d] = "send" THEN 1 ELSE 0
writing(d) == IF copy[d] = "write" THEN 1 ELSE 0
live(o) == recv[o] \in {"receive", "give"} /\ disp[o] # "ended"

StreamTyped ==
    /\ copy \in [Sides -> {"read", "write", "ended"}] /\ copied \in [Sides -> Nat]
    /\ pipe \subseteq Sides /\ carried \in [Sides -> Nat]
    /\ send \in [Sides -> {"read", "send", "eof", "ended"}]
    /\ stream \in [Sides -> Seq(Nat)] /\ out \in [Sides -> Seq(Nat)]
    /\ recv \in [Sides -> {"receive", "give", "stuck", "ended"}] /\ inHand \in [Sides -> Nat]
    /\ disp \in [Sides -> {"wait", "handle", "ended"}] /\ msg \in [Sides -> Nat]
    /\ eof \subseteq Sides

(* What arrives at o: the chunks that are under way go on where its output  *)
(* ends.                                                                    *)
InTurn(o) ==
    /\ \A k \in 1..Len(out[o]) : out[o][k] = k
    /\ disp[o] = "handle" /\ msg[o] # EOF => msg[o] = Len(out[o]) + 1
    /\ live(o) /\ recv[o] = "give" /\ inHand[o] # EOF => inHand[o] = given(o) + 1
    /\ live(o) => \A k \in 1..Len(stream[o]) : stream[o][k] \in {EOF, passed(o) + k}

(* EOF is the last message that d sends to o.                               *)
EofLast(o, d) ==
    /\ \A k \in 1..Len(stream[o]) :
          stream[o][k] = EOF => k = Len(stream[o]) /\ send[d] = "ended"
    /\ recv[o] = "give" /\ inHand[o] = EOF => stream[o] = <<>> /\ send[d] = "ended"
    /\ disp[o] = "handle" /\ msg[o] = EOF =>
          stream[o] = <<>> /\ send[d] = "ended" /\ recv[o] # "give"
    /\ o \in eof =>
          stream[o] = <<>> /\ send[d] = "ended" /\ recv[o] # "give" /\ disp[o] # "handle"

(* What d has read and not yet sent comes next.                             *)
Follows(o, d) ==
    /\ send[d] = "send" => carried[d] # EOF
    /\ copy[d] = "write" => copied[d] # EOF
    /\ send[d] = "eof" => d \in pipe
    /\ d \notin pipe => copy[d] # "ended"
    /\ live(o) /\ send[d] = "send" => carried[d] = passed(o) + Len(stream[o]) + 1
    /\ live(o) /\ send[d] # "ended" /\ d \notin pipe =>
          copied[d] = passed(o) + Len(stream[o]) + sending(d) + writing(d)

(* Unless d was stopped, its pipe is closed after its last chunk went in,   *)
(* so EOF follows all that it has read.                                     *)
Complete(o, d) ==
    ~Done(d) =>
    /\ o \in eof \/ (disp[o] = "handle" /\ msg[o] = EOF) =>
          copy[d] = "ended" /\ copied[d] = Len(out[o])
    /\ recv[o] = "give" /\ inHand[o] = EOF /\ disp[o] # "ended" =>
          copy[d] = "ended" /\ copied[d] = given(o)
    /\ live(o) /\ stream[o] # <<>> /\ stream[o][Len(stream[o])] = EOF =>
          copy[d] = "ended" /\ copied[d] = passed(o) + Len(stream[o]) - 1
    /\ live(o) /\ d \in pipe /\ send[d] # "ended" =>
          copy[d] = "ended" /\ copied[d] = passed(o) + Len(stream[o]) + sending(d)

Link(o, d) == InTurn(o) /\ EofLast(o, d) /\ Follows(o, d) /\ Complete(o, d)
StreamInv == StreamTyped /\ \A o \in Sides : Link(o, Other(o))

-----------------------------------------------------------------------------
LEMMA TwoSides == \A d \in Sides : Other(d) \in Sides /\ Other(Other(d)) = d /\ Other(d) # d
BY Zenon DEF Sides, Other, Server, Client

LEMMA Appended ==
    ASSUME NEW s \in Seq(Nat), NEW m \in Nat
    PROVE  /\ Append(s, m) \in Seq(Nat) /\ Len(Append(s, m)) = Len(s) + 1
           /\ Append(s, m)[Len(s) + 1] = m
           /\ \A k \in 1..Len(s) : Append(s, m)[k] = s[k]
OBVIOUS

LEMMA Chunks ==
    ASSUME NEW s \in Seq(Nat), s # <<>>
    PROVE  /\ Len(s) \in 1..Len(s) /\ Head(s) = s[1] /\ Head(s) \in Nat
           /\ Tail(s) \in Seq(Nat) /\ Len(Tail(s)) = Len(s) - 1
           /\ \A k \in 1..Len(Tail(s)) : Tail(s)[k] = s[k + 1] /\ k + 1 \in 1..Len(s)
           /\ 1 \in 1..Len(s) /\ (Len(s) = 1 => Tail(s) = <<>>)
<1>1. /\ Len(s) \in 1..Len(s) /\ Head(s) = s[1] /\ Head(s) \in Nat
      /\ Tail(s) \in Seq(Nat) /\ Len(Tail(s)) = Len(s) - 1
      /\ \A k \in 1..Len(Tail(s)) : Tail(s)[k] = s[k + 1]
  OBVIOUS
<1>2. Len(s) \in Nat /\ Len(s) # 0
  OBVIOUS
<1>3. 1 \in 1..Len(s) /\ \A k \in 1..Len(Tail(s)) : k + 1 \in 1..Len(s)
  BY <1>1, <1>2
<1>4. \A u \in Seq(Nat) : Len(u) = 0 => u = <<>>
  OBVIOUS
<1>5. Len(s) = 1 => Tail(s) = <<>>
  <2>1. Len(s) = 1 => Len(Tail(s)) = 0
    BY <1>1
  <2> QED BY <1>1, <1>4, <2>1, Zenon
<1> QED BY <1>1, <1>3, <1>5, Zenon

LEMMA StreamInitially == StreamInit => StreamInv
<1> SUFFICES ASSUME StreamInit PROVE StreamInv
  BY Zenon
<1>1. StreamTyped
  BY DEF StreamInit, StreamTyped, Sides, EOF
<1>2. ASSUME NEW o \in Sides PROVE Link(o, Other(o))
  BY TwoSides DEF StreamInit, Link, InTurn, EofLast, Follows, Complete, Done, given, passed,
     sending, writing, live, EOF
<1> QED BY <1>1, <1>2, Zenon DEF StreamInv

SenderSame(d) ==
    /\ copy'[d] = copy[d] /\ copied'[d] = copied[d] /\ (d \in pipe' <=> d \in pipe)
    /\ send'[d] = send[d] /\ carried'[d] = carried[d]
ReceiverSame(o) ==
    /\ recv'[o] = recv[o] /\ inHand'[o] = inHand[o] /\ disp'[o] = disp[o] /\ msg'[o] = msg[o]
    /\ out'[o] = out[o] /\ (o \in eof' <=> o \in eof)

LEMMA Counts ==
    ASSUME StreamTyped, NEW o \in Sides
    PROVE  Len(out[o]) \in Nat /\ Len(stream[o]) \in Nat /\ given(o) \in Nat /\ passed(o) \in Nat
<1>1. out[o] \in Seq(Nat) /\ stream[o] \in Seq(Nat)
  BY Zenon DEF StreamTyped
<1>2. Len(out[o]) \in Nat /\ Len(stream[o]) \in Nat
  BY <1>1
<1>3. given(o) \in Nat
  <2>1. PICK e \in {0, 1} : given(o) = Len(out[o]) + e
    BY Zenon DEF given
  <2> QED BY <1>2, <2>1
<1>4. passed(o) \in Nat
  <2>1. PICK e \in {0, 1} : passed(o) = given(o) + e
    BY Zenon DEF passed
  <2> QED BY <1>3, <2>1
<1> QED BY <1>2, <1>3, <1>4, Zenon

LEMMA ReceiverRests ==
    ASSUME NEW o, ReceiverSame(o)
    PROVE  /\ given(o)' = given(o) /\ passed(o)' = passed(o) /\ (live(o)' <=> live(o))
           /\ stream'[o] = stream[o] /\ InTurn(o) => InTurn(o)'
<1>1. given(o)' = given(o) /\ passed(o)' = passed(o) /\ (live(o)' <=> live(o))
  BY Zenon DEF ReceiverSame, given, passed, live
<1>2. stream'[o] = stream[o] /\ InTurn(o) => InTurn(o)'
  BY <1>1, Zenon DEF ReceiverSame, InTurn
<1> QED BY <1>1, <1>2, Zenon

LEMMA LinkRests ==
    ASSUME NEW o, NEW d, Link(o, d), SenderSame(d), ReceiverSame(o), stream'[o] = stream[o],
           disp[d] = "ended" => disp'[d] = "ended"
    PROVE  Link(o, d)'
<1> USE DEF SenderSame, ReceiverSame
<1>1. InTurn(o)'
  BY Zenon DEF Link, InTurn, live, given, passed
<1>2. EofLast(o, d)'
  BY Zenon DEF Link, EofLast
<1>3. Follows(o, d)'
  BY Zenon DEF Link, Follows, live, given, passed, sending, writing
<1>4. Complete(o, d)'
  BY Zenon DEF Link, Complete, Done, live, given, passed, sending
<1> QED BY <1>1, <1>2, <1>3, <1>4, Zenon DEF Link

(* A step of the goroutines of d that read and send changes what o waits    *)
(* for, and nothing of the other direction.                                 *)
LEMMA SenderMoves ==
    ASSUME StreamInv, StreamTyped', NEW d \in Sides, Link(Other(d), d)',
           SenderSame(Other(d)), ReceiverSame(d), stream'[d] = stream[d], disp' = disp
    PROVE  StreamInv'
<1>1. Link(d, Other(d))'
  BY LinkRests, Zenon DEF StreamInv
<1>2. \A o \in Sides : o = d \/ o = Other(d)
  BY DEF Sides, Other
<1> QED BY <1>1, <1>2, TwoSides, Zenon DEF StreamInv

LEMMA ReceiverMoves ==
    ASSUME StreamInv, StreamTyped', NEW o \in Sides, Link(o, Other(o))',
           SenderSame(o), ReceiverSame(Other(o)), stream'[Other(o)] = stream[Other(o)],
           disp[o] = "ended" => disp'[o] = "ended"
    PROVE  StreamInv'
<1>1. Link(Other(o), o)'
  BY LinkRests, TwoSides, Zenon DEF StreamInv
<1>2. \A p \in Sides : p = o \/ p = Other(o)
  BY DEF Sides, Other
<1> QED BY <1>1, <1>2, TwoSides, Zenon DEF StreamInv

LEMMA CopyReadKeeps == ASSUME StreamInv, NEW d \in Sides, CopyRead(d) PROVE StreamInv'
<1> DEFINE o == Other(d)
<1>1. o \in Sides /\ o # d /\ Other(o) = d /\ Link(o, d) /\ StreamTyped
  BY TwoSides, Zenon DEF StreamInv
<1> HIDE DEF o
<1>2. /\ copy[d] = "read" /\ copy'[d] = "write" /\ copied'[d] = copied[d] + 1
      /\ (d \in pipe' <=> d \in pipe) /\ send'[d] = send[d] /\ carried'[d] = carried[d]
      /\ SenderSame(o) /\ ReceiverSame(o) /\ ReceiverSame(d) /\ disp' = disp
      /\ stream' = stream
  BY <1>1, Zenon DEF CopyRead, recvVars, StreamTyped, SenderSame, ReceiverSame
<1>3. StreamTyped'
  <2>1. copied' \in [Sides -> Nat] /\ copy' \in [Sides -> {"read", "write", "ended"}]
    <3>1. copied \in [Sides -> Nat] /\ copy \in [Sides -> {"read", "write", "ended"}]
      BY <1>1, Zenon DEF StreamTyped
    <3>2. copied[d] + 1 \in Nat
      BY <3>1
    <3> QED BY <3>1, <3>2, Zenon DEF CopyRead
  <2> QED BY <1>1, <2>1, Zenon DEF CopyRead, recvVars, StreamTyped
<1>4. Link(o, d)'
  <2>1. InTurn(o)'
    BY <1>1, <1>2, ReceiverRests, Zenon DEF Link
  <2>2. EofLast(o, d)'
    BY <1>1, <1>2, Zenon DEF Link, EofLast, ReceiverSame
  <2>3. Follows(o, d)'
    <3>1. copied[d] \in Nat
      BY <1>1, Zenon DEF StreamTyped
    <3> QED BY <1>1, <1>2, <3>1, Counts, ReceiverRests DEF Link, Follows, sending, writing, EOF
  <2>4. Complete(o, d)'
    BY <1>1, <1>2, Counts, ReceiverRests, Zenon
       DEF Link, Complete, Follows, Done, sending, writing, ReceiverSame, StreamTyped
  <2> QED BY <2>1, <2>2, <2>3, <2>4, Zenon DEF Link
<1> QED BY <1>1, <1>2, <1>3, <1>4, SenderMoves, Zenon DEF o

LEMMA CopyEndsKeeps == ASSUME StreamInv, NEW d \in Sides, CopyEnds(d) PROVE StreamInv'
<1> DEFINE o == Other(d)
<1>1. o \in Sides /\ o # d /\ Other(o) = d /\ Link(o, d) /\ StreamTyped
  BY TwoSides, Zenon DEF StreamInv
<1> HIDE DEF o
<1>2. /\ copy[d] = "read" /\ copy'[d] = "ended" /\ copied'[d] = copied[d]
      /\ d \in pipe' /\ send'[d] = send[d] /\ carried'[d] = carried[d]
      /\ SenderSame(o) /\ ReceiverSame(o) /\ ReceiverSame(d) /\ disp' = disp
      /\ stream' = stream
  BY <1>1, Zenon DEF CopyEnds, recvVars, StreamTyped, SenderSame, ReceiverSame
<1>3. StreamTyped'
  BY <1>1, Zenon DEF CopyEnds, recvVars, StreamTyped
<1>4. Link(o, d)'
  <2>1. InTurn(o)'
    BY <1>1, <1>2, ReceiverRests, Zenon DEF Link
  <2>2. EofLast(o, d)'
    BY <1>1, <1>2, Zenon DEF Link, EofLast, ReceiverSame
  <2>3. Follows(o, d)'
    BY <1>1, <1>2, Counts, ReceiverRests, Zenon DEF Link, Follows, sending, writing, EOF, StreamTyped
  <2>4. Complete(o, d)'
    <3>1. ~Done(d) /\ live(o) /\ send[d] # "ended" =>
             copied[d] = passed(o) + Len(stream[o]) + sending(d)
      <4>1. sending(d) \in Nat /\ writing(d) = 0
        BY <1>2, Zenon DEF sending, writing
      <4> QED BY <1>1, <1>2, <4>1, Counts DEF Link, Complete, Follows
    <3> QED BY <1>1, <1>2, <3>1, ReceiverRests
            DEF Link, Complete, Done, sending, ReceiverSame
  <2> QED BY <2>1, <2>2, <2>3, <2>4, Zenon DEF Link
<1> QED BY <1>1, <1>2, <1>3, <1>4, SenderMoves, Zenon DEF o

LEMMA CopyFailsKeeps == ASSUME StreamInv, NEW d \in Sides, CopyFails(d) PROVE StreamInv'
<1> DEFINE o == Other(d)
<1>1. o \in Sides /\ o # d /\ Other(o) = d /\ Link(o, d) /\ StreamTyped
  BY TwoSides, Zenon DEF StreamInv
<1> HIDE DEF o
<1>2. /\ copy[d] = "write" /\ d \in pipe /\ copy'[d] = "ended" /\ copied'[d] = copied[d]
      /\ (d \in pipe' <=> d \in pipe) /\ send'[d] = send[d] /\ carried'[d] = carried[d]
      /\ SenderSame(o) /\ ReceiverSame(o) /\ ReceiverSame(d) /\ disp' = disp
      /\ stream' = stream
  BY <1>1, Zenon DEF CopyFails, recvVars, StreamTyped, SenderSame, ReceiverSame
<1>3. StreamTyped'
  BY <1>1, Zenon DEF CopyFails, recvVars, StreamTyped
<1>4. Link(o, d)'
  <2>1. InTurn(o)'
    BY <1>1, <1>2, ReceiverRests, Zenon DEF Link
  <2>2. EofLast(o, d)'
    BY <1>1, <1>2, Zenon DEF Link, EofLast, ReceiverSame
  <2>3. Follows(o, d)'
    BY <1>1, <1>2, Counts, ReceiverRests, Zenon DEF Link, Follows, sending, writing, EOF, StreamTyped
  <2>4. Complete(o, d)'
    BY <1>1, <1>2, Counts, ReceiverRests, Zenon
       DEF Link, Complete, Follows, Done, sending, writing, ReceiverSame, StreamTyped
  <2> QED BY <2>1, <2>2, <2>3, <2>4, Zenon DEF Link
<1> QED BY <1>1, <1>2, <1>3, <1>4, SenderMoves, Zenon DEF o

LEMMA ClosePipeKeeps == ASSUME StreamInv, NEW d \in Sides, ClosePipe(d) PROVE StreamInv'
<1> DEFINE o == Other(d)
<1>1. o \in Sides /\ o # d /\ Other(o) = d /\ Link(o, d) /\ StreamTyped
  BY TwoSides, Zenon DEF StreamInv
<1> HIDE DEF o
<1>2. /\ Done(d) /\ copy'[d] = copy[d] /\ copied'[d] = copied[d]
      /\ d \in pipe' /\ send'[d] = send[d] /\ carried'[d] = carried[d]
      /\ SenderSame(o) /\ ReceiverSame(o) /\ ReceiverSame(d) /\ disp' = disp
      /\ stream' = stream
  BY <1>1, Zenon DEF ClosePipe, recvVars, StreamTyped, SenderSame, ReceiverSame
<1>3. StreamTyped'
  BY <1>1, Zenon DEF ClosePipe, recvVars, StreamTyped
<1>4. Link(o, d)'
  <2>1. InTurn(o)'
    BY <1>1, <1>2, ReceiverRests, Zenon DEF Link
  <2>2. EofLast(o, d)'
    BY <1>1, <1>2, Zenon DEF Link, EofLast, ReceiverSame
  <2>3. Follows(o, d)'
    BY <1>1, <1>2, Counts, ReceiverRests, Zenon DEF Link, Follows, sending, writing, EOF, StreamTyped
  <2>4. Complete(o, d)'
    BY <1>1, <1>2, Counts, ReceiverRests, Zenon
       DEF Link, Complete, Follows, Done, sending, writing, ReceiverSame, StreamTyped
  <2> QED BY <2>1, <2>2, <2>3, <2>4, Zenon DEF Link
<1> QED BY <1>1, <1>2, <1>3, <1>4, SenderMoves, Zenon DEF o

LEMMA SendReadKeeps == ASSUME StreamInv, NEW d \in Sides, SendRead(d) PROVE StreamInv'
<1> DEFINE o == Other(d)
<1>1. o \in Sides /\ o # d /\ Other(o) = d /\ Link(o, d) /\ StreamTyped
  BY TwoSides, Zenon DEF StreamInv
<1> HIDE DEF o
<1>2. /\ send[d] = "read" /\ copied'[d] = copied[d] /\ (d \in pipe' <=> d \in pipe)
      /\ \/ /\ d \notin pipe /\ copy[d] = "write" /\ send'[d] = "send" /\ copy'[d] = "read"
            /\ carried'[d] = copied[d]
         \/ d \in pipe /\ send'[d] = "eof" /\ copy'[d] = copy[d] /\ carried'[d] = carried[d]
      /\ SenderSame(o) /\ ReceiverSame(o) /\ ReceiverSame(d) /\ disp' = disp
      /\ stream' = stream
  BY <1>1, Zenon DEF SendRead, recvVars, StreamTyped, SenderSame, ReceiverSame
<1>3. StreamTyped'
  <2>1. CASE d \in pipe
    <3>1. send' = [send EXCEPT ![d] = "eof"] /\ copy' = copy /\ carried' = carried
      BY <2>1, Zenon DEF SendRead
    <3> QED BY <1>1, <3>1, Zenon DEF SendRead, recvVars, StreamTyped
  <2>2. CASE d \notin pipe
    <3>1. /\ send' = [send EXCEPT ![d] = "send"] /\ copy' = [copy EXCEPT ![d] = "read"]
          /\ carried' = [carried EXCEPT ![d] = copied[d]]
      BY <2>2, Zenon DEF SendRead
    <3> QED BY <1>1, <3>1, Zenon DEF SendRead, recvVars, StreamTyped
  <2> QED BY <2>1, <2>2, Zenon
<1>4. Link(o, d)'
  <2>1. InTurn(o)'
    BY <1>1, <1>2, ReceiverRests, Zenon DEF Link
  <2>2. EofLast(o, d)'
    BY <1>1, <1>2, Zenon DEF Link, EofLast, ReceiverSame
  <2>3. Follows(o, d)'
    BY <1>1, <1>2, Counts, ReceiverRests DEF Link, Follows, sending, writing
  <2>4. Complete(o, d)'
    <3>1. o \notin eof /\ ~(disp[o] = "handle" /\ msg[o] = EOF) /\ ~(recv[o] = "give" /\ inHand[o] = EOF)
      BY <1>1, <1>2, Zenon DEF Link, EofLast
    <3>2. stream[o] # <<>> => stream[o][Len(stream[o])] # EOF
      <4>1. stream[o] \in Seq(Nat)
        BY <1>1, Zenon DEF StreamTyped
      <4> QED BY <1>1, <1>2, <4>1, Chunks, Zenon DEF Link, EofLast
    <3> QED BY <1>1, <1>2, <3>1, <3>2, ReceiverRests, Zenon
            DEF Link, Complete, Done, sending, ReceiverSame
  <2> QED BY <2>1, <2>2, <2>3, <2>4, Zenon DEF Link
<1> QED BY <1>1, <1>2, <1>3, <1>4, SenderMoves, Zenon DEF o

LEMMA SendKeeps == ASSUME StreamInv, NEW d \in Sides, SendMessage(d) PROVE StreamInv'
<1> DEFINE o == Other(d)
<1>1. o \in Sides /\ o # d /\ Other(o) = d /\ Link(o, d) /\ StreamTyped
  BY TwoSides, Zenon DEF StreamInv
<1> HIDE DEF o
<1>2. /\ send[d] \in {"send", "eof"} /\ copied' = copied /\ pipe' = pipe
      /\ copy' = copy /\ carried' = carried /\ SenderSame(o) /\ ReceiverSame(o) /\ ReceiverSame(d)
      /\ disp' = disp /\ stream'[d] = stream[d]
  BY <1>1, Zenon DEF SendMessage, recvVars, StreamTyped, SenderSame, ReceiverSame, o
<1>3. stream[o] \in Seq(Nat) /\ Len(stream[o]) \in Nat /\ carried[d] \in Nat /\ EOF \in Nat
  BY <1>1 DEF StreamTyped, EOF
<1>4. CASE ~Open(d)
  <2>1. send'[d] = "ended" /\ stream' = stream
    BY <1>1, <1>4, Zenon DEF SendMessage, StreamTyped
  <2>2. StreamTyped'
    BY <1>1, <1>4, Zenon DEF SendMessage, recvVars, StreamTyped
  <2>3. InTurn(o)'
    BY <1>1, <1>2, <2>1, ReceiverRests, Zenon DEF Link
  <2>4. EofLast(o, d)' /\ Follows(o, d)'
    BY <1>1, <1>2, <2>1, Zenon DEF Link, EofLast, Follows, ReceiverSame
  <2>5. Complete(o, d)'
    BY <1>1, <1>2, <2>1, ReceiverRests DEF Link, Complete, Done, ReceiverSame
  <2> QED BY <1>1, <1>2, <2>1, <2>2, <2>3, <2>4, <2>5, SenderMoves, Zenon DEF o, Link
<1>5. CASE Open(d)
  <2> DEFINE m == IF send[d] = "send" THEN carried[d] ELSE EOF
  <2>1. /\ stream' = [stream EXCEPT ![o] = Append(@, m)] /\ m \in Nat
        /\ send' = [send EXCEPT ![d] = IF send[d] = "send" THEN "read" ELSE "ended"]
    BY <1>3, <1>5, Zenon DEF SendMessage, o
  <2>2. (send[d] = "send" => m = carried[d]) /\ (send[d] = "eof" => m = EOF)
    BY Zenon
  <2> HIDE DEF m
  <2>3. /\ stream'[o] = Append(stream[o], m)
        /\ send[d] = "send" => send'[d] = "read"
        /\ send[d] = "eof" => send'[d] = "ended"
    BY <1>1, <2>1, Zenon DEF StreamTyped
  <2>4. /\ Len(stream'[o]) = Len(stream[o]) + 1 /\ stream'[o] \in Seq(Nat)
        /\ stream'[o][Len(stream[o]) + 1] = m
        /\ \A k \in 1..Len(stream[o]) : stream'[o][k] = stream[o][k]
    <3>1. /\ Len(Append(stream[o], m)) = Len(stream[o]) + 1 /\ Append(stream[o], m) \in Seq(Nat)
          /\ Append(stream[o], m)[Len(stream[o]) + 1] = m
          /\ \A k \in 1..Len(stream[o]) : Append(stream[o], m)[k] = stream[o][k]
      BY <1>3, <2>1, Appended, Zenon
    <3> QED BY <2>3, <3>1, Zenon
  <2>5. StreamTyped'
    <3>1. send' \in [Sides -> {"read", "send", "eof", "ended"}]
      BY <1>1, <2>1, Zenon DEF StreamTyped
    <3>2. stream' \in [Sides -> Seq(Nat)]
      BY <1>1, <1>3, <2>1 DEF StreamTyped
    <3> QED BY <1>1, <1>2, <3>1, <3>2, Zenon DEF SendMessage, recvVars, StreamTyped
  <2>6. \A k \in 1..Len(stream'[o]) : k \in 1..Len(stream[o]) \/ k = Len(stream[o]) + 1
    BY <1>3, <2>4
  <2>7. InTurn(o)'
    <3>1. live(o) => m \in {EOF, passed(o) + (Len(stream[o]) + 1)}
      BY <1>1, <1>2, <1>3, <2>2, Counts DEF Link, Follows
    <3> QED BY <1>1, <1>2, <2>4, <2>6, <3>1, ReceiverRests, Zenon DEF Link, InTurn, ReceiverSame
  <2>8. EofLast(o, d)'
    <3>1. \A k \in 1..Len(stream[o]) : stream[o][k] # EOF
      BY <1>1, <1>2, Zenon DEF Link, EofLast
    <3>2. o \notin eof /\ ~(disp[o] = "handle" /\ msg[o] = EOF) /\ ~(recv[o] = "give" /\ inHand[o] = EOF)
      BY <1>1, <1>2, Zenon DEF Link, EofLast
    <3>3. m = EOF => send'[d] = "ended"
      BY <1>1, <1>2, <2>2, <2>3, Zenon DEF Link, Follows
    <3> QED BY <1>2, <2>4, <2>6, <3>1, <3>2, <3>3, Zenon DEF EofLast, ReceiverSame
  <2>9. Follows(o, d)'
    <3>1. /\ send[d] = "send" => sending(d) = 1 /\ sending(d)' = 0
          /\ writing(d)' = writing(d) /\ writing(d) \in Nat
      BY <1>2, <2>3, Zenon DEF sending, writing
    <3>2. passed(o) \in Nat
      BY <1>1, Counts, Zenon
    <3>3. CASE send[d] = "send"
      <4>1. live(o) /\ d \notin pipe => copied[d] = passed(o) + Len(stream[o]) + 1 + writing(d)
        BY <1>1, <3>1, <3>3, Zenon DEF Link, Follows
      <4>2. live(o)' /\ d \notin pipe' =>
               copied'[d] = passed(o)' + Len(stream'[o]) + sending(d)' + writing(d)'
        <5>1. passed(o)' = passed(o) /\ (live(o)' <=> live(o))
          BY <1>2, ReceiverRests, Zenon
        <5> QED BY <1>2, <1>3, <2>4, <3>1, <3>2, <3>3, <4>1, <5>1
      <4> QED BY <1>1, <1>2, <2>3, <3>3, <4>2, Zenon DEF Link, Follows
    <3>4. CASE send[d] = "eof"
      BY <1>1, <1>2, <2>3, <3>4, Zenon DEF Link, Follows
    <3> QED BY <1>2, <3>3, <3>4, Zenon
  <2>10. Complete(o, d)'
    <3>1. o \notin eof /\ ~(disp[o] = "handle" /\ msg[o] = EOF) /\ ~(recv[o] = "give" /\ inHand[o] = EOF)
      BY <1>1, <1>2, Zenon DEF Link, EofLast
    <3>2. m = EOF => send[d] = "eof"
      BY <1>1, <1>2, <2>2, Zenon DEF Link, Follows
    <3>3. stream'[o][Len(stream'[o])] = m
      BY <2>4, Zenon
    <3>4. /\ send[d] = "send" => sending(d) = 1
          /\ send[d] = "eof" => sending(d) = 0 /\ d \in pipe
          /\ sending(d)' = 0
      BY <1>1, <1>2, <2>3, Zenon DEF sending, Link, Follows
    <3>5. ~Done(d) /\ live(o) /\ d \in pipe =>
             copy[d] = "ended" /\ copied[d] = passed(o) + Len(stream[o]) + sending(d)
      BY <1>1, <1>2, Zenon DEF Link, Complete
    <3>6. passed(o) \in Nat
      BY <1>1, Counts, Zenon
    <3>a. /\ passed(o)' = passed(o) /\ given(o)' = given(o) /\ (live(o)' <=> live(o))
          /\ (Done(d)' <=> Done(d)) /\ (o \in eof' <=> o \in eof)
          /\ disp'[o] = disp[o] /\ msg'[o] = msg[o] /\ recv'[o] = recv[o] /\ inHand'[o] = inHand[o]
      BY <1>2, ReceiverRests, Zenon DEF Done, ReceiverSame
    <3>7. CASE send[d] = "send"
      <4>1. passed(o) + (Len(stream[o]) + 1) + 0 = passed(o) + Len(stream[o]) + 1
        BY <1>3, <3>6
      <4>2. m # EOF
        BY <3>2, <3>7
      <4> QED
        BY <1>2, <2>3, <2>4, <3>1, <3>3, <3>4, <3>5, <3>7, <3>a, <4>1, <4>2, Zenon DEF Complete
    <3>8. CASE send[d] = "eof"
      <4>1. passed(o) + Len(stream[o]) + 0 = passed(o) + (Len(stream[o]) + 1) - 1
        BY <1>3, <3>6
      <4> QED
        BY <1>2, <2>3, <2>4, <3>1, <3>3, <3>4, <3>5, <3>8, <3>a, <4>1, Zenon DEF Complete
    <3> QED BY <1>2, <3>7, <3>8, Zenon
  <2> QED BY <1>1, <1>2, <2>5, <2>7, <2>8, <2>9, <2>10, SenderMoves, Zenon DEF o, Link
<1> QED BY <1>4, <1>5, Zenon

LEMMA ReceiveKeeps == ASSUME StreamInv, NEW o \in Sides, ReceiveMessage(o) PROVE StreamInv'
<1> DEFINE d == Other(o)
<1>1. d \in Sides /\ o # d /\ Other(d) = o /\ Link(o, d) /\ StreamTyped
  BY TwoSides, Zenon DEF StreamInv
<1> HIDE DEF d
<1> DEFINE s == stream[o]
           t == Tail(s)
<1>2. s \in Seq(Nat) /\ s # <<>> /\ Len(s) \in Nat /\ recv[o] = "receive"
  BY <1>1 DEF ReceiveMessage, StreamTyped
<1>3. /\ stream' = [stream EXCEPT ![o] = t] /\ inHand' = [inHand EXCEPT ![o] = Head(s)]
      /\ recv' = [recv EXCEPT ![o] = "give"]
      /\ UNCHANGED <<copy, copied, pipe, send, carried, disp, msg, out, eof>>
  BY Zenon DEF ReceiveMessage, pumpVars
<1>4. /\ Len(s) \in 1..Len(s) /\ Head(s) = s[1] /\ Head(s) \in Nat
      /\ t \in Seq(Nat) /\ Len(t) = Len(s) - 1
      /\ \A k \in 1..Len(t) : t[k] = s[k + 1] /\ k + 1 \in 1..Len(s)
      /\ 1 \in 1..Len(s) /\ (Len(s) = 1 => t = <<>>)
  BY <1>2, Chunks, Zenon
<1>5. /\ stream'[o] = t /\ inHand'[o] = s[1] /\ recv'[o] = "give"
      /\ ReceiverSame(d) /\ SenderSame(o) /\ SenderSame(d) /\ stream'[d] = stream[d]
  BY <1>1, <1>3, <1>4, Zenon DEF StreamTyped, ReceiverSame, SenderSame
<1>6. StreamTyped'
  BY <1>1, <1>3, <1>4, Zenon DEF StreamTyped
<1>7. /\ \A k \in 1..Len(s) : s[k] = EOF => k = Len(s) /\ send[d] = "ended"
      /\ live(o) => \A k \in 1..Len(s) : s[k] \in {EOF, passed(o) + k}
      /\ live(o) /\ s[Len(s)] = EOF /\ ~Done(d) =>
            copy[d] = "ended" /\ copied[d] = passed(o) + Len(s) - 1
      /\ disp[o] = "handle" => msg[o] # EOF
      /\ o \notin eof
  BY <1>1, <1>2, Zenon DEF Link, InTurn, EofLast, Complete
<1>8. /\ given(o)' = given(o) /\ passed(o) = given(o) /\ given(o) \in Nat
      /\ s[1] # EOF => passed(o)' = passed(o) + 1
      /\ s[1] = EOF => passed(o)' = passed(o)
      /\ live(o)' <=> live(o)
  <2>1. given(o)' = given(o) /\ (live(o)' <=> live(o))
    BY <1>2, <1>3, <1>5, Zenon DEF given, live
  <2>2. given(o) \in Nat
    BY <1>1, Counts, Zenon
  <2>3. passed(o) = given(o)
    BY <1>2, <2>2 DEF passed
  <2>4. passed(o)' = given(o) + (IF s[1] # EOF THEN 1 ELSE 0)
    BY <1>5, <2>1, Zenon DEF passed
  <2> HIDE DEF s
  <2> QED BY <2>1, <2>2, <2>3, <2>4
<1> DEFINE g == given(o)
           p == passed(o)
<1>a. /\ g \in Nat /\ p = g /\ given(o)' = g /\ (s[1] # EOF => passed(o)' = p + 1)
      /\ (s[1] = EOF => passed(o)' = p /\ Len(s) = 1 /\ t = <<>> /\ send[d] = "ended")
  BY <1>4, <1>7, <1>8, Zenon
<1>b. s[1] # EOF => Len(t) + passed(o)' = Len(s) + p
  BY <1>2, <1>4, <1>a
<1>c. live(o) => \A k \in 1..Len(t) : t[k] \in {EOF, passed(o)' + k}
  <2> SUFFICES ASSUME live(o), NEW k \in 1..Len(t) PROVE t[k] \in {EOF, passed(o)' + k}
    BY Zenon
  <2>1. t[k] \in {EOF, p + (k + 1)} /\ k \in Nat
    <3>1. t[k] = s[k + 1] /\ k + 1 \in 1..Len(s)
      BY <1>4, Zenon
    <3>2. s[k + 1] \in {EOF, passed(o) + (k + 1)}
      BY <1>7, <3>1, Zenon
    <3> QED BY <3>1, <3>2
  <2>2. s[1] # EOF
    <3>1. s[1] = EOF => Len(t) = 0
      BY <1>4, <1>a
    <3> HIDE DEF t, s
    <3> QED BY <3>1
  <2> HIDE DEF p, g, s, t
  <2> QED BY <1>a, <2>1, <2>2
<1>d. live(o) /\ s[1] # EOF => s[1] = g + 1
  BY <1>4, <1>7, <1>a, Zenon
<1> HIDE DEF s, t, p, g
<1>e. \A k \in 1..Len(t) : t[k] = EOF => k = Len(t) /\ send[d] = "ended"
  <2> SUFFICES ASSUME NEW k \in 1..Len(t), t[k] = EOF PROVE k = Len(t) /\ send[d] = "ended"
    BY Zenon
  <2>1. k + 1 = Len(s) /\ send[d] = "ended"
    BY <1>4, <1>7, Zenon
  <2> QED BY <1>4, <2>1
<1>f. t # <<>> => Len(t) \in 1..Len(t) /\ t[Len(t)] = s[Len(s)] /\ s[1] # EOF
  <2>1. t # <<>> => Len(t) # 0 /\ Len(t) + 1 = Len(s)
    BY <1>2, <1>4
  <2>2. t # <<>> => Len(t) \in 1..Len(t)
    BY <1>4, <2>1
  <2> QED BY <1>4, <1>a, <2>1, <2>2, Zenon
<1>9. InTurn(o)'
  <2>1. \A k \in 1..Len(out'[o]) : out'[o][k] = k
    BY <1>1, <1>3, Zenon DEF Link, InTurn
  <2>2. disp'[o] = "handle" /\ msg'[o] # EOF => msg'[o] = Len(out'[o]) + 1
    BY <1>1, <1>3, Zenon DEF Link, InTurn
  <2>3. live(o)' => \A k \in 1..Len(stream'[o]) : stream'[o][k] \in {EOF, passed(o)' + k}
    BY <1>5, <1>8, <1>c, Zenon
  <2>4. live(o)' /\ inHand'[o] # EOF => inHand'[o] = given(o)' + 1
    BY <1>5, <1>8, <1>a, <1>d, Zenon
  <2> QED BY <2>1, <2>2, <2>3, <2>4, Zenon DEF InTurn, EOF
<1>10. EofLast(o, d)'
  BY <1>3, <1>5, <1>7, <1>a, <1>e, Zenon DEF EofLast, EOF
<1>11. Follows(o, d)'
  <2>1. sending(d)' = sending(d) /\ writing(d)' = writing(d)
    BY <1>3, Zenon DEF sending, writing
  <2>2. live(o) /\ send[d] # "ended" => passed(o)' + Len(t) = p + Len(s)
    BY <1>a, <1>b, <1>2, <1>4
  <2>3. /\ live(o) /\ send[d] = "send" => carried[d] = p + Len(s) + 1
        /\ live(o) /\ send[d] # "ended" /\ d \notin pipe =>
              copied[d] = p + Len(s) + sending(d) + writing(d)
    BY <1>1, Zenon DEF Link, Follows, p, s
  <2>4. /\ live(o)' /\ send'[d] = "send" => carried'[d] = passed(o)' + Len(t) + 1
        /\ live(o)' /\ send'[d] # "ended" /\ d \notin pipe' =>
              copied'[d] = passed(o)' + Len(t) + sending(d)' + writing(d)'
    BY <1>3, <1>8, <2>1, <2>2, <2>3, Zenon
  <2> QED BY <1>1, <1>3, <1>5, <2>4, Zenon DEF Link, Follows, EOF
<1>12. Complete(o, d)'
  <2> SUFFICES ASSUME ~Done(d)
               PROVE  /\ s[1] = EOF /\ disp[o] # "ended" => copy[d] = "ended" /\ copied[d] = g
                      /\ live(o) /\ t # <<>> /\ t[Len(t)] = EOF =>
                            copy[d] = "ended" /\ copied[d] = passed(o)' + Len(t) - 1
                      /\ live(o) /\ d \in pipe /\ send[d] # "ended" =>
                            copy[d] = "ended" /\ copied[d] = passed(o)' + Len(t) + sending(d)
    BY <1>3, <1>5, <1>7, <1>8, <1>a, Zenon DEF Complete, Done, sending, g, EOF
  <2>1. disp[o] # "ended" => live(o)
    BY <1>2, Zenon DEF live
  <2>2. s[1] = EOF /\ disp[o] # "ended" => copy[d] = "ended" /\ copied[d] = g
    <3>1. s[1] = EOF /\ disp[o] # "ended" =>
             Len(s) = 1 /\ copy[d] = "ended" /\ copied[d] = p + Len(s) - 1
      BY <1>7, <1>a, <2>1, Zenon DEF p
    <3>2. p = g /\ g \in Nat /\ p + 1 - 1 = g
      BY <1>a
    <3> QED BY <3>1, <3>2, Zenon
  <2>3. live(o) /\ t # <<>> /\ t[Len(t)] = EOF =>
           copy[d] = "ended" /\ copied[d] = passed(o)' + Len(t) - 1
    <3>1. live(o) /\ t # <<>> /\ t[Len(t)] = EOF =>
             copy[d] = "ended" /\ copied[d] = p + Len(s) - 1 /\ s[1] # EOF
      BY <1>7, <1>f, Zenon DEF p
    <3> QED BY <3>1, <1>a, <1>b, <1>2, <1>4
  <2>4. live(o) /\ d \in pipe /\ send[d] # "ended" =>
           copy[d] = "ended" /\ copied[d] = passed(o)' + Len(t) + sending(d)
    <3>1. live(o) /\ d \in pipe /\ send[d] # "ended" =>
             copy[d] = "ended" /\ copied[d] = p + Len(s) + sending(d) /\ s[1] # EOF
      BY <1>1, <1>a, Zenon DEF Link, Complete, p, s
    <3> QED BY <3>1, <1>a, <1>b
  <2> QED BY <2>2, <2>3, <2>4, Zenon
<1> QED BY <1>1, <1>3, <1>5, <1>6, <1>9, <1>10, <1>11, <1>12, ReceiverMoves, Zenon DEF d, Link

(* Once the receiver or the dispatcher of o has ended, nothing more is      *)
(* promised but what its output has.                                        *)
LEMMA Stops ==
    ASSUME StreamInv, StreamTyped', NEW o \in Sides, ~live(o)',
           recv'[o] = "give" => recv[o] = "give" /\ inHand'[o] = inHand[o],
           UNCHANGED <<copy, copied, pipe, send, carried, out, eof, stream>>,
           disp'[o] = "handle" => disp[o] = "handle" /\ msg'[o] = msg[o],
           disp[o] = "ended" => disp'[o] = "ended",
           ReceiverSame(Other(o))
    PROVE  StreamInv'
<1> DEFINE d == Other(o)
<1>1. d \in Sides /\ o # d /\ Other(d) = o /\ Link(o, d) /\ StreamTyped
  BY TwoSides, Zenon DEF StreamInv
<1> HIDE DEF d
<1>2. InTurn(o)'
  BY <1>1, Zenon DEF Link, InTurn
<1>3. EofLast(o, d)'
  BY <1>1, Zenon DEF Link, EofLast
<1>4. Follows(o, d)'
  BY <1>1, Zenon DEF Link, Follows
<1>5. Complete(o, d)'
  <2>1. Done(d)' <=> Done(d)
    BY Zenon DEF Done, ReceiverSame, d
  <2>2. recv'[o] = "give" => disp'[o] = "ended"
    BY Zenon DEF live
  <2> QED BY <1>1, <2>1, <2>2, Zenon DEF Link, Complete
<1> QED BY <1>1, <1>2, <1>3, <1>4, <1>5, ReceiverMoves, Zenon DEF d, Link, SenderSame

LEMMA ReceiveErrorKeeps == ASSUME StreamInv, NEW o \in Sides, ReceiveError(o) PROVE StreamInv'
<1> DEFINE d == Other(o)
<1>1. d \in Sides /\ o # d /\ Other(d) = o /\ Link(o, d) /\ StreamTyped
  BY TwoSides, Zenon DEF StreamInv
<1> HIDE DEF d
<1>2. recv' = [recv EXCEPT ![o] = "ended"]
      /\ UNCHANGED <<copy, copied, pipe, send, carried, inHand, disp, msg, out, eof, stream>>
  BY Zenon DEF ReceiveError, pumpVars
<1>3. StreamTyped' /\ recv'[o] = "ended" /\ ReceiverSame(d)
  BY <1>1, <1>2, Zenon DEF StreamTyped, ReceiverSame
<1> QED BY <1>2, <1>3, Stops, Zenon DEF d, live

LEMMA ReceiveEndKeeps == ASSUME StreamInv, ReceiveEnd PROVE StreamInv'
<1> DEFINE o == Client
           d == Server
<1>1. o \in Sides /\ d \in Sides /\ o # d /\ Other(o) = d /\ StreamTyped
  BY Zenon DEF StreamInv, Sides, Other, Client, Server
<1>2. recv' = [recv EXCEPT ![o] = "stuck"]
      /\ UNCHANGED <<copy, copied, pipe, send, carried, inHand, disp, msg, out, eof, stream>>
  BY Zenon DEF ReceiveEnd, pumpVars
<1> HIDE DEF o, d
<1>3. StreamTyped' /\ recv'[o] = "stuck" /\ ReceiverSame(d)
  BY <1>1, <1>2, Zenon DEF StreamTyped, ReceiverSame
<1> QED BY <1>1, <1>2, <1>3, Stops, Zenon DEF live

LEMMA DispatchEndsKeeps == ASSUME StreamInv, NEW o \in Sides, DispatchEnds(o) PROVE StreamInv'
<1> DEFINE d == Other(o)
<1>1. d \in Sides /\ o # d /\ Other(d) = o /\ Link(o, d) /\ StreamTyped
  BY TwoSides, Zenon DEF StreamInv
<1> HIDE DEF d
<1>2. disp' = [disp EXCEPT ![o] = "ended"] /\ disp[o] = "wait"
      /\ UNCHANGED <<copy, copied, pipe, send, carried, inHand, recv, msg, out, eof, stream>>
  BY Zenon DEF DispatchEnds, pumpVars
<1>3. StreamTyped' /\ disp'[o] = "ended" /\ ReceiverSame(d)
  BY <1>1, <1>2, Zenon DEF StreamTyped, ReceiverSame
<1> QED BY <1>2, <1>3, Stops, Zenon DEF d, live

LEMMA GiveKeeps == ASSUME StreamInv, NEW o \in Sides, Give(o) PROVE StreamInv'
<1> DEFINE d == Other(o)
<1>1. d \in Sides /\ o # d /\ Other(d) = o /\ Link(o, d) /\ StreamTyped
  BY TwoSides, Zenon DEF StreamInv
<1> HIDE DEF d
<1>2. recv[o] = "give" /\ inHand' = [inHand EXCEPT ![o] = EOF]
      /\ UNCHANGED <<copy, copied, pipe, send, carried, out, eof, stream>>
  BY Zenon DEF Give, pumpVars
<1>3. CASE recv' = [recv EXCEPT ![o] = "ended"] /\ UNCHANGED <<msg, disp>>
  <2>1. StreamTyped' /\ recv'[o] = "ended" /\ ReceiverSame(d)
    BY <1>1, <1>2, <1>3, Zenon DEF StreamTyped, ReceiverSame, EOF
  <2> QED BY <1>2, <1>3, <2>1, Stops, Zenon DEF d, live
<1>4. CASE /\ disp[o] = "wait" /\ msg' = [msg EXCEPT ![o] = inHand[o]]
           /\ disp' = [disp EXCEPT ![o] = "handle"] /\ recv' = [recv EXCEPT ![o] = "receive"]
  <2>1. StreamTyped'
    BY <1>1, <1>2, <1>4, Zenon DEF StreamTyped, EOF
  <2>2. /\ recv'[o] = "receive" /\ disp'[o] = "handle" /\ msg'[o] = inHand[o] /\ inHand'[o] = EOF
        /\ ReceiverSame(d) /\ SenderSame(o) /\ stream'[d] = stream[d]
    BY <1>1, <1>2, <1>4, Zenon DEF StreamTyped, ReceiverSame, SenderSame
  <2>3. live(o) /\ live(o)'
    BY <1>2, <1>4, <2>2, Zenon DEF live
  <2>4. given(o) \in Nat /\ passed(o) \in Nat /\ Len(out[o]) \in Nat
    BY <1>1, Counts, Zenon
  <2>5. given(o) = Len(out[o])
    BY <1>4, <2>4 DEF given
  <2>6. given(o)' = passed(o)
    BY <1>2, <1>4, <2>2, <2>5, Zenon DEF given, passed
  <2>7. given(o)' \in Nat /\ passed(o)' = given(o)'
    BY <2>2, <2>4, <2>6 DEF passed
  <2>8. passed(o)' = passed(o)
    BY <2>6, <2>7, Zenon
  <2>9. InTurn(o)'
    BY <1>1, <1>2, <2>2, <2>3, <2>5, <2>8, Zenon DEF Link, InTurn
  <2>10. EofLast(o, d)'
    BY <1>1, <1>2, <2>2, Zenon DEF Link, EofLast
  <2>11. Follows(o, d)'
    BY <1>1, <1>2, <2>3, <2>8, Zenon DEF Link, Follows, sending, writing
  <2>12. Complete(o, d)'
    <3> SUFFICES ASSUME ~Done(d) PROVE Complete(o, d)'
      BY <1>1, <1>2, <1>4, <2>2, Zenon DEF Complete, Done, ReceiverSame
    <3>1. inHand[o] = EOF \/ o \in eof => copy[d] = "ended" /\ copied[d] = Len(out[o])
      BY <1>1, <1>2, <1>4, <2>5, Zenon DEF Link, Complete
    <3> QED BY <1>1, <1>2, <2>2, <2>3, <2>8, <3>1, Zenon DEF Link, Complete, sending
  <2> QED BY <1>1, <1>2, <1>4, <2>1, <2>2, <2>9, <2>10, <2>11, <2>12, ReceiverMoves, Zenon DEF d, Link
<1> QED BY <1>3, <1>4, Zenon DEF Give

LEMMA HandleKeeps == ASSUME StreamInv, NEW o \in Sides, Handle(o) PROVE StreamInv'
<1> DEFINE d == Other(o)
<1>1. d \in Sides /\ o # d /\ Other(d) = o /\ Link(o, d) /\ StreamTyped
  BY TwoSides, Zenon DEF StreamInv
<1> HIDE DEF d
<1>2. disp[o] = "handle" /\ msg' = [msg EXCEPT ![o] = EOF]
      /\ UNCHANGED <<copy, copied, pipe, send, carried, recv, inHand, stream>>
  BY Zenon DEF Handle, pumpVars
<1>3. CASE disp' = [disp EXCEPT ![o] = "ended"] /\ UNCHANGED <<out, eof>>
  <2>1. StreamTyped' /\ disp'[o] = "ended" /\ ReceiverSame(d)
    BY <1>1, <1>2, <1>3, Zenon DEF StreamTyped, ReceiverSame, EOF
  <2> QED BY <1>2, <1>3, <2>1, Stops, Zenon DEF d, live
<1>4. CASE /\ msg[o] = EOF /\ eof' = eof \cup {o} /\ disp' = [disp EXCEPT ![o] = "wait"]
           /\ out' = [out EXCEPT ![o] = out[o]]
  <2>1. StreamTyped' /\ out' = out
    BY <1>1, <1>2, <1>4, Zenon DEF StreamTyped, EOF
  <2>2. /\ disp'[o] = "wait" /\ msg'[o] = EOF /\ o \in eof'
        /\ ReceiverSame(d) /\ SenderSame(o) /\ stream'[d] = stream[d]
    BY <1>1, <1>2, <1>4, <2>1 DEF StreamTyped, ReceiverSame, SenderSame
  <2>3. live(o)' <=> live(o)
    BY <1>2, <2>2, Zenon DEF live
  <2>4. given(o)' = given(o)
    BY <1>2, <1>4, <2>1, <2>2, Zenon DEF given
  <2>5. passed(o)' = passed(o)
    BY <1>2, <2>4, Zenon DEF passed
  <2>6. InTurn(o)'
    BY <1>1, <1>2, <2>1, <2>2, <2>3, <2>4, <2>5, Zenon DEF Link, InTurn
  <2>7. EofLast(o, d)'
    BY <1>1, <1>2, <1>4, <2>2, Zenon DEF Link, EofLast
  <2>8. Follows(o, d)'
    BY <1>1, <1>2, <2>3, <2>5, Zenon DEF Link, Follows, sending, writing
  <2>9. Complete(o, d)'
    BY <1>1, <1>2, <1>4, <2>1, <2>2, <2>3, <2>4, <2>5, Zenon
       DEF Link, Complete, Done, sending, ReceiverSame
  <2> QED BY <1>1, <1>2, <1>4, <2>1, <2>2, <2>6, <2>7, <2>8, <2>9, ReceiverMoves, Zenon DEF d, Link
<1>5. CASE /\ msg[o] # EOF /\ UNCHANGED eof /\ disp' = [disp EXCEPT ![o] = "wait"]
           /\ out' = [out EXCEPT ![o] = Append(out[o], msg[o])]
  <2>1. /\ out[o] \in Seq(Nat) /\ msg[o] \in Nat /\ Len(out[o]) \in Nat
        /\ msg[o] = Len(out[o]) + 1 /\ o \notin eof
    BY <1>1, <1>2, <1>5 DEF StreamTyped, Link, InTurn, EofLast
  <2>2. /\ Append(out[o], msg[o]) \in Seq(Nat)
        /\ Len(Append(out[o], msg[o])) = Len(out[o]) + 1
        /\ Append(out[o], msg[o])[Len(out[o]) + 1] = msg[o]
        /\ \A k \in 1..Len(out[o]) : Append(out[o], msg[o])[k] = out[o][k]
    BY <2>1, Appended, Zenon
  <2>3. StreamTyped'
    BY <1>1, <1>2, <1>5, <2>2, Zenon DEF StreamTyped, EOF
  <2>4. /\ disp'[o] = "wait" /\ msg'[o] = EOF /\ out'[o] = Append(out[o], msg[o])
        /\ ReceiverSame(d) /\ SenderSame(o) /\ stream'[d] = stream[d]
    BY <1>1, <1>2, <1>5, Zenon DEF StreamTyped, ReceiverSame, SenderSame
  <2>5. live(o)' <=> live(o)
    BY <1>2, <2>4, Zenon DEF live
  <2>6. given(o) = Len(out[o]) + 1 /\ given(o)' = Len(out[o]) + 1
    <3>1. given(o) = Len(out[o]) + 1
      BY <1>2, <1>5, Zenon DEF given
    <3>2. given(o)' = Len(out'[o]) + 0
      BY <2>4, Zenon DEF given
    <3>3. Len(out'[o]) = Len(out[o]) + 1
      BY <2>2, <2>4, Zenon
    <3>4. Len(out[o]) + 1 + 0 = Len(out[o]) + 1
      BY <2>1
    <3> QED BY <3>1, <3>2, <3>3, <3>4, Zenon
  <2>7. given(o)' = given(o) /\ passed(o)' = passed(o)
    BY <1>2, <2>6, Zenon DEF passed
  <2>8. \A k \in 1..Len(out'[o]) : out'[o][k] = k
    <3>1. \A k \in 1..(Len(out[o]) + 1) : k \in 1..Len(out[o]) \/ k = Len(out[o]) + 1
      BY <2>1
    <3>2. \A k \in 1..Len(out[o]) : out[o][k] = k
      BY <1>1, Zenon DEF Link, InTurn
    <3> QED BY <2>1, <2>2, <2>4, <3>1, <3>2, Zenon
  <2>9. InTurn(o)'
    <3>1. InTurn(o)
      BY <1>1, Zenon DEF Link
    <3> QED BY <1>2, <2>4, <2>5, <2>7, <2>8, <3>1, Zenon DEF InTurn
  <2>10. EofLast(o, d)'
    BY <1>1, <1>2, <1>5, <2>1, <2>4, Zenon DEF Link, EofLast
  <2>11. Follows(o, d)'
    BY <1>1, <1>2, <2>5, <2>7, Zenon DEF Link, Follows, sending, writing
  <2>12. Complete(o, d)'
    BY <1>1, <1>2, <1>5, <2>1, <2>4, <2>5, <2>7, Zenon
       DEF Link, Complete, Done, sending, ReceiverSame
  <2> QED BY <1>1, <1>2, <1>5, <2>3, <2>4, <2>9, <2>10, <2>11, <2>12, ReceiverMoves, Zenon DEF d, Link
<1>6. o \in eof => msg[o] = EOF
  BY <1>1, <1>2, Zenon DEF Link, EofLast
<1> QED BY <1>3, <1>4, <1>5, <1>6, Zenon DEF Handle

LEMMA StreamInductive == StreamInv /\ [StreamNext]_ioVars => StreamInv'
<1> SUFFICES ASSUME StreamInv, [StreamNext]_ioVars PROVE StreamInv'
  BY Zenon
<1>1. ASSUME NEW d \in Sides, Source(d) \/ Sender(d) \/ Receiver(d) \/ Dispatcher(d)
      PROVE  StreamInv'
  BY <1>1, CopyReadKeeps, CopyEndsKeeps, CopyFailsKeeps, ClosePipeKeeps, SendReadKeeps,
     SendKeeps, ReceiveKeeps, ReceiveErrorKeeps, GiveKeeps, DispatchEndsKeeps, HandleKeeps, Zenon
     DEF Source, Sender, Receiver, Dispatcher
<1>2. ASSUME UNCHANGED <<copy, copied, pipe, send, carried, stream, recv, inHand, disp, msg, out, eof>>
      PROVE  StreamInv'
  <2>1. StreamTyped'
    BY <1>2, Zenon DEF StreamInv, StreamTyped
  <2>2. ASSUME NEW o \in Sides PROVE Link(o, Other(o))'
    BY <1>2, <2>2, LinkRests, TwoSides, Zenon DEF StreamInv, SenderSame, ReceiverSame
  <2> QED BY <2>1, <2>2, Zenon DEF StreamInv
<1>3. CASE Accept \/ Refuse \/ Cancel \/ ServerReturns \/ AttachReturns
  BY <1>2, <1>3, Zenon DEF Accept, Refuse, Cancel, ServerReturns, AttachReturns, pumpVars, recvVars
<1>4. CASE \E how \in {"ok", "error"} : ProcessEnds(how)
  BY <1>2, <1>4, Zenon DEF ProcessEnds, pumpVars, recvVars
<1>5. CASE UNCHANGED ioVars
  BY <1>2, <1>5, Zenon DEF ioVars, pumpVars, recvVars
<1> QED BY <1>1, <1>3, <1>4, <1>5, ReceiveEndKeeps, Zenon DEF StreamNext

LEMMA StreamSafe == StreamInv => NoGaps
<1> SUFFICES ASSUME StreamInv PROVE NoGaps
  BY Zenon
<1>1. ASSUME NEW d \in Sides PROVE out[d] = [n \in 1..Len(out[d]) |-> n]
  <2>1. out[d] \in Seq(Nat) /\ \A k \in 1..Len(out[d]) : out[d][k] = k
    BY Zenon DEF StreamInv, StreamTyped, Link, InTurn
  <2> QED BY <2>1
<1>2. ASSUME NEW d \in eof, ~Done(Other(d))
      PROVE  copy[Other(d)] = "ended" /\ Len(out[d]) = copied[Other(d)]
  BY <1>2, Zenon DEF StreamInv, StreamTyped, Link, Complete
<1> QED BY <1>1, <1>2, Zenon DEF NoGaps

(* What a side of an attached process writes is, chunk for chunk and in      *)
(* order, what the other side has read; and after an EOF that was not cut    *)
(* short it is all of it.                                                    *)
THEOREM NothingDropped == StreamSpec => []NoGaps
<1>1. StreamInit => StreamInv
  BY StreamInitially, Zenon
<1>2. StreamInv /\ [StreamNext]_ioVars => StreamInv'
  BY StreamInductive, Zenon
<1>3. StreamInv => NoGaps
  BY StreamSafe, Zenon
<1> QED BY <1>1, <1>2, <1>3, PTL DEF StreamSpec

-----------------------------------------------------------------------------
(* What is written of a reader is no later than what was read, and earlier  *)
(* than the byte its copier is about to write.                              *)
Upto(r) ==
    /\ consumed[r] \in Nat /\ written[r] \in Seq(Nat)
    /\ \A i \in 1..Len(written[r]) : written[r][i] <= consumed[r]
    /\ copier[r] \in {"load", "write"} /\ readErr[r] = Nil =>
          \A i \in 1..Len(written[r]) : written[r][i] < consumed[r]
    /\ \A i, j \in 1..Len(written[r]) : i < j => written[r][i] < written[r][j]

CopiesInv ==
    /\ copier \in [Readers -> {"none", "read", "load", "write", "test", "ended"}]
    /\ readErr \in [Readers -> Failures \cup {Nil}]
    /\ consumed \in [Readers -> Nat] /\ written \in [Readers -> Seq(Nat)]
    /\ \A r \in Readers : Upto(r)

(* Close has nothing in its hands before it begins and after it has closed  *)
(* the writer; what it has taken out stays out unless another is set.       *)
ClosesInv ==
    /\ used \subseteq Readers \cup Writers
    /\ used \ shut \subseteq {curR, curW, pending, taken}
    /\ closer \in {"idle", "reader", "writer", "done", "closed"}
    /\ closer \in {"idle", "done", "closed"} => taken = Nil
    /\ closer # "idle" /\ ~raced => curR = Nil
    /\ closer \in {"writer", "done", "closed"} /\ ~raced => curW = Nil

-----------------------------------------------------------------------------
LEMMA CopiesInitially == ForwarderInit => CopiesInv
BY DEF ForwarderInit, CopiesInv, Upto, Nil, Failures

LEMMA ByteAppended ==
    ASSUME NEW s \in Seq(Nat), NEW n \in Nat,
           \A i \in 1..Len(s) : s[i] < n,
           \A i, j \in 1..Len(s) : i < j => s[i] < s[j]
    PROVE  /\ Append(s, n) \in Seq(Nat)
           /\ \A i \in 1..Len(Append(s, n)) : Append(s, n)[i] <= n
           /\ \A i, j \in 1..Len(Append(s, n)) : i < j => Append(s, n)[i] < Append(s, n)[j]
<1>1. /\ Append(s, n) \in Seq(Nat) /\ Len(Append(s, n)) = Len(s) + 1 /\ Len(s) \in Nat
      /\ Append(s, n)[Len(s) + 1] = n /\ \A i \in 1..Len(s) : Append(s, n)[i] = s[i] /\ s[i] \in Nat
  OBVIOUS
<1>2. \A i \in 1..(Len(s) + 1) : i \in 1..Len(s) \/ i = Len(s) + 1
  BY <1>1
<1>3. \A i \in 1..(Len(s) + 1) : Append(s, n)[i] <= n
  BY <1>1, <1>2
<1>4. \A i, j \in 1..(Len(s) + 1) : i < j => i \in 1..Len(s) /\ (j \in 1..Len(s) \/ j = Len(s) + 1)
  BY <1>1
<1>5. \A i, j \in 1..(Len(s) + 1) : i < j => Append(s, n)[i] < Append(s, n)[j]
  BY <1>1, <1>4, Zenon
<1> QED BY <1>1, <1>3, <1>5, Zenon

(* A step of one copier keeps the bytes of the other readers.               *)
LEMMA OneCopier ==
    ASSUME CopiesInv, NEW r \in Readers, NEW to, CopierAt(r, to),
           to \in {"none", "read", "load", "write", "test", "ended"},
           NEW n \in Nat, consumed' = [consumed EXCEPT ![r] = n],
           NEW e \in Failures \cup {Nil}, readErr' = [readErr EXCEPT ![r] = e],
           NEW s \in Seq(Nat), written' = [written EXCEPT ![r] = s],
           \A i \in 1..Len(s) : s[i] <= n,
           to \in {"load", "write"} /\ e = Nil => \A i \in 1..Len(s) : s[i] < n,
           \A i, j \in 1..Len(s) : i < j => s[i] < s[j]
    PROVE  CopiesInv'
<1>1. /\ copier' \in [Readers -> {"none", "read", "load", "write", "test", "ended"}]
      /\ readErr' \in [Readers -> Failures \cup {Nil}]
      /\ consumed' \in [Readers -> Nat] /\ written' \in [Readers -> Seq(Nat)]
  BY Zenon DEF CopiesInv, CopierAt
<1>2. copier'[r] = to /\ consumed'[r] = n /\ readErr'[r] = e /\ written'[r] = s
  BY Zenon DEF CopiesInv, CopierAt
<1>3. \A q \in Readers : q # r =>
         /\ copier'[q] = copier[q] /\ consumed'[q] = consumed[q] /\ readErr'[q] = readErr[q]
         /\ written'[q] = written[q]
  BY Zenon DEF CopiesInv, CopierAt
<1>4. Upto(r)'
  BY <1>2, Zenon DEF Upto
<1>5. ASSUME NEW q \in Readers, q # r PROVE Upto(q)'
  BY <1>3, <1>5, Zenon DEF CopiesInv, Upto
<1> QED BY <1>1, <1>4, <1>5, Zenon DEF CopiesInv

LEMMA CopierSteps ==
    ASSUME CopiesInv, NEW r \in Readers,
           ReadBytes(r) \/ ReadEOF(r) \/ ReadFails(r) \/ WriteBytes(r) \/ Copy(r)
    PROVE  CopiesInv'
<1>1. /\ consumed[r] \in Nat /\ written[r] \in Seq(Nat) /\ Len(written[r]) \in Nat
      /\ readErr[r] \in Failures \cup {Nil}
      /\ \A i \in 1..Len(written[r]) : written[r][i] \in Nat /\ written[r][i] <= consumed[r]
      /\ copier[r] \in {"load", "write"} /\ readErr[r] = Nil =>
            \A i \in 1..Len(written[r]) : written[r][i] < consumed[r]
      /\ \A i, j \in 1..Len(written[r]) : i < j => written[r][i] < written[r][j]
  BY DEF CopiesInv, Upto
<1>2. /\ consumed = [consumed EXCEPT ![r] = consumed[r]] /\ readErr = [readErr EXCEPT ![r] = readErr[r]]
      /\ written = [written EXCEPT ![r] = written[r]]
  BY Zenon DEF CopiesInv
<1>3. "eof" \in Failures /\ "closed" \in Failures /\ Nil \notin Failures
  BY Zenon DEF Failures, Nil
<1>4. CASE ReadBytes(r)
  <2>1. consumed' = [consumed EXCEPT ![r] = consumed[r] + 1] /\ consumed[r] + 1 \in Nat
    <3>1. consumed[r] \in Nat
      BY <1>1, Zenon
    <3>2. consumed[r] + 1 \in Nat
      BY <3>1
    <3> QED BY <1>4, <3>2, Zenon DEF ReadBytes
  <2>2. \A i \in 1..Len(written[r]) : written[r][i] < consumed[r] + 1 /\ written[r][i] <= consumed[r] + 1
    BY <1>1
  <2>3. readErr' = [readErr EXCEPT ![r] = Nil] /\ written' = written /\ CopierAt(r, "load")
    BY <1>4, Zenon DEF ReadBytes, Returned
  <2> QED BY <1>1, <1>2, <2>1, <2>2, <2>3, OneCopier, Zenon
<1>5. CASE ReadEOF(r)
  <2>1. CopierAt(r, "load") /\ readErr' = [readErr EXCEPT ![r] = "eof"]
    BY <1>2, <1>5, Zenon DEF ReadEOF, Returned
  <2>2. consumed' = [consumed EXCEPT ![r] = consumed[r]] /\ written' = [written EXCEPT ![r] = written[r]]
    BY <1>2, <1>5, Zenon DEF ReadEOF
  <2>3. "eof" \in Failures \cup {Nil} /\ "eof" # Nil
    BY <1>3, Zenon
  <2> QED BY <1>1, <2>1, <2>2, <2>3, OneCopier, Zenon
<1>6. CASE ReadFails(r)
  <2>1. CopierAt(r, "ended") /\ readErr' = [readErr EXCEPT ![r] = readErr[r]]
    BY <1>2, <1>6, Zenon DEF ReadFails
  <2>2. consumed' = [consumed EXCEPT ![r] = consumed[r]] /\ written' = [written EXCEPT ![r] = written[r]]
    BY <1>2, <1>6, Zenon DEF ReadFails
  <2>3. "ended" \notin {"load", "write"}
    BY <1>3, Zenon
  <2> QED BY <1>1, <2>1, <2>2, <2>3, OneCopier, Zenon
<1>7. CASE ReadClosed(r)
  <2>1. CopierAt(r, "load") /\ readErr' = [readErr EXCEPT ![r] = "closed"]
    BY <1>2, <1>7, Zenon DEF ReadClosed, Returned
  <2>2. consumed' = [consumed EXCEPT ![r] = consumed[r]] /\ written' = [written EXCEPT ![r] = written[r]]
    BY <1>2, <1>7, Zenon DEF ReadClosed
  <2>3. "closed" \in Failures \cup {Nil} /\ "closed" # Nil
    BY <1>3, Zenon
  <2> QED BY <1>1, <2>1, <2>2, <2>3, OneCopier, Zenon
<1>8. CASE LoadWriter(r)
  <2>1. UNCHANGED <<readErr, consumed, written>> /\ CopierAt(r, "write") /\ copier[r] = "load"
    BY <1>8, Zenon DEF LoadWriter
  <2> QED BY <1>1, <1>2, <2>1, OneCopier, Zenon
<1>9. CASE WriteBytes(r)
  <2>1. UNCHANGED <<readErr, consumed>> /\ CopierAt(r, "test") /\ copier[r] = "write"
    BY <1>9, Zenon DEF WriteBytes
  <2>2. CASE written' = written
    BY <1>1, <1>2, <2>1, <2>2, OneCopier, Zenon
  <2>3. CASE readErr[r] = Nil /\ written' = [written EXCEPT ![r] = Append(written[r], consumed[r])]
    <3> DEFINE s == Append(written[r], consumed[r])
    <3>1. /\ s \in Seq(Nat) /\ \A i \in 1..Len(s) : s[i] <= consumed[r]
          /\ \A i, j \in 1..Len(s) : i < j => s[i] < s[j]
      BY <1>1, <2>1, <2>3, ByteAppended, Zenon
    <3>2. /\ written' = [written EXCEPT ![r] = s] /\ consumed' = [consumed EXCEPT ![r] = consumed[r]]
          /\ readErr' = [readErr EXCEPT ![r] = readErr[r]]
      BY <1>2, <2>1, <2>3, Zenon
    <3>3. consumed[r] \in Nat /\ readErr[r] \in Failures \cup {Nil} /\ "test" \notin {"load", "write"}
      BY <1>1, Zenon
    <3> HIDE DEF s
    <3> QED BY <2>1, <3>1, <3>2, <3>3, OneCopier, Zenon
  <2> QED BY <1>9, <2>2, <2>3, Zenon DEF WriteBytes
<1>10. CASE WriteReturns(r)
  <2>1. UNCHANGED <<readErr, consumed>> /\ CopierAt(r, "test") /\ copier[r] = "write"
    BY <1>10, Zenon DEF WriteReturns
  <2>2. written' = written
    BY <1>10, Zenon DEF WriteReturns
  <2> QED BY <1>1, <1>2, <2>1, <2>2, OneCopier, Zenon
<1>11. CASE Test(r)
  <2>1. UNCHANGED <<readErr, consumed, written>>
    BY <1>11, Zenon DEF Test
  <2>2. PICK to \in {"ended", "read"} : CopierAt(r, to)
    BY <1>11, Zenon DEF Test
  <2> QED BY <1>1, <1>2, <2>1, <2>2, OneCopier, Zenon
<1> QED BY <1>4, <1>5, <1>6, <1>7, <1>8, <1>9, <1>10, <1>11, Zenon DEF Copy

LEMMA CopiesInductive == CopiesInv /\ [ForwarderNext]_forwarderVars => CopiesInv'
<1> SUFFICES ASSUME CopiesInv, [ForwarderNext]_forwarderVars PROVE CopiesInv'
  BY Zenon
<1>1. ASSUME UNCHANGED copierVars PROVE CopiesInv'
  BY <1>1, Zenon DEF CopiesInv, Upto, copierVars
<1>2. CASE UpdateReader
  <2>1. /\ UNCHANGED <<consumed, readErr, written>>
        /\ copier' = [r \in Readers |-> IF r = pending THEN "read" ELSE copier[r]]
    BY <1>2, Zenon DEF UpdateReader
  <2>2. \A r \in Readers : copier'[r] \in {"load", "write"} => copier[r] = copier'[r]
    BY <2>1, Zenon
  <2>3. copier' \in [Readers -> {"none", "read", "load", "write", "test", "ended"}]
    BY <2>1, Zenon DEF CopiesInv
  <2>4. ASSUME NEW r \in Readers PROVE Upto(r)'
    BY <2>1, <2>2, Zenon DEF CopiesInv, Upto
  <2> QED BY <2>1, <2>3, <2>4, Zenon DEF CopiesInv
<1>3. CASE (\E r \in Readers \cup {Nil} : SetReader(r)) \/ (\E w \in Writers \cup {Nil} : SetWriter(w))
  BY <1>1, <1>3, Zenon DEF SetReader, SetWriter
<1>4. CASE ForwardReturns \/ TakeReader \/ CloseSteps
  BY <1>1, <1>4, Zenon DEF ForwardReturns, TakeReader, CloseSteps, TakeWriter, CloseWriter, CloseDoneCh, closing
<1>5. CASE UNCHANGED forwarderVars
  BY <1>1, <1>5, Zenon DEF forwarderVars
<1> QED BY <1>2, <1>3, <1>4, <1>5, CopierSteps, Zenon DEF ForwarderNext

(* SetWriter may replace the writer between two bytes, SetReader the reader *)
(* at any moment: what is written of one reader is in the order in which    *)
(* it was read, and nothing of it is written twice.                         *)
THEOREM BytesInOrder == ForwarderSpec => []InOrder
<1>1. CopiesInv => InOrder
  <2> SUFFICES ASSUME CopiesInv PROVE InOrder
    BY Zenon
  <2>1. \A r \in Readers : DOMAIN written[r] = 1..Len(written[r])
    <3>1. ASSUME NEW s \in Seq(Nat) PROVE DOMAIN s = 1..Len(s)
      OBVIOUS
    <3>2. \A r \in Readers : written[r] \in Seq(Nat)
      BY Zenon DEF CopiesInv
    <3> QED BY <3>1, <3>2, Zenon
  <2> QED BY <2>1, Zenon DEF CopiesInv, Upto, InOrder
<1> QED BY CopiesInitially, CopiesInductive, <1>1, PTL DEF ForwarderSpec

-----------------------------------------------------------------------------
LEMMA ClosesInitially == ForwarderInit => ClosesInv
BY Zenon DEF ForwarderInit, ClosesInv, Nil

LEMMA ClosesInductive == ClosesInv /\ [ForwarderNext]_forwarderVars => ClosesInv'
<1> SUFFICES ASSUME ClosesInv, [ForwarderNext]_forwarderVars PROVE ClosesInv'
  BY Zenon
<1>1. ASSUME NEW r \in Readers, ReadBytes(r) \/ ReadEOF(r) \/ ReadFails(r) \/ WriteBytes(r) \/ Copy(r)
      PROVE  ClosesInv'
  <2>1. shut \subseteq shut' /\ UNCHANGED <<curR, curW, used, pending, taken, closer, raced>>
    BY <1>1, Zenon DEF ReadBytes, ReadEOF, ReadFails, Copy, ReadClosed, LoadWriter, WriteReturns, WriteBytes, Test,
       outside, closeVars
  <2> QED BY <2>1, Zenon DEF ClosesInv
<1>2. ASSUME NEW r \in Readers \cup {Nil}, SetReader(r) PROVE ClosesInv'
  <2>1. /\ used' = used \cup ({r} \ {Nil}) /\ pending' = r /\ pending = "none"
        /\ UNCHANGED <<curR, curW, shut, taken, closer>>
    BY <1>2, Zenon DEF SetReader, closeVars
  <2>2. raced' = (raced \/ closer # "idle")
    BY <1>2, Zenon DEF SetReader
  <2>3. ~raced' => ~raced
    BY <2>2, Zenon
  <2>4. "none" \notin used
    BY StreamsAssumption, Zenon DEF ClosesInv
  <2> QED BY <2>1, <2>3, <2>4, Zenon DEF ClosesInv
<1>3. ASSUME NEW w \in Writers \cup {Nil}, SetWriter(w) PROVE ClosesInv'
  <2>1. /\ used' = used \cup ({w} \ {Nil}) /\ shut' = shut \cup ({curW} \ {Nil}) /\ curW' = w
        /\ UNCHANGED <<curR, pending, taken, closer>>
    BY <1>3, Zenon DEF SetWriter, closeVars
  <2>2. raced' = (raced \/ closer # "idle")
    BY <1>3, Zenon DEF SetWriter
  <2>3. ~raced' => ~raced /\ closer = "idle"
    BY <2>2, Zenon
  <2>4. Nil \notin used
    BY StreamsAssumption, Zenon DEF ClosesInv, Nil
  <2> QED BY <2>1, <2>3, <2>4, Zenon DEF ClosesInv
<1>4. CASE UpdateReader
  <2>1. /\ shut' = shut \cup ({curR} \ {Nil}) /\ curR' = pending /\ pending' = "none"
        /\ UNCHANGED <<curW, used, taken, closer>>
    BY <1>4, Zenon DEF UpdateReader, closeVars
  <2>2. raced' = (raced \/ closer # "idle")
    BY <1>4, Zenon DEF UpdateReader
  <2>3. ~raced' => ~raced /\ closer = "idle"
    BY <2>2, Zenon
  <2>4. Nil \notin used
    BY StreamsAssumption, Zenon DEF ClosesInv, Nil
  <2> QED BY <2>1, <2>3, <2>4, Zenon DEF ClosesInv
<1>5. CASE TakeReader
  <2>1. Nil \notin used
    BY StreamsAssumption, Zenon DEF ClosesInv, Nil
  <2> QED BY <1>5, <2>1, Zenon DEF TakeReader, closing, ClosesInv
<1>6. CASE TakeWriter
  <2>1. Nil \notin used
    BY StreamsAssumption, Zenon DEF ClosesInv, Nil
  <2> QED BY <1>6, <2>1, Zenon DEF TakeWriter, closing, ClosesInv
<1>7. CASE CloseWriter
  <2>1. Nil \notin used
    BY StreamsAssumption, Zenon DEF ClosesInv, Nil
  <2> QED BY <1>7, <2>1, Zenon DEF CloseWriter, closing, ClosesInv
<1>8. CASE CloseDoneCh
  BY <1>8, Zenon DEF CloseDoneCh, closing, ClosesInv
<1>9. CASE ForwardReturns
  BY <1>9, Zenon DEF ForwardReturns, closeVars, ClosesInv
<1>10. CASE UNCHANGED forwarderVars
  BY <1>10, Zenon DEF forwarderVars, closeVars, ClosesInv
<1> QED BY <1>1, <1>2, <1>3, <1>4, <1>5, <1>6, <1>7, <1>8, <1>9, <1>10, Zenon DEF ForwarderNext, CloseSteps

(* No reader and no writer that was registered stays open unless it still   *)
(* is registered, or on its way in or out; and after Close none does, if no *)
(* other was set meanwhile.                                                 *)
THEOREM AllClosed == ForwarderSpec => []StreamsClosed
<1>1. ClosesInv => StreamsClosed
  <2> SUFFICES ASSUME ClosesInv PROVE StreamsClosed
    BY Zenon
  <2>1. Nil \notin used /\ "none" \notin used
    BY StreamsAssumption, Zenon DEF ClosesInv, Nil
  <2> QED BY <2>1, Zenon DEF ClosesInv, StreamsClosed
<1> QED BY ClosesInitially, ClosesInductive, <1>1, PTL DEF ForwarderSpec

-----------------------------------------------------------------------------
(* The monitor console: who is between two outputs, and what it rests on.   *)
ThreadPcs == Toggling \cup {"idle", "enable", "switch", "leave", "arrive", "session", "run",
                        "disable", "clear", "ended"}
CommandPcs == {"none", "cancel", "detach", "build", "awaitSpawn", "awaitAttach", "spawn", "attach",
               "store", "done"}
Switches == Toggling \cup {"leave", "arrive"}
Between == {"advance", "check", "hookOn", "arrive"}

(* A process switches outputs under the mutex of MuxIO, and what it is      *)
(* about to switch to cannot be disabled meanwhile; a command's process     *)
(* does not run before the command has started it.                          *)
Locked ==
    /\ pc \in [Threads -> ThreadPcs] /\ command \in [Commands -> CommandPcs]
    /\ pc[Keyboard] \in Toggling \cup {"idle"}
    /\ \A p \in Processes :
          /\ pc[p] \in Toggling \cup {"leave", "arrive"} => muxMu = p
          /\ pc[p] \in {"leave", "arrive"} => 1 \in enabled
    /\ \A c \in Commands : command[c] \notin {"store", "done"} => pc[c] = "idle"

(* While the keyboard goes to an output that is disabled, somebody has      *)
(* still to look at the output and pass it over.                            *)
Heading ==
    /\ cur \in {0, 1} /\ enabled \subseteq {0, 1} /\ 0 \in enabled
    /\ cur \notin enabled => \E t \in Threads : pc[t] \in {"hookOff", "advance", "check"}

(* Unless switches collide, one is made at a time, and the loop waits       *)
(* between its two hooks and otherwise serves exactly output 0.             *)
Served ==
    /\ collided \in BOOLEAN
    /\ ~collided => \A t, u \in Threads : Switching(t) /\ Switching(u) => t = u
    /\ ~collided /\ loop \in {"wait", "serve"} =>
          IF \E t \in Threads : pc[t] \in Between THEN loop = "wait"
          ELSE loop = "serve" <=> cur = 0

MonitorInv == Locked /\ Heading /\ Served

(* The keyboard goroutine is no process, and nobody is one of either.       *)
LEMMA Apart ==
    /\ Processes \subseteq Threads /\ Keyboard \in Threads /\ First \in Processes
    /\ Keyboard \notin Processes /\ Nobody \notin Threads
    /\ \A t \in Threads : t = Keyboard \/ t \in Processes
    /\ Commands \subseteq Processes
BY CommandsAssumption, Zenon DEF Processes, Threads, Keyboard, Nobody, First

LEMMA OneMoves ==
    ASSUME Locked, NEW t \in Threads, NEW to, pc' = [pc EXCEPT ![t] = to]
    PROVE  pc'[t] = to /\ \A u \in Threads : u # t => pc'[u] = pc[u]
BY Zenon DEF Locked

LEMMA MonitorInitially == MonitorInit => MonitorInv
<1> SUFFICES ASSUME MonitorInit PROVE MonitorInv
  BY Zenon
<1>0. /\ pc = [t \in Threads |-> IF t = First THEN "enable" ELSE "idle"]
      /\ command = [c \in Commands |-> "none"]
      /\ cur = 1 /\ enabled = {0, 1} /\ loop = "wait" /\ collided = FALSE
  BY Zenon DEF MonitorInit
<1>1. \A t \in Threads : pc[t] = IF t = First THEN "enable" ELSE "idle"
  BY <1>0, Zenon
<1>2. First \notin Commands /\ First # Keyboard
  BY CommandsAssumption, Zenon DEF First, Keyboard
<1>3. pc \in [Threads -> ThreadPcs] /\ command \in [Commands -> CommandPcs]
  BY <1>0, Zenon DEF ThreadPcs, CommandPcs
<1>4. \A t \in Threads : pc[t] \in {"idle", "enable"}
  BY <1>1, Zenon
<1>5. Locked
  BY <1>1, <1>2, <1>3, <1>4, Apart, Zenon DEF Locked, Toggling
<1>6. Heading
  BY <1>0, Zenon DEF Heading
<1>7. \A t \in Threads : ~Switching(t) /\ pc[t] \notin Between
  BY <1>4, Zenon DEF Between, Toggling, Switching
<1>8. Served
  <2>1. loop # "serve" /\ cur # 0
    BY <1>0
  <2>2. QED
    BY <1>0, <1>7, <2>1, Zenon DEF Served
<1>9. QED
  BY <1>5, <1>6, <1>8, Zenon DEF MonitorInv

(* A process that is not switching goes on, or enables or disables an       *)
(* output that the keyboard does not go to.                                 *)
LEMMA MovesOn ==
    ASSUME MonitorInv, NEW p \in Processes, NEW to \in ThreadPcs \ Switches,
           pc[p] \notin Switches \cup {"idle"}, pc' = [pc EXCEPT ![p] = to],
           0 \in enabled' /\ enabled' \subseteq {0, 1}, cur \in enabled => cur \in enabled',
           1 \in enabled' \/ enabled' = enabled \/ muxMu = Nobody,
           UNCHANGED <<cur, muxMu, loop, command, collided>>
    PROVE  MonitorInv'
<1>1. Locked /\ pc'[p] = to /\ \A u \in Threads : u # p => pc'[u] = pc[u]
  BY OneMoves, Apart, Zenon DEF MonitorInv
<1>2. Locked'
  BY <1>1, Apart DEF Locked, ThreadPcs, Toggling, Switches
<1>3. Heading'
  BY <1>1, Apart, Zenon DEF MonitorInv, Heading, Switches, Toggling
<1>4. Served'
  BY <1>1, Apart DEF MonitorInv, Served, Switching, Toggling, Between, Switches
<1>5. QED
  BY <1>2, <1>3, <1>4, Zenon DEF MonitorInv

(* A process takes the mutex and begins to switch.                          *)
LEMMA Begins ==
    ASSUME MonitorInv, NEW p \in Processes, NEW to \in {"hookOff", "leave"},
           pc[p] \in {"switch", "disable"}, pc' = [pc EXCEPT ![p] = to],
           muxMu = Nobody, muxMu' = p, 0 \in enabled' /\ enabled' \subseteq {0, 1},
           to = "leave" => 1 \in enabled /\ enabled' = enabled,
           collided' = (collided \/ \E t \in Threads : Switching(t)),
           UNCHANGED <<cur, loop, command>>
    PROVE  MonitorInv'
<1>1. Locked /\ pc'[p] = to /\ \A u \in Threads : u # p => pc'[u] = pc[u]
  BY OneMoves, Apart, Zenon DEF MonitorInv
<1>2. Locked'
  BY <1>1, Apart, Zenon DEF Locked, ThreadPcs, Toggling
<1>3. Heading'
  BY <1>1, Apart, Zenon DEF MonitorInv, Heading
<1>4. Served'
  BY <1>1, Apart, Zenon DEF MonitorInv, Served, Switching, Toggling, Between
<1>5. QED
  BY <1>2, <1>3, <1>4, Zenon DEF MonitorInv

(* Somebody who switches takes the next step of it, under the hooks of      *)
(* output 0, and keeps what it holds.                                       *)
LEMMA GoesOn ==
    ASSUME MonitorInv, NEW t \in Threads, NEW to \in {"advance", "check", "hookOn", "arrive"},
           pc[t] \in Switches, pc' = [pc EXCEPT ![t] = to],
           to = "arrive" => pc[t] = "leave",
           pc[t] = "leave" => to = "arrive",
           to = "check" => pc[t] = "advance",
           to = "hookOn" => cur \in enabled,
           IF pc[t] \in {"hookOff", "leave"}
             THEN (IF cur = 0 THEN loop = "serve" /\ loop' = "wait" ELSE loop' = loop)
             ELSE loop' = loop,
           pc[t] # "arrive",
           IF to = "check" THEN cur' = (IF cur = 0 THEN 1 ELSE 0) ELSE cur' = cur,
           UNCHANGED <<enabled, muxMu, command, collided>>
    PROVE  MonitorInv'
<1>1. Locked /\ pc'[t] = to /\ \A u \in Threads : u # t => pc'[u] = pc[u]
  BY OneMoves, Apart, Zenon DEF MonitorInv
<1>2. Locked'
  BY <1>1, Apart, Zenon DEF Locked, ThreadPcs, Toggling, Switches
<1>3. Heading'
  BY <1>1, Apart, Zenon DEF MonitorInv, Heading, Switches, Toggling
<1>4. Served'
  BY <1>1, Apart DEF MonitorInv, Served, Switching, Toggling, Between, Switches, Heading, Locked
<1>5. QED
  BY <1>2, <1>3, <1>4, Zenon DEF MonitorInv

(* A switch ends: the hook of the output it has reached is done, or a       *)
(* process arrives at output 1.                                             *)
LEMMA Ends ==
    ASSUME MonitorInv, NEW t \in Threads, NEW to \in {"idle", "clear", "session"},
           pc' = [pc EXCEPT ![t] = to], to = "idle" <=> t = Keyboard,
           \/ /\ pc[t] = "hookOn" /\ cur' = cur /\ muxMu' = IF muxMu = t THEN Nobody ELSE muxMu
              /\ IF cur = 0 THEN loop = "wait" /\ loop' = "serve" ELSE loop' = loop
           \/ pc[t] = "arrive" /\ cur' = 1 /\ muxMu' = Nobody /\ loop' = loop,
           UNCHANGED <<enabled, command, collided>>
    PROVE  MonitorInv'
<1>1. Locked /\ pc'[t] = to /\ \A u \in Threads : u # t => pc'[u] = pc[u]
  BY OneMoves, Apart, Zenon DEF MonitorInv
<1>2. Locked'
  BY <1>1, Apart, Zenon DEF Locked, ThreadPcs, Toggling
<1>3. Heading'
  BY <1>1, Apart DEF MonitorInv, Heading, Locked, Toggling
<1>4. Served'
  <2>1. CASE collided
    BY <2>1, Zenon DEF MonitorInv, Served
  <2>2. CASE ~collided
    <3>1. \A u \in Threads : ~Switching(u)' /\ pc'[u] \notin Between
      BY <1>1, <2>2 DEF MonitorInv, Served, Switching, Toggling, Between
    <3>2. loop' \in {"wait", "serve"} => (loop' = "serve" <=> cur' = 0)
      BY <1>1, <2>2 DEF MonitorInv, Served, Heading, Between
    <3>3. QED
      BY <2>2, <3>1, <3>2, Zenon DEF Served, MonitorInv
  <2>3. QED
    BY <2>1, <2>2, Zenon DEF MonitorInv, Served
<1>5. QED
  BY <1>2, <1>3, <1>4, Zenon DEF MonitorInv

(* C-a-c is pressed.                                                        *)
LEMMA Presses ==
    ASSUME MonitorInv, PressToggle
    PROVE  MonitorInv'
<1>0. /\ pc[Keyboard] = "idle" /\ pc' = [pc EXCEPT ![Keyboard] = "hookOff"]
      /\ collided' = (collided \/ \E t \in Threads : Switching(t))
      /\ UNCHANGED <<cur, enabled, muxMu, loop, command>>
  BY Zenon DEF PressToggle, BeginSwitch, Goto, muxVars, loopVars, commandVars
<1>1. PICK to : to = "hookOff"
  BY Zenon
<1>2. Locked /\ pc'[Keyboard] = to /\ \A u \in Threads : u # Keyboard => pc'[u] = pc[u]
  BY <1>0, <1>1, OneMoves, Apart, Zenon DEF MonitorInv
<1>3. Locked'
  BY <1>0, <1>1, <1>2, Apart, Zenon DEF Locked, ThreadPcs, Toggling
<1>4. Heading'
  BY <1>0, <1>1, <1>2, Apart, Zenon DEF MonitorInv, Heading
<1>5. Served'
  BY <1>0, <1>1, <1>2, Apart, Zenon DEF MonitorInv, Served, Switching, Toggling, Between
<1>6. QED
  BY <1>3, <1>4, <1>5, Zenon DEF MonitorInv

(* A command goes on without moving a goroutine that switches; the loop     *)
(* stays or stops serving for good.                                         *)
LEMMA CommandMoves ==
    ASSUME MonitorInv, command' \in [Commands -> CommandPcs],
           \A c \in Commands : command[c] \in {"store", "done"} => command'[c] \in {"store", "done"},
           pc' = pc, loop' = loop \/ loop' \notin {"wait", "serve"},
           UNCHANGED <<cur, enabled, muxMu, collided>>
    PROVE  MonitorInv'
<1>1. Locked'
  BY Apart, Zenon DEF MonitorInv, Locked
<1>2. Heading'
  BY Zenon DEF MonitorInv, Heading
<1>3. Served'
  BY Zenon DEF MonitorInv, Served, Switching
<1>4. QED
  BY <1>1, <1>2, <1>3, Zenon DEF MonitorInv

(* The steps of the goroutine of one process, and of a switch.              *)
LEMMA ThreadSteps ==
    ASSUME MonitorInv, NEW t \in Threads, Toggle(t)
    PROVE  MonitorInv'
<1>0. cur \in {0, 1} /\ Locked
  BY Zenon DEF MonitorInv, Heading
<1>1. CASE HookOff(t)
  <2>1. PICK to : to = "advance"
    BY Zenon
  <2>2. /\ pc[t] = "hookOff" /\ pc' = [pc EXCEPT ![t] = to]
        /\ IF cur = 0 THEN loop = "serve" /\ loop' = "wait" ELSE loop' = loop
        /\ UNCHANGED <<cur, enabled, muxMu, command, collided>>
    BY <1>1, <2>1, Zenon DEF HookOff, DisableHook, Goto, muxVars, commandVars, keyboardVars
  <2>3. QED
    BY <2>1, <2>2, GoesOn, Zenon DEF Switches, Toggling
<1>2. CASE Advance(t)
  <2>1. PICK to : to = "check"
    BY Zenon
  <2>2. /\ pc[t] = "advance" /\ pc' = [pc EXCEPT ![t] = to]
        /\ cur' = IF cur + 1 >= 2 THEN 0 ELSE cur + 1
        /\ UNCHANGED <<enabled, muxMu, loop, command, collided>>
    BY <1>2, <2>1, Zenon DEF Advance, Goto, loopVars, commandVars, keyboardVars
  <2>3. cur' = IF cur = 0 THEN 1 ELSE 0
    BY <1>0, <2>2
  <2>4. QED
    BY <2>1, <2>2, <2>3, GoesOn, Zenon DEF Switches, Toggling
<1>3. CASE CheckEnabled(t)
  <2>1. PICK to : to = IF cur \in enabled THEN "hookOn" ELSE "advance"
    BY Zenon
  <2>2. /\ pc[t] = "check" /\ pc' = [pc EXCEPT ![t] = to]
        /\ UNCHANGED <<cur, enabled, muxMu, loop, command, collided>>
    BY <1>3, <2>1, Zenon DEF CheckEnabled, Goto, muxVars, loopVars, commandVars, keyboardVars
  <2>3. QED
    BY <2>1, <2>2, GoesOn, Zenon DEF Switches, Toggling
<1>4. CASE HookOn(t)
  <2>1. PICK to : to = IF t = Keyboard THEN "idle" ELSE "clear"
    BY Zenon
  <2>2. /\ pc[t] = "hookOn" /\ pc' = [pc EXCEPT ![t] = to]
        /\ IF cur = 0 THEN loop = "wait" /\ loop' = "serve" ELSE loop' = loop
        /\ muxMu' = IF muxMu = t THEN Nobody ELSE muxMu
        /\ UNCHANGED <<cur, enabled, command, collided>>
    BY <1>4, <2>1, Zenon DEF HookOn, EnableHook, Goto, loopVars, commandVars, keyboardVars
  <2>3. QED
    BY <2>1, <2>2, Ends, Zenon
<1>5. QED
  BY <1>1, <1>2, <1>3, <1>4, Zenon DEF Toggle

LEMMA ProcessMoves ==
    ASSUME MonitorInv, NEW p \in Processes, ProcessSteps(p) \/ InvokeEnds(p)
    PROVE  MonitorInv'
<1>0. enabled \subseteq {0, 1} /\ 0 \in enabled /\ cur \in {0, 1} /\ p \in Threads
  BY Apart, Zenon DEF MonitorInv, Heading
<1>1. CASE Enable(p)
  <2>1. PICK to : to = "switch"
    BY Zenon
  <2>2. /\ pc[p] = "enable" /\ pc' = [pc EXCEPT ![p] = to] /\ enabled' = enabled \cup {1}
        /\ UNCHANGED <<cur, muxMu, loop, command, collided>>
    BY <1>1, <2>1, Zenon DEF Enable, Goto, loopVars, commandVars, keyboardVars
  <2>3. QED
    BY <1>0, <2>1, <2>2, MovesOn, Zenon DEF ThreadPcs, Switches, Toggling
<1>2. CASE SwitchTo(p)
  <2>1. CASE muxMu' = muxMu
    <3>1. PICK to \in {"session", "disable"} : pc' = [pc EXCEPT ![p] = to]
      BY <1>2, <2>1, Apart, Zenon DEF SwitchTo, Goto
    <3>2. pc[p] = "switch" /\ UNCHANGED <<cur, enabled, muxMu, loop, command, collided>>
      BY <1>2, <2>1, Apart, Zenon DEF SwitchTo, loopVars, commandVars
    <3>3. QED
      BY <1>0, <3>1, <3>2, MovesOn, Zenon DEF ThreadPcs, Switches, Toggling
  <2>2. CASE muxMu' # muxMu
    <3>1. PICK to : to = "leave"
      BY Zenon
    <3>2. /\ pc[p] = "switch" /\ pc' = [pc EXCEPT ![p] = to]
          /\ muxMu = Nobody /\ muxMu' = p /\ 1 \in enabled
          /\ collided' = (collided \/ \E t \in Threads : Switching(t))
          /\ UNCHANGED <<cur, enabled, loop, command>>
      BY <1>2, <2>2, <3>1, Zenon DEF SwitchTo, Goto, BeginSwitch, loopVars, commandVars
    <3>3. QED
      BY <1>0, <3>1, <3>2, Begins, Zenon
  <2>3. QED
    BY <2>1, <2>2, Zenon
<1>3. CASE LeaveMonitor(p)
  <2>1. PICK to : to = "arrive"
    BY Zenon
  <2>2. /\ pc[p] = "leave" /\ pc' = [pc EXCEPT ![p] = to]
        /\ IF cur = 0 THEN loop = "serve" /\ loop' = "wait" ELSE loop' = loop
        /\ UNCHANGED <<cur, enabled, muxMu, command, collided>>
    BY <1>3, <2>1, Zenon DEF LeaveMonitor, DisableHook, Goto, muxVars, commandVars, keyboardVars
  <2>3. QED
    BY <1>0, <2>1, <2>2, GoesOn, Zenon DEF Switches, Toggling
<1>4. CASE Arrive(p)
  <2>1. PICK to : to = "session"
    BY Zenon
  <2>2. /\ pc[p] = "arrive" /\ pc' = [pc EXCEPT ![p] = to] /\ cur' = 1 /\ muxMu' = Nobody
        /\ UNCHANGED <<enabled, loop, command, collided>>
    BY <1>4, <2>1, Zenon DEF Arrive, Goto, loopVars, commandVars, keyboardVars
  <2>3. QED
    BY <1>0, <2>1, <2>2, Ends, Apart, Zenon
<1>5. CASE Attach(p) \/ InvokeCancelled(p) \/ InvokeEnds(p) \/ ClearPid(p)
  <2>1. PICK to \in {"run", "disable", "ended"} : pc' = [pc EXCEPT ![p] = to]
    BY <1>5, Zenon DEF Attach, InvokeCancelled, InvokeEnds, InvokeReturns, ClearPid, Goto
  <2>2. /\ pc[p] \in {"session", "run", "clear"}
        /\ UNCHANGED <<cur, enabled, muxMu, loop, command, collided>>
    BY <1>5, Zenon DEF Attach, InvokeCancelled, InvokeEnds, InvokeReturns, ClearPid,
       muxVars, loopVars, commandVars, keyboardVars
  <2>3. QED
    BY <1>0, <2>1, <2>2, MovesOn, Zenon DEF ThreadPcs, Switches, Toggling
<1>6. CASE Disable(p)
  <2>0. pc[p] = "disable" /\ muxMu = Nobody /\ enabled' = enabled \ {1} /\ UNCHANGED <<cur, loop, command>>
    BY <1>6, Zenon DEF Disable, loopVars, commandVars
  <2>1. CASE cur = 1
    <3>1. PICK to : to = "hookOff"
      BY Zenon
    <3>2. /\ pc' = [pc EXCEPT ![p] = to] /\ muxMu' = p
          /\ collided' = (collided \/ \E t \in Threads : Switching(t))
      BY <1>6, <2>1, <3>1, Zenon DEF Disable, Goto, BeginSwitch
    <3>3. 0 \in enabled' /\ enabled' \subseteq {0, 1} /\ to # "leave" /\ to \in {"hookOff", "leave"}
      BY <1>0, <2>0, <3>1
    <3>4. QED
      BY <2>0, <3>2, <3>3, Begins, Zenon
  <2>2. CASE cur # 1
    <3>1. PICK to : to = "clear"
      BY Zenon
    <3>2. pc' = [pc EXCEPT ![p] = to] /\ UNCHANGED <<muxMu, collided>>
      BY <1>6, <2>2, <3>1, Zenon DEF Disable, Goto
    <3>3. QED
      BY <1>0, <2>0, <2>2, <3>1, <3>2, MovesOn, Zenon DEF ThreadPcs, Switches, Toggling
  <2>3. QED
    BY <2>1, <2>2, Zenon
<1>7. CASE Toggle(p)
  BY <1>0, <1>7, ThreadSteps, Zenon
<1>8. QED
  BY <1>1, <1>2, <1>3, <1>4, <1>5, <1>6, <1>7, Zenon DEF ProcessSteps

(* Every step of the keyboard, the loop, a process or a command keeps the   *)
(* invariant of the console.                                                *)
LEMMA MonitorInductive == MonitorInv /\ [MonitorNext]_(monitorVars) => MonitorInv'
<1> SUFFICES ASSUME MonitorInv, [MonitorNext]_(monitorVars) PROVE MonitorInv'
  BY Zenon
<1>0. command \in [Commands -> CommandPcs]
  BY Zenon DEF MonitorInv, Locked
<1>1. ASSUME NEW c \in Commands, Spawn(c) PROVE MonitorInv'
  <2>1. PICK to : to = "enable"
    BY Zenon
  <2>2. /\ command[c] = "spawn" /\ pc' = [pc EXCEPT ![c] = to]
        /\ command' = [command EXCEPT ![c] = "store"]
        /\ UNCHANGED <<cur, enabled, muxMu, loop, collided>>
    BY <1>1, <2>1, Zenon DEF Spawn, Goto, To, muxVars, loopVars, keyboardVars
  <2>3. /\ Locked /\ c \in Threads /\ pc[c] = "idle" /\ pc'[c] = to
        /\ \A u \in Threads : u # c => pc'[u] = pc[u]
    BY <2>2, OneMoves, Apart, Zenon DEF MonitorInv, Locked
  <2>4. Locked'
    BY <2>1, <2>2, <2>3, Apart, Zenon DEF Locked, ThreadPcs, CommandPcs, Toggling
  <2>5. Heading'
    BY <2>1, <2>2, <2>3, Zenon DEF MonitorInv, Heading
  <2>6. Served'
    BY <2>1, <2>2, <2>3, Zenon DEF MonitorInv, Served, Switching, Toggling, Between
  <2>7. QED
    BY <2>4, <2>5, <2>6, Zenon DEF MonitorInv
<1>2. ASSUME NEW c \in Commands,
             \/ Exec(c) \/ AttachToSession(c) \/ Reload(c) \/ Built(c) \/ CancelInvoke(c)
             \/ AwaitInvoke(c) \/ StorePid(c) \/ AttachSession(c)
      PROVE  MonitorInv'
  <2>1. PICK to \in CommandPcs : command' = [command EXCEPT ![c] = to] /\ (command[c] = "store" => to = "done")
    BY <1>2, Zenon DEF Exec, AttachToSession, Reload, Issue, Ready, Built, CancelInvoke, AwaitInvoke,
       StorePid, AttachSession, To, CommandPcs
  <2>2. command[c] # "done" /\ UNCHANGED <<pc, loop, cur, enabled, muxMu, collided>>
    BY <1>2, Zenon DEF Exec, AttachToSession, Reload, Issue, Ready, Built, CancelInvoke, AwaitInvoke,
       StorePid, AttachSession, muxVars, loopVars, keyboardVars
  <2>3. /\ command' \in [Commands -> CommandPcs]
        /\ \A d \in Commands : command[d] \in {"store", "done"} => command'[d] \in {"store", "done"}
    BY <1>0, <2>1, <2>2, Zenon
  <2>4. QED
    BY <2>2, <2>3, CommandMoves, Zenon
<1>3. ASSUME Exit \/ Detach \/ ReturnFromMonitor \/ UNCHANGED monitorVars PROVE MonitorInv'
  <2>1. loop' = loop \/ loop' \notin {"wait", "serve"}
    BY <1>3, Zenon DEF Exit, Detach, ReturnFromMonitor, monitorVars, loopVars
  <2>2. UNCHANGED <<pc, command, cur, enabled, muxMu, collided>>
    BY <1>3, Zenon DEF Exit, Detach, ReturnFromMonitor, monitorVars, muxVars, commandVars, keyboardVars
  <2>3. QED
    BY <1>0, <2>1, <2>2, CommandMoves, Zenon
<1>4. CASE PressToggle
  BY <1>4, Presses, Zenon
<1>5. CASE Toggle(Keyboard)
  BY <1>5, ThreadSteps, Apart, Zenon
<1>6. CASE \E p \in Processes : ProcessSteps(p) \/ InvokeEnds(p)
  BY <1>6, ProcessMoves, Zenon
<1>7. QED
  BY <1>1, <1>2, <1>3, <1>4, <1>5, <1>6, Zenon DEF MonitorNext, CommandSteps

(* However the keyboard, the processes and the commands interleave, the     *)
(* keyboard is left at an output that is enabled, and the command line is   *)
(* served exactly while the keyboard goes to it, unless switches collided.  *)
THEOREM KeyboardStays == MonitorSpec => []KeyboardServed
<1>1. MonitorInv => KeyboardServed
  <2> SUFFICES ASSUME MonitorInv, AtRest
      PROVE  /\ cur \in enabled
             /\ ~collided /\ loop \in {"wait", "serve"} => (loop = "serve" <=> cur = 0)
    BY Zenon DEF KeyboardServed
  <2>1. \A t \in Threads : pc[t] \notin Switches
    BY Zenon DEF AtRest, Switching, Switches
  <2>2. \A t \in Threads : pc[t] \notin Between \cup {"hookOff"}
    BY <2>1, Zenon DEF Switches, Between, Toggling
  <2>3. QED
    BY <2>2, Zenon DEF MonitorInv, Heading, Served, Between
<1>2. QED
  BY MonitorInitially, MonitorInductive, <1>1, PTL DEF MonitorSpec
=============================================================================
