------------------------------ MODULE Forwarder ------------------------------
(***************************************************************************)
(* SingleForwarder (util/ioset/ioset.go): one goroutine, doForward, waits  *)
(* for another reader or the end; for every reader it starts a goroutine   *)
(* that copies from it to whatever the writer is at that moment.           *)
(*                                                                         *)
(* SetReader and SetWriter are called under the mutex of Forwarder, Close  *)
(* is not.  Readers and writers are the ends of pipes: a write, even of    *)
(* nothing, waits until the far end reads or one of the two is closed.     *)
(* The code after the test of readerClosed, which calls the handler of     *)
(* EOF, is never reached: every error of a read sets readerClosed.         *)
(***************************************************************************)
EXTENDS Naturals, Sequences

CONSTANTS
    Readers, Writers,
    MaxBytes,   \* bound on what is read from one reader
    MaxSets     \* bound on the calls of SetReader and SetWriter

(* No reader or writer is the absence of one.                               *)
ASSUME StreamsAssumption == {"nil", "none"} \cap (Readers \cup Writers) = {}

Nil == "nil"
Failures == {"eof", "closed"}   \* io.EOF, io.ErrClosedPipe

VARIABLES
    curR, curW,    \* the registered reader and writer
    shut,          \* readers and writers that have been closed
    used,          \* readers and writers that have been registered
    pending,       \* the reader that SetReader is sending, or "none"
    doneCh,        \* it is closed
    forward,       \* doForward: "select" or "returned"
    copier,        \* the goroutine of each reader: "none", "read", "load", "write", "test" or "ended"
    consumed,      \* bytes read from each reader
    readErr,       \* the error of the last read, which else returned byte consumed[r]
    dest,          \* the writer the copier is writing to
    invalid,       \* readers that have been replaced
    written,       \* what has been written of each reader's bytes, in order
    closer,        \* Close: "idle", "reader", "writer", "done" or "closed"
    taken,         \* the reader or writer Close has taken out and not closed yet
    sets,          \* calls of SetReader and SetWriter
    raced          \* a reader or writer was set after Close had begun

copierVars == <<copier, consumed, readErr, dest, written>>
closeVars == <<doneCh, closer, taken>>
forwarderVars == <<curR, curW, shut, used, pending, forward, copierVars, invalid, closeVars, sets, raced>>

ForwarderInit ==
    /\ curR = Nil /\ curW = Nil /\ shut = {} /\ used = {} /\ pending = "none" /\ forward = "select"
    /\ copier = [r \in Readers |-> "none"] /\ consumed = [r \in Readers |-> 0]
    /\ readErr = [r \in Readers |-> Nil] /\ dest = [r \in Readers |-> Nil]
    /\ written = [r \in Readers |-> <<>>] /\ invalid = {}
    /\ doneCh = FALSE /\ closer = "idle" /\ taken = Nil /\ sets = 0 /\ raced = FALSE

-----------------------------------------------------------------------------
\* The copying goroutine of a reader.
CopierAt(r, where) == copier' = [copier EXCEPT ![r] = where]
Returned(r, err) == readErr' = [readErr EXCEPT ![r] = err]
outside == <<curR, curW, used, pending, forward, invalid, closeVars, sets, raced>>

ReadBytes(r) ==
    /\ copier[r] = "read" /\ r \notin shut /\ consumed[r] < MaxBytes
    /\ consumed' = [consumed EXCEPT ![r] = @ + 1]
    /\ Returned(r, Nil) /\ CopierAt(r, "load")
    /\ UNCHANGED <<outside, shut, dest, written>>

ReadEOF(r) ==
    /\ copier[r] = "read" /\ r \notin shut
    /\ shut' = shut \cup {r} /\ Returned(r, "eof") /\ CopierAt(r, "load")
    /\ UNCHANGED <<outside, consumed, dest, written>>

\* Another error ends the copier at once.
ReadFails(r) ==
    /\ copier[r] = "read" /\ r \notin shut
    /\ shut' = shut \cup {r} /\ CopierAt(r, "ended")
    /\ UNCHANGED <<outside, consumed, readErr, dest, written>>

ReadClosed(r) ==
    /\ copier[r] = "read" /\ r \in shut
    /\ Returned(r, "closed") /\ CopierAt(r, "load")
    /\ UNCHANGED <<outside, shut, consumed, dest, written>>

LoadWriter(r) ==
    /\ copier[r] = "load"
    /\ dest' = [dest EXCEPT ![r] = curW] /\ CopierAt(r, "write")
    /\ UNCHANGED <<outside, shut, consumed, readErr, written>>

\* There is no writer, or it has been closed.
WriteReturns(r) ==
    /\ copier[r] = "write" /\ dest[r] \in shut \cup {Nil}
    /\ CopierAt(r, "test")
    /\ UNCHANGED <<outside, shut, consumed, readErr, dest, written>>

writesTwice(r) == \* mutant: a write is repeated
    /\ copier[r] = "write" /\ dest[r] \notin shut \cup {Nil}
    /\ written' = IF readErr[r] = Nil THEN [written EXCEPT ![r] = @ \o <<consumed[r], consumed[r]>>] ELSE written
    /\ CopierAt(r, "test")
    /\ UNCHANGED <<outside, shut, consumed, readErr, dest>>

\* The far end reads, or it has been closed and the bytes are lost.
WriteBytes(r) ==
    /\ copier[r] = "write" /\ dest[r] \notin shut \cup {Nil}
    /\ \/ readErr[r] = Nil /\ written' = [written EXCEPT ![r] = Append(@, consumed[r])]
       \/ UNCHANGED written
    /\ CopierAt(r, "test")
    /\ UNCHANGED <<outside, shut, consumed, readErr, dest>>

readsOn(r) == \* mutant: the copier goes on after an error
    /\ copier[r] = "test"
    /\ CopierAt(r, IF r \in invalid THEN "ended" ELSE "read")
    /\ UNCHANGED <<outside, shut, consumed, readErr, dest, written>>

Test(r) ==
    /\ copier[r] = "test"
    /\ CopierAt(r, IF r \in invalid \/ readErr[r] \in Failures THEN "ended" ELSE "read")
    /\ UNCHANGED <<outside, shut, consumed, readErr, dest, written>>

Copy(r) == ReadClosed(r) \/ LoadWriter(r) \/ WriteReturns(r) \/ Test(r)

-----------------------------------------------------------------------------
\* SetReader sends the reader to doForward; Nil for none.  A Set call that
\* begins after Close is the race that raced records.
SetReader(r) ==
    /\ pending = "none" /\ r \notin used /\ sets < MaxSets
    /\ sets' = sets + 1
    /\ pending' = r /\ used' = used \cup ({r} \ {Nil}) /\ raced' = (raced \/ closer # "idle")
    /\ UNCHANGED <<curR, curW, shut, forward, copierVars, invalid, closeVars>>

keepsOld == \* mutant: the reader that is replaced is not closed
    /\ forward = "select" /\ pending # "none"
    /\ shut' = shut
    /\ curR' = pending /\ pending' = "none"
    /\ invalid' = {r \in Readers : copier[r] # "none"}
    /\ copier' = [r \in Readers |-> IF r = pending THEN "read" ELSE copier[r]]
    /\ raced' = (raced \/ closer # "idle")
    /\ UNCHANGED <<curW, used, forward, consumed, readErr, dest, written, closeVars, sets>>

\* doForward takes the new reader, closes the old one and starts a copier.
UpdateReader ==
    /\ forward = "select" /\ pending # "none"
    /\ shut' = shut \cup ({curR} \ {Nil})
    /\ curR' = pending /\ pending' = "none"
    /\ invalid' = {r \in Readers : copier[r] # "none"}
    /\ copier' = [r \in Readers |-> IF r = pending THEN "read" ELSE copier[r]]
    /\ raced' = (raced \/ closer # "idle")
    /\ UNCHANGED <<curW, used, forward, consumed, readErr, dest, written, closeVars, sets>>

ForwardReturns ==
    /\ forward = "select" /\ doneCh
    /\ forward' = "returned"
    /\ UNCHANGED <<curR, curW, shut, used, pending, copierVars, invalid, closeVars, sets, raced>>

SetWriter(w) ==
    /\ pending = "none" /\ w \notin used /\ sets < MaxSets
    /\ sets' = sets + 1
    /\ shut' = shut \cup ({curW} \ {Nil})
    /\ curW' = w /\ used' = used \cup ({w} \ {Nil}) /\ raced' = (raced \/ closer # "idle")
    /\ UNCHANGED <<curR, pending, forward, copierVars, invalid, closeVars>>

-----------------------------------------------------------------------------
\* Close takes the reader out, closes it, then the writer, then doneCh.
closing == <<used, pending, forward, copierVars, invalid, sets, raced>>

TakeReader ==
    /\ closer = "idle"
    /\ closer' = "reader" /\ taken' = curR /\ curR' = Nil
    /\ UNCHANGED <<closing, curW, shut, doneCh>>

TakeWriter ==
    /\ closer = "reader"
    /\ shut' = shut \cup ({taken} \ {Nil})
    /\ closer' = "writer" /\ taken' = curW /\ curW' = Nil
    /\ UNCHANGED <<closing, curR, doneCh>>

CloseWriter ==
    /\ closer = "writer"
    /\ shut' = shut \cup ({taken} \ {Nil})
    /\ closer' = "done" /\ taken' = Nil
    /\ UNCHANGED <<closing, curR, curW, doneCh>>

CloseDoneCh ==
    /\ closer = "done"
    /\ doneCh' = TRUE /\ closer' = "closed"
    /\ UNCHANGED <<closing, curR, curW, shut, taken>>

CloseSteps == TakeWriter \/ CloseWriter \/ CloseDoneCh

ForwarderNext ==
    \/ \E r \in Readers : ReadBytes(r) \/ ReadEOF(r) \/ ReadFails(r) \/ WriteBytes(r) \/ Copy(r)
    \/ \E r \in Readers \cup {Nil} : SetReader(r)
    \/ \E w \in Writers \cup {Nil} : SetWriter(w)
    \/ UpdateReader \/ ForwardReturns \/ TakeReader \/ CloseSteps

ForwarderSpec == ForwarderInit /\ [][ForwarderNext]_forwarderVars

\* The goroutines run, select chooses at random among the cases that are ready,
\* and a Close that was begun goes on; nothing makes a reader supply bytes or end,
\* or the far end of a writer read them.
ForwarderFairness ==
    /\ WF_forwarderVars(UpdateReader) /\ WF_forwarderVars(ForwardReturns) /\ WF_forwarderVars(CloseSteps)
    /\ \A r \in Readers : WF_forwarderVars(Copy(r))

ForwarderFairSpec == ForwarderSpec /\ ForwarderFairness

-----------------------------------------------------------------------------
\* What is read from one reader arrives in order, nothing of it twice, also
\* when the writer is replaced between two chunks.
InOrder ==
    \A r \in Readers : \A i, j \in DOMAIN written[r] : i < j => written[r][i] < written[r][j]

\* "closed when set another reader", "closed when set another writer": only the
\* registered ones, and the one Close has in its hands, are still open.  "Close
\* closes the both of registered reader and writer and finishes the forwarder",
\* unless another one is being set meanwhile.
StreamsClosed ==
    /\ used \ shut \subseteq {curR, curW, pending, taken}
    /\ closer = "closed" /\ ~raced /\ pending = "none" => curR = Nil /\ curW = Nil /\ used \subseteq shut

\* A copier whose reader has been closed ends, provided it is not left writing to
\* a pipe that nobody reads.  Close makes doForward and every copier return, those
\* that are writing included, unless another reader or writer is set meanwhile.  A
\* call of SetReader returns as long as doForward has not.
ForwarderLive ==
    /\ \A r \in Readers : []<>(copier[r] # "write") => ((r \in shut) ~> (copier[r] \in {"none", "ended"}))
    /\ (closer = "reader") ~> (forward = "returned" /\ (raced \/ \A r \in Readers : copier[r] \in {"none", "ended"}))
    /\ (pending # "none") ~> (pending = "none" \/ forward = "returned")

\* A call of SetReader returns.  Not so when the forwarder has been closed: nobody
\* receives from updateRCh any more, and the caller keeps the mutex of Forwarder.
SetReaderReturns == (pending # "none") ~> (pending = "none")

\* "If this is true, EOF from Stdin (reader) of Out closes Stdin (writer) of In."
EofPropagates ==
    \A r \in Readers : copier[r] = "ended" /\ readErr[r] = "eof" /\ r \notin invalid /\ dest[r] # Nil
                       => dest[r] \in shut
=============================================================================
