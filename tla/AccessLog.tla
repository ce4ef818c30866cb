------------------------------- MODULE AccessLog -------------------------------
(***************************************************************************)
(* The writer of the access_log plugin                                     *)
(* (internal/plugin/builtin/access_log.go): requests append lines to a     *)
(* buffer, a flusher goroutine writes it to the file periodically and      *)
(* Close, called when the snapshot is closed, stops the flusher and writes *)
(* the rest. After a reload the old and the new snapshot have a writer     *)
(* each, both appending to the file of the same path.                      *)
(*                                                                         *)
(* A section under the mutex of a writer never blocks, so it is one step.  *)
(* A line is its text and its newline, which reach the buffer separately;  *)
(* Capacity counts such parts. Write errors of the file are not modelled.  *)
(***************************************************************************)
EXTENDS Integers, Sequences

CONSTANTS
  Writers,    \* the accessLogWriters of one path
  Closers,    \* goroutines that call Close() of a writer
  Capacity,   \* size of the bufio.Writer
  MaxLines    \* bound on the lines written

ASSUME CapacityAssumption == Capacity \in Nat \ {0} /\ MaxLines \in Nat

VARIABLES
  file,       \* the parts in the file, in order
  buffer,     \* writer: the buffered parts of each writer
  accepted,   \* history: the parts each writer accepted
  lines,      \* lines written or dropped so far
  closed,     \* closed
  stopCh,     \* stopCh is closed
  doneCh,     \* doneCh is closed
  flusher,    \* the flusher goroutine of each writer
  once,       \* state of stopOnce
  cpc,        \* where each closer is in Close()
  target      \* the writer it closes

logVars == <<file, buffer, accepted, lines, closed, stopCh, doneCh, flusher, once, cpc, target>>

LogInit ==
  /\ file = <<>> /\ lines = 0
  /\ buffer = [w \in Writers |-> <<>>] /\ accepted = [w \in Writers |-> <<>>]
  /\ closed = [w \in Writers |-> FALSE]
  /\ stopCh = [w \in Writers |-> FALSE] /\ doneCh = [w \in Writers |-> FALSE]
  /\ flusher = [w \in Writers |-> "none"] /\ once = [w \in Writers |-> "new"]
  /\ cpc = [c \in Closers |-> "idle"] /\ target \in [Closers -> Writers]

\* newAccessLogWriter and startFlusher.
Open(w) ==
  /\ flusher[w] = "none"
  /\ flusher' = [flusher EXCEPT ![w] = "running"]
  /\ UNCHANGED <<file, buffer, accepted, lines, closed, stopCh, doneCh, once, cpc, target>>

\* bufio: a part that finds the buffer full makes it flush first.
Put(st, part) ==
  IF Len(st.buffer) = Capacity
    THEN [file |-> st.file \o st.buffer, buffer |-> <<part>>]
    ELSE [file |-> st.file, buffer |-> Append(st.buffer, part)]

\* writeLine: a line after Close is dropped.
WriteLine(w) ==
  /\ flusher[w] # "none" /\ lines < MaxLines
  /\ lines' = lines + 1
  /\ IF closed[w]
       THEN UNCHANGED <<file, buffer, accepted>>
       ELSE LET text == [writer |-> w, line |-> lines', part |-> "text"]
                newline == [text EXCEPT !.part = "newline"]
                st == Put(Put([file |-> file, buffer |-> buffer[w]], text), newline)
            IN  /\ file' = st.file
                /\ buffer' = [buffer EXCEPT ![w] = st.buffer]
                /\ accepted' = [accepted EXCEPT ![w] = @ \o <<text, newline>>]
  /\ UNCHANGED <<closed, stopCh, doneCh, flusher, once, cpc, target>>

Flush(w) ==
  /\ file' = file \o buffer[w]
  /\ buffer' = [buffer EXCEPT ![w] = <<>>]

\* The ticker fires: flush() does nothing once the writer is closed.
FlusherTickWhenFull(w) ==
  /\ flusher[w] = "running"
  /\ IF closed[w] \/ Len(buffer[w]) < Capacity THEN UNCHANGED <<file, buffer>> ELSE Flush(w)
  /\ UNCHANGED <<accepted, lines, closed, stopCh, doneCh, flusher, once, cpc, target>>
FlusherTick(w) ==
  /\ flusher[w] = "running"
  /\ IF closed[w] THEN UNCHANGED <<file, buffer>> ELSE Flush(w)
  /\ UNCHANGED <<accepted, lines, closed, stopCh, doneCh, flusher, once, cpc, target>>

\* <-w.stopCh, and the deferred close(w.doneCh).
FlusherStopWhenClosed(w) ==
  /\ flusher[w] = "running" /\ closed[w]
  /\ flusher' = [flusher EXCEPT ![w] = "returned"]
  /\ doneCh' = [doneCh EXCEPT ![w] = TRUE]
  /\ UNCHANGED <<file, buffer, accepted, lines, closed, stopCh, once, cpc, target>>
FlusherStop(w) ==
  /\ flusher[w] = "running" /\ stopCh[w]
  /\ flusher' = [flusher EXCEPT ![w] = "returned"]
  /\ doneCh' = [doneCh EXCEPT ![w] = TRUE]
  /\ UNCHANGED <<file, buffer, accepted, lines, closed, stopCh, once, cpc, target>>

-----------------------------------------------------------------------------
(* Close() *)

CallClose(c, w) ==
  /\ cpc[c] = "idle" /\ flusher[w] # "none"
  /\ cpc' = [cpc EXCEPT ![c] = "do"]
  /\ target' = [target EXCEPT ![c] = w]
  /\ UNCHANGED <<file, buffer, accepted, lines, closed, stopCh, doneCh, flusher, once>>

\* stopOnce.Do: the first caller closes stopCh; a caller that comes while it
\* runs waits until it has returned.
CloseOnceDo(c) ==
  /\ cpc[c] = "do"
  /\ \/ /\ once[target[c]] = "new"
        /\ once' = [once EXCEPT ![target[c]] = "running"]
        /\ stopCh' = [stopCh EXCEPT ![target[c]] = TRUE]
        /\ cpc' = [cpc EXCEPT ![c] = "waitDone"]
     \/ /\ once[target[c]] = "done"
        /\ cpc' = [cpc EXCEPT ![c] = "lock"]
        /\ UNCHANGED <<once, stopCh>>
  /\ UNCHANGED <<file, buffer, accepted, lines, closed, doneCh, flusher, target>>

CloseAwaitNothing(c) ==
  /\ cpc[c] = "waitDone"
  /\ once' = [once EXCEPT ![target[c]] = "done"]
  /\ cpc' = [cpc EXCEPT ![c] = "lock"]
  /\ UNCHANGED <<file, buffer, accepted, lines, closed, stopCh, doneCh, flusher, target>>
CloseAwaitFlusher(c) ==
  /\ cpc[c] = "waitDone"
  /\ doneCh[target[c]]
  /\ once' = [once EXCEPT ![target[c]] = "done"]
  /\ cpc' = [cpc EXCEPT ![c] = "lock"]
  /\ UNCHANGED <<file, buffer, accepted, lines, closed, stopCh, doneCh, flusher, target>>

\* Under the mutex: the last flush and the close of the file, once.
CloseFileUnflushed(c) ==
  /\ cpc[c] = "lock"
  /\ closed' = [closed EXCEPT ![target[c]] = TRUE]
  /\ UNCHANGED <<file, buffer>>
  /\ cpc' = [cpc EXCEPT ![c] = "idle"]
  /\ UNCHANGED <<accepted, lines, stopCh, doneCh, flusher, once, target>>
CloseFile(c) ==
  /\ cpc[c] = "lock"
  /\ closed' = [closed EXCEPT ![target[c]] = TRUE]
  /\ IF closed[target[c]] THEN UNCHANGED <<file, buffer>> ELSE Flush(target[c])
  /\ cpc' = [cpc EXCEPT ![c] = "idle"]
  /\ UNCHANGED <<accepted, lines, stopCh, doneCh, flusher, once, target>>

CloseStep(c) == CloseOnceDo(c) \/ CloseAwaitFlusher(c) \/ CloseFile(c)

LogNext ==
  \/ \E w \in Writers : Open(w) \/ WriteLine(w) \/ FlusherTick(w) \/ FlusherStop(w)
  \/ \E c \in Closers : CloseStep(c) \/ \E w \in Writers : CallClose(c, w)

LogSpec == LogInit /\ [][LogNext]_logVars

\* The goroutines run, the ticker keeps firing, and a flusher that finds both
\* its channels ready does not choose the ticker forever: select is random.
LogFairness ==
  /\ \A w \in Writers : WF_logVars(FlusherTick(w)) /\ WF_logVars(FlusherStop(w))
  /\ \A c \in Closers : WF_logVars(CloseStep(c))

LogFairSpec == LogSpec /\ LogFairness

-----------------------------------------------------------------------------
(* Properties *)

\* The parts of w among those of s, in their order.
From(w, s) ==
  LET from[n \in 0..Len(s)] ==
        IF n = 0 THEN <<>>
        ELSE IF s[n].writer = w THEN Append(from[n - 1], s[n]) ELSE from[n - 1]
  IN  from[Len(s)]

\* Whatever the flusher, a full buffer and the other writer of the file do, the
\* lines a writer accepted are in the file and its buffer, once and in order;
\* after Close all of them are in the file.
NothingLost ==
  \A w \in Writers :
    /\ From(w, file) \o buffer[w] = accepted[w]
    /\ closed[w] => buffer[w] = <<>>

\* A writer is closed only after its flusher has returned: when the Close() of a
\* snapshot is over, no goroutine of the snapshot is left, also when two
\* goroutines call Close().
FlusherGoneBeforeClose == \A w \in Writers : closed[w] => flusher[w] = "returned"

\* Every Close() returns, also when two goroutines close one writer.
CloseReturns == \A c \in Closers : cpc[c] # "idle" ~> cpc[c] = "idle"

\* A buffered line reaches the file although no other line follows it.
EventuallyFlushed == \A w \in Writers : buffer[w] # <<>> ~> From(w, file) = accepted[w]

=============================================================================
