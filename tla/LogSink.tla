------------------------------ MODULE LogSink ------------------------------
(***************************************************************************)
(* The log sink (log_sink.go): lines written while it is on are buffered   *)
(* under a mutex, and a flush moves the buffer to the log file, which it   *)
(* opens and closes outside the mutex.  Two goroutines flush: RunFlusher   *)
(* and, at the end, main.  Lines are numbered as they enter the buffer.    *)
(***************************************************************************)
EXTENDS Integers, Sequences, SequencesExt

CONSTANTS MaxLines,     \* lines buffered at most
          DiskFaults    \* whether opening or appending to the file may fail

ASSUME LogAssumption == MaxLines \in Nat /\ DiskFaults \in BOOLEAN

Flushers == {"ticker", "main"}

VARIABLES
  enabled,  \* LogSink.enabled
  writing,  \* a Write has seen the sink on (log.Logger lets in one at a time)
  lines,    \* lines that entered the buffer (history)
  buf,      \* LogSink.buf
  batch,    \* flusher -> what it took out of buf and has not stored
  file,     \* the log file
  lost      \* lines a failed open or write dropped (history)

logVars == <<enabled, writing, lines, buf, batch, file, lost>>

NewLogSink ==
  /\ enabled = FALSE /\ writing = FALSE /\ lines = 0
  /\ buf = <<>> /\ batch = [f \in Flushers |-> <<>>]
  /\ file = <<>> /\ lost = {}

Toggle == enabled' = ~enabled /\ UNCHANGED <<writing, lines, buf, batch, file, lost>>

\* Write looks at enabled ...
BeginWrite ==
  /\ enabled /\ ~writing /\ lines < MaxLines
  /\ writing' = TRUE
  /\ UNCHANGED <<enabled, lines, buf, batch, file, lost>>

\* ... and then takes the mutex, whatever enabled is by then.
EndWrite ==
  /\ writing /\ writing' = FALSE
  /\ lines' = lines + 1 /\ buf' = Append(buf, lines + 1)
  /\ UNCHANGED <<enabled, batch, file, lost>>

\* A slip of AfterTake: buf.Reset left out.
NoReset == buf

\* The buffer once a flush has copied it.
AfterTake == <<>>

\* A slip of Pending: a sink that is off not flushed.
PendingIfOn == enabled /\ buf # <<>>

\* Whether Flush has something to do, on or off.
Pending == buf # <<>>

\* Flush, under the mutex.
Take(f) ==
  /\ batch[f] = <<>> /\ Pending
  /\ batch' = [batch EXCEPT ![f] = buf] /\ buf' = AfterTake
  /\ UNCHANGED <<enabled, writing, lines, file, lost>>

\* Open, append, close: all of the batch, or a part of it and an error.
Store(f) ==
  /\ batch[f] # <<>>
  /\ \E k \in 0 .. Len(batch[f]) :
       /\ k = Len(batch[f]) \/ DiskFaults
       /\ file' = file \o SubSeq(batch[f], 1, k)
       /\ lost' = lost \cup {batch[f][i] : i \in k + 1 .. Len(batch[f])}
  /\ batch' = [batch EXCEPT ![f] = <<>>]
  /\ UNCHANGED <<enabled, writing, lines, buf>>

LogWrite == BeginWrite \/ EndWrite

-----------------------------------------------------------------------------
\* The lines that are somewhere, from the oldest place to the newest.
Held == file \o batch["ticker"] \o batch["main"] \o buf

\* Every line that was accepted is in one place, once: waiting in the buffer,
\* in the hands of one flush, in the file, or dropped by a flush that failed
\* (log_sink.go lines 75 to 94).
EachLineOnce ==
  /\ IsInjective(Held)
  /\ ToSet(Held) \cap lost = {} /\ ToSet(Held) \cup lost = 1 .. lines
=============================================================================
