------------------------------ MODULE Program ------------------------------
(***************************************************************************)
(* The running program (main.go from line 222 on) around its log sink: the *)
(* listener, the goroutine of the signals, runKeypressLoop, the TUI, and   *)
(* how main ends while everything else still runs.                         *)
(***************************************************************************)
EXTENDS LogSink

VARIABLES
  main,      \* "tui", "restored", "flushing", "leaving", "gone"
  done,      \* the done channel is closed
  keys,      \* runKeypressLoop runs
  quit,      \* a line "q" was read (history)
  mitmOn,    \* MITMController.on
  accepting  \* ServeSOCKS5 runs

programVars == <<logVars, main, done, keys, quit, mitmOn, accepting>>

\* mitmCtrl.Set(true) depends on the CA (CAStore).
ProgramInit ==
  /\ NewLogSink
  /\ main = "tui" /\ done = FALSE /\ keys = TRUE /\ quit = FALSE
  /\ mitmOn \in BOOLEAN /\ accepting = TRUE

Running == main # "gone"

\* os.Interrupt or SIGTERM.
Signal ==
  /\ Running /\ ~done /\ done' = TRUE
  /\ UNCHANGED <<logVars, main, keys, quit, mitmOn, accepting>>

\* One line of stdin: "m" and "l" toggle, any other, "q" too, does nothing.
Key ==
  /\ Running /\ keys
  /\ \E k \in {"m", "l", "q"} :
       /\ mitmOn' = IF k = "m" THEN ~mitmOn ELSE mitmOn
       /\ IF k = "l" THEN Toggle ELSE UNCHANGED logVars
       /\ quit' = (quit \/ k = "q")
  /\ UNCHANGED <<main, done, keys, accepting>>

\* done is closed, or stdin ends.
KeysEnd ==
  /\ Running /\ keys /\ keys' = FALSE
  /\ UNCHANGED <<logVars, main, done, quit, mitmOn, accepting>>

\* A slip of LogsToSink: stderr restored after the last flush.
LogsToSinkUntilGone == Running

\* SetOutput: what the log package writes to.
LogsToSink == main = "tui"

\* Any goroutine logs.
LogLine ==
  /\ LogsToSink /\ LogWrite
  /\ UNCHANGED <<main, done, keys, quit, mitmOn, accepting>>

\* ServeSOCKS5: any error of Accept ends the loop.
AcceptFails ==
  /\ Running /\ accepting /\ accepting' = FALSE
  /\ UNCHANGED <<logVars, main, done, keys, quit, mitmOn>>

\* RunFlusher, at every tick and when its context ends.
Tick ==
  /\ Running
  /\ Take("ticker") \/ Store("ticker")
  /\ UNCHANGED <<main, done, keys, quit, mitmOn, accepting>>

\* RunTUI returns.  SetOutput waits for the Write of another goroutine.
Restore ==
  /\ main = "tui" /\ done /\ ~writing
  /\ main' = "restored"
  /\ UNCHANGED <<logVars, done, keys, quit, mitmOn, accepting>>

\* main's own Flush: nothing to do, or a batch to store.
Flush ==
  /\ main = "restored"
  /\ IF Pending THEN main' = "flushing" /\ Take("main")
                ELSE main' = "leaving" /\ UNCHANGED logVars
  /\ UNCHANGED <<done, keys, quit, mitmOn, accepting>>

Flushed ==
  /\ main = "flushing" /\ Store("main") /\ main' = "leaving"
  /\ UNCHANGED <<done, keys, quit, mitmOn, accepting>>

\* proxyLn.Close, cancel, flushCancel; then the process ends and with it every
\* goroutine, wherever it is.
Exit ==
  /\ main = "leaving" /\ main' = "gone"
  /\ UNCHANGED <<logVars, done, keys, quit, mitmOn, accepting>>

ProgramNext ==
  \/ Signal \/ Key \/ KeysEnd \/ LogLine \/ AcceptFails \/ Tick
  \/ Restore \/ Flush \/ Flushed \/ Exit

\* The ticker fires and a flush under way is finished; main goes on.  Nothing
\* makes a user type or a goroutine log.
ProgramFairness ==
  /\ WF_programVars(Tick)
  /\ WF_programVars(LogLine /\ writing)
  /\ WF_programVars(Restore \/ Flush \/ Flushed \/ Exit)

-----------------------------------------------------------------------------
Stored == ToSet(file)

\* Until main flushes too, the file has the lines in the order they came.
FileInOrder ==
  main \in {"tui", "restored"} =>
    \A i, j \in DOMAIN file : i < j => file[i] < file[j]

\* When the program has ended nothing is left in the buffer: main restores
\* stderr, then flushes.  A line is missing in the file only because a flush
\* failed or the ticker's was cut off.
ExitKeeps ==
  main = "gone" => 1 .. lines = Stored \cup lost \cup ToSet(batch["ticker"])

\* A buffered line goes to the file at the next tick, also when the sink has
\* been turned off since ("will flush any pending bytes", log_sink.go line 69).
LinesReachFile ==
  \A n \in 1 .. MaxLines :
    n \in ToSet(buf) ~> (n \in Stored \cup lost \/ ~Running)

\* Not so: the file has the lines in order (main's flush may append before the
\* ticker's older batch).
FileOrdered == \A i, j \in DOMAIN file : i < j => file[i] < file[j]

\* Not so: a clean end stores every line ("or on Close", log_sink.go line 19).
ExitFlushes == main = "gone" => 1 .. lines = Stored \cup lost

\* Not so: "q -- quit (same as Ctrl+C)" (mitm_control.go line 53).
QuitQuits == quit ~> ~Running

\* Not so: the proxy accepts until main ends (proxy.go lines 69 to 71).
KeepsAccepting == main = "tui" => accepting
=============================================================================
