------------------------------ MODULE MCServe ------------------------------
(***************************************************************************)
(* One connection (Session), or the program around its log sink (Program): *)
(* a behaviour is of one of the two, and the other is over from the start. *)
(***************************************************************************)
EXTENDS Session, Program

SessionOver ==
  /\ kind = "tunnel" /\ body = 0 /\ hpc = "done" /\ told = "nothing"
  /\ deadline = "armed" /\ peer = [s \in Sides |-> "reset"]
  /\ sent = [d \in Dirs |-> 0] /\ ahead = 0 /\ taken = sent
  /\ got = [d \in Dirs |-> <<>>] /\ copier = [d \in Dirs |-> "off"]
  /\ finSent = [d \in Dirs |-> FALSE]
  /\ closed = TRUE /\ served = FALSE /\ ldone = FALSE

ProgramOver ==
  /\ NewLogSink
  /\ main = "gone" /\ done = TRUE /\ keys = FALSE /\ quit = FALSE
  /\ mitmOn = FALSE /\ accepting = FALSE

ServeInit == (Init /\ ProgramOver) \/ (ProgramInit /\ SessionOver)

ServeNext == (Next /\ UNCHANGED programVars) \/ (ProgramNext /\ UNCHANGED vars)

ServeSpec ==
  ServeInit /\ [][ServeNext]_<<vars, programVars>> /\ SessionFairness /\ ProgramFairness
=============================================================================
