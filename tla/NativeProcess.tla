----------------------------- MODULE NativeProcess -----------------------------
(***************************************************************************)
(* One command of a native program in a scratch repository: its output is  *)
(* read through pipes while a deadline, a byte bound, failing pipes and an *)
(* interruption may end it, and the directory goes when it is over.        *)
(* packages/ts-release/src/platform/Process.ts and GitProcess.ts.          *)
(*                                                                         *)
(* Output is counted in chunks.  The program may start a helper, which is  *)
(* of its process group and holds its pipes (POSIX).                       *)
(***************************************************************************)
EXTENDS Naturals

CONSTANTS
  Remote, Https,   \* where the command talks to, and which of these by TLS
  MaxOutput,       \* maximumOutputBytes
  MaxWritten       \* bound: what the program writes

ProcessAssumption ==
  Https \subseteq Remote /\ MaxOutput \in Nat /\ MaxWritten \in Nat

VARIABLES
  command,    \* the call: its locals, and what it returned
  system      \* the processes, what is in their pipes, the directory

vars == <<command, system>>

Init ==
  /\ \E remote \in Remote, secret \in BOOLEAN :
       command = [phase |-> "idle", remote |-> remote, secret |-> secret, timer |-> FALSE,
                  finished |-> FALSE, failed |-> FALSE, bytes |-> 0, stdout |-> 0,
                  result |-> "none"]
  /\ system = [child |-> "none", helper |-> "none", killed |-> FALSE, directory |-> "none",
               out |-> 0, err |-> 0, wrote |-> 0, code |-> "none"]

TypeOK ==
  /\ command.phase \in {"idle", "ready", "running", "stopping", "returned"}
  /\ command.result \in {"none", "success", "rejected", "failed", "interrupted"}
  /\ system.child \in {"none", "running", "exited"}
  /\ system.helper \in {"none", "running", "exited"}
  /\ system.directory \in {"none", "there", "removed"}

Alive == system.child = "running" \/ system.helper = "running"
Empty == system.out = 0 /\ system.err = 0

-----------------------------------------------------------------------------
(* Setting up *)

\* credentialEnvironment: a header for this remote in the child's environment, or none;
\* never one that would leave without TLS.
CredentialEnvironment(remote, secret) == secret => remote \in Https

\* repository: a directory of the call's own, before any command runs in it.
OpenRepository ==
  /\ command.phase = "idle"
  /\ IF CredentialEnvironment(command.remote, command.secret)
     THEN /\ system' = [system EXCEPT !.directory = "there"]
          /\ command' = [command EXCEPT !.phase = "ready"]
     ELSE /\ command' = [command EXCEPT !.phase = "returned", !.result = "failed"]
          /\ UNCHANGED system

\* spawn: the process starts, or an error event tells that it did not, or it throws.
Spawn ==
  /\ command.phase = "ready"
  /\ \/ /\ command' = [command EXCEPT !.phase = "running", !.timer = TRUE]
        /\ system' = [system EXCEPT !.child = "running"]
     \/ /\ command' = [command EXCEPT !.phase = "running", !.timer = TRUE, !.failed = TRUE]
        /\ system' = [system EXCEPT !.child = "exited", !.code = "failure"]
     \/ /\ command' = [command EXCEPT !.phase = "returned", !.failed = TRUE,
                                      !.result = "failed"]
        /\ UNCHANGED system

-----------------------------------------------------------------------------
(* The program *)

Write(pipe) ==
  /\ Alive /\ system.wrote < MaxWritten
  /\ system' = IF pipe = "stdout"
               THEN [system EXCEPT !.out = @ + 1, !.wrote = @ + 1]
               ELSE [system EXCEPT !.err = @ + 1, !.wrote = @ + 1]
  /\ UNCHANGED command

Fork ==
  /\ system.child = "running" /\ system.helper = "none" /\ ~system.killed
  /\ system' = [system EXCEPT !.helper = "running"]
  /\ UNCHANGED command

Exit ==
  /\ \/ system.child = "running"
        /\ \E code \in {"zero", "nonzero"} :
             system' = [system EXCEPT !.child = "exited", !.code = code]
     \/ system.helper = "running" /\ system' = [system EXCEPT !.helper = "exited"]
  /\ UNCHANGED command

\* Mutant: the signal goes to the program, not to its group.
ProgramAlone(s) ==
  IF s.child = "running" THEN [s EXCEPT !.child = "exited", !.code = "signal"] ELSE s

\* SIGKILL to the group: whoever is left of it dies.
GroupKilled(s) ==
  [s EXCEPT !.child = IF @ = "running" THEN "exited" ELSE @,
            !.code = IF s.child = "running" THEN "signal" ELSE @,
            !.helper = IF @ = "running" THEN "exited" ELSE @]

Die ==
  /\ system.killed /\ Alive
  /\ system' = GroupKilled(system)
  /\ UNCHANGED command

-----------------------------------------------------------------------------
(* The call *)

Listening == command.phase \in {"running", "stopping"} /\ ~command.finished

\* kill, unless the close was seen.
Kill == system' = [system EXCEPT !.killed = @ \/ ~command.finished]

\* stop: what comes now can only fail.
Stop(c) ==
  /\ command' = [c EXCEPT !.failed = TRUE]
  /\ Kill

\* output: stdout is kept and both are counted, up to the bound.
Output(pipe) ==
  LET counted == [command EXCEPT !.bytes = @ + 1]
      kept == [counted EXCEPT !.stdout = IF pipe = "stdout" THEN @ + 1 ELSE @]
      drained == IF pipe = "stdout" THEN [system EXCEPT !.out = @ - 1]
                                    ELSE [system EXCEPT !.err = @ - 1]
  IN  /\ Listening
      /\ IF pipe = "stdout" THEN system.out > 0 ELSE system.err > 0
      /\ IF counted.bytes > MaxOutput
         THEN /\ command' = [counted EXCEPT !.failed = TRUE]
              /\ system' = [drained EXCEPT !.killed = TRUE]
         ELSE command' = kept /\ system' = drained

Timeout == command.timer /\ Stop([command EXCEPT !.timer = FALSE])

\* The program closed its stdin, or an error event comes late.
PipeError == Listening /\ Alive /\ Stop(command)

\* Mutant: the exit event, which comes before the rest of the output.
OnExit == system.child = "exited"

\* The close event: everybody who held the pipes is gone, and they were read.
OnClose == system.child = "exited" /\ system.helper # "running" /\ Empty

Close ==
  /\ Listening /\ OnClose
  /\ command' = [command EXCEPT
       !.finished = TRUE, !.timer = FALSE, !.phase = "returned",
       !.result = IF command.phase = "stopping" THEN "interrupted"
                  ELSE IF command.failed \/ system.code = "signal" THEN "failed"
                  ELSE IF system.code = "zero" THEN "success"
                  ELSE "rejected"]
  /\ UNCHANGED system

\* The finalizer of an interrupted call: the group is killed and the close awaited.
Interrupt ==
  /\ command.phase = "running"
  /\ command' = [command EXCEPT !.phase = "stopping", !.timer = FALSE]
  /\ Kill

\* Mutant: the directory goes as soon as the call is interrupted.
AtOnce == command.phase \in {"stopping", "returned"}

\* The repository is released when the call is over, or before any was made.
Over == command.phase = "returned" \/ command.phase = "ready"

CloseRepository ==
  /\ system.directory = "there" /\ Over
  /\ system' = [system EXCEPT !.directory = "removed"]
  /\ command' = [command EXCEPT !.phase = "returned",
                                !.result = IF @ = "none" THEN "interrupted" ELSE @]

-----------------------------------------------------------------------------
Next ==
  \/ OpenRepository \/ Spawn \/ Fork \/ Exit \/ Die
  \/ \E pipe \in {"stdout", "stderr"} : Write(pipe) \/ Output(pipe)
  \/ Timeout \/ PipeError \/ Close \/ Interrupt \/ CloseRepository

\* Signals are delivered, timers fire, pipes are read and closes are told.
Fairness ==
  /\ WF_vars(Die) /\ WF_vars(Timeout) /\ WF_vars(Close)
  /\ \A pipe \in {"stdout", "stderr"} : WF_vars(Output(pipe))

Spec == Init /\ [][Next]_vars /\ Fairness

-----------------------------------------------------------------------------
\* Success is the exit of a program nobody stopped, with all it and its helper wrote
\* read, and its stdout whole.
OutputWhole ==
  command.result \in {"success", "rejected"} =>
    /\ ~Alive /\ Empty /\ ~command.failed /\ system.code # "signal"
    /\ command.bytes = system.wrote /\ command.bytes <= MaxOutput

\* No process works in a directory that was removed.
DirectoryHeld == system.directory = "removed" => ~Alive

\* Every command returns, whoever holds its pipes and however little it writes.
CommandEnds == command.phase = "running" ~> command.phase = "returned"
=============================================================================
