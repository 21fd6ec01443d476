-------------------------- MODULE CommandExecution --------------------------
(***************************************************************************)
(* run_shell: a command runs in a process group of its own, three threads  *)
(* move its input and its output through pipes, and the calling thread     *)
(* polls for its end, kills the group when the limit has passed and then   *)
(* waits for the threads.                                                  *)
(*                                                                         *)
(* The shell stands for itself and its foreground commands.  Every other   *)
(* process is one it left in the background, which may redirect its output *)
(* or leave the group.  What passes through a pipe is counted in chunks.   *)
(***************************************************************************)
EXTENDS Naturals

CONSTANTS
    Processes,   \* the processes the command may consist of
    Shell,       \* the one that is spawned
    Capacity,    \* chunks that fit into a pipe
    MaxChunks,   \* bound: chunks a process writes to a stream
    MaxInput     \* bound: chunks of input

ASSUME ShellAssumption == Shell \in Processes
ASSUME CapacityAssumption == Capacity \in Nat \ {0} /\ {MaxChunks, MaxInput} \subseteq Nat

Streams == {"stdout", "stderr"}

VARIABLES
    limit,     \* the time the command has: "none", "at once" or "later"
    endless,   \* the processes that never end by themselves
    todo,      \* what each process has still to write to each stream
    state,     \* "absent", "running", "exited", "failed" or "killed"
    group,     \* the processes that belong to the group
    holds,     \* the output streams each process has open
    input,     \* chunks of stdin the writer thread has still to write
    stdin,     \* chunks in the pipe to the command
    writer,    \* the writer thread: "none", "writing" or "done"
    pipe,      \* chunks in the pipe of each stream
    written,   \* everything ever written to it
    buf,       \* everything its reader thread has read
    reader,    \* each reader thread: "reading" or "done"
    pc,        \* the calling thread
    timedOut,
    code       \* of ProcessOutput

process == <<endless, todo, state, group, holds>>
feeding == <<input, stdin, writer>>
output == <<pipe, written, buf, reader>>
caller == <<pc, timedOut, code>>
commandVars == <<limit, process, feeding, output, caller>>

Running == {p \in Processes : state[p] = "running"}
Writers(s) == {p \in Running : s \in holds[p]}
Nothing == [s \in Streams |-> 0]

\* These processes end, and their streams are closed.
End(S, how) ==
    /\ state' = [p \in Processes |-> IF p \in S THEN how ELSE state[p]]
    /\ group' = group \ S
    /\ holds' = [p \in Processes |-> IF p \in S THEN {} ELSE holds[p]]
    /\ todo' = [p \in Processes |-> IF p \in S THEN Nothing ELSE todo[p]]

\* What a process that starts is going to do.
Starts(p) ==
    /\ state' = [state EXCEPT ![p] = "running"]
    /\ \E n \in [Streams -> 0 .. MaxChunks] : todo' = [todo EXCEPT ![p] = n]
    /\ endless' \in {endless, endless \cup {p}}
ShellEnded == state[Shell] \notin {"absent", "running"}

\* timeout_of, by what the span has recorded: a number, a text, or neither.  Zero is
\* no limit as a number, and one that has passed at once as a text.
Timeouts == {"absent", "0", "100", "text 0", "text 100", "other text"}
LimitOf(timeout) ==
    CASE timeout = "text 0"              -> "at once"
      [] timeout \in {"100", "text 100"} -> "later"
      [] OTHER                           -> "none"
Limited == limit # "none"

CommandInit ==
    /\ limit \in {LimitOf(t) : t \in Timeouts}
    /\ endless = {}
    /\ todo = [p \in Processes |-> Nothing]
    /\ state = [p \in Processes |-> "absent"]
    /\ group = {}
    /\ holds = [p \in Processes |-> {}]
    /\ input \in {0, MaxInput}
    /\ stdin = 0
    /\ writer = "none"
    /\ pipe = Nothing
    /\ written = Nothing
    /\ buf = Nothing
    /\ reader = [s \in Streams |-> "none"]
    /\ pc = "spawn"
    /\ timedOut = FALSE
    /\ code = 0

----------------------------------------------------------------------------
(* The processes                                                           *)

\* A process writes when there is room, and waits for it otherwise.
Write(p, s) ==
    /\ p \in Writers(s)
    /\ todo[p][s] > 0
    /\ pipe[s] < Capacity
    /\ todo' = [todo EXCEPT ![p][s] = @ - 1]
    /\ pipe' = [pipe EXCEPT ![s] = @ + 1]
    /\ written' = [written EXCEPT ![s] = @ + 1]
    /\ UNCHANGED <<limit, endless, state, group, holds, feeding, buf, reader, caller>>

\* The shell reads its input; background processes have none.
ReadInput ==
    /\ Shell \in Running
    /\ stdin > 0
    /\ stdin' = stdin - 1
    /\ UNCHANGED <<limit, process, input, writer, output, caller>>

\* A process starts another, which inherits its group and its streams.
ForkProcess(p, q) ==
    /\ p \in Running
    /\ state[q] = "absent"
    /\ Starts(q)
    /\ group' = IF p \in group THEN group \cup {q} ELSE group
    /\ holds' = [holds EXCEPT ![q] = holds[p]]
    /\ UNCHANGED <<limit, feeding, output, caller>>

\* setsid: only what is not the leader of the group can leave it.
Detach(p) ==
    /\ p \in Running \cap group
    /\ p # Shell
    /\ group' = group \ {p}
    /\ UNCHANGED <<limit, endless, todo, state, holds, feeding, output, caller>>

\* >/dev/null 2>&1
Redirect(p) ==
    /\ p \in Running \ {Shell}
    /\ holds[p] # {}
    /\ holds' = [holds EXCEPT ![p] = {}]
    /\ todo' = [todo EXCEPT ![p] = Nothing]
    /\ UNCHANGED <<limit, endless, state, group, feeding, output, caller>>

\* A process that has written all it has to write to what it has open, and, for
\* the shell, has read its input to the end, ends with success or without.
Exit(p) ==
    /\ p \in Running \ endless
    /\ \A s \in holds[p] : todo[p][s] = 0
    /\ p = Shell => writer # "writing" /\ stdin = 0
    /\ \E how \in {"exited", "failed"} : End({p}, how)
    /\ UNCHANGED <<limit, endless, feeding, output, caller>>

\* The shell may end before it has read its input.
Abandon ==
    /\ Shell \in Running \ endless
    /\ \A s \in holds[Shell] : todo[Shell][s] = 0
    /\ End({Shell}, "exited")
    /\ UNCHANGED <<limit, endless, feeding, output, caller>>

----------------------------------------------------------------------------
(* The threads of the executor                                             *)

\* spawn fails (no such directory, no process left): run_shell returns the error.
SpawnFails ==
    /\ pc = "spawn"
    /\ pc' = "error"
    /\ UNCHANGED <<limit, process, feeding, output, timedOut, code>>

Spawn ==
    /\ pc = "spawn"
    /\ pc' = "poll"
    /\ Starts(Shell)
    /\ group' = {Shell}
    /\ holds' = [holds EXCEPT ![Shell] = Streams]
    /\ writer' = IF input > 0 THEN "writing" ELSE "none"
    /\ reader' = [s \in Streams |-> "reading"]
    /\ UNCHANGED <<limit, input, stdin, pipe, written, buf, timedOut, code>>

\* write_all, then the pipe is dropped; it fails when nobody can read any more.
Feed ==
    /\ writer = "writing"
    /\ \/ /\ ~ShellEnded
          /\ input > 0
          /\ stdin < Capacity
          /\ input' = input - 1
          /\ stdin' = stdin + 1
          /\ UNCHANGED writer
       \/ /\ input = 0 \/ ShellEnded
          /\ writer' = "done"
          /\ UNCHANGED <<input, stdin>>
    /\ UNCHANGED <<limit, process, output, caller>>

\* Faulty variant: the reader stops once the shell has ended.
ReadToShellEnd(s) ==
    /\ reader[s] = "reading"
    /\ \/ /\ pipe[s] > 0
          /\ pipe' = [pipe EXCEPT ![s] = @ - 1]
          /\ buf' = [buf EXCEPT ![s] = @ + 1]
          /\ UNCHANGED reader
       \/ /\ ShellEnded
          /\ pipe[s] = 0
          /\ reader' = [reader EXCEPT ![s] = "done"]
          /\ UNCHANGED <<pipe, buf>>
    /\ UNCHANGED <<limit, process, feeding, written, caller>>

\* Faulty variant: one thread reads stdout to its end and then stderr.
ReadInTurn(s) ==
    /\ reader[s] = "reading"
    /\ s = "stderr" => reader["stdout"] = "done"
    /\ \/ /\ pipe[s] > 0
          /\ pipe' = [pipe EXCEPT ![s] = @ - 1]
          /\ buf' = [buf EXCEPT ![s] = @ + 1]
          /\ UNCHANGED reader
       \/ /\ pipe[s] = 0
          /\ Writers(s) = {}
          /\ reader' = [reader EXCEPT ![s] = "done"]
          /\ UNCHANGED <<pipe, buf>>
    /\ UNCHANGED <<limit, process, feeding, written, caller>>

\* read_to_end: until the pipe is empty and no process has its other end.
ReadToEnd(s) ==
    /\ reader[s] = "reading"
    /\ \/ /\ pipe[s] > 0
          /\ pipe' = [pipe EXCEPT ![s] = @ - 1]
          /\ buf' = [buf EXCEPT ![s] = @ + 1]
          /\ UNCHANGED reader
       \/ /\ pipe[s] = 0
          /\ Writers(s) = {}
          /\ reader' = [reader EXCEPT ![s] = "done"]
          /\ UNCHANGED <<pipe, buf>>
    /\ UNCHANGED <<limit, process, feeding, written, caller>>

\* try_wait: the shell has ended, and its code is the command's.
PollEnded ==
    /\ pc = "poll"
    /\ ShellEnded
    /\ code' = IF state[Shell] = "exited" THEN 0 ELSE 1
    /\ pc' = "join"
    /\ UNCHANGED <<limit, process, feeding, output, timedOut>>

\* try_wait: it runs.
PollRunning ==
    /\ pc = "poll"
    /\ ~ShellEnded
    /\ pc' = "clock"
    /\ UNCHANGED <<limit, process, feeding, output, timedOut, code>>

\* The limit has not passed, or there is none.
Sleep ==
    /\ pc = "clock"
    /\ limit # "at once"
    /\ pc' = "poll"
    /\ UNCHANGED <<limit, process, feeding, output, timedOut, code>>

\* Faulty variant: only the shell is killed.
KillShell ==
    /\ pc = "clock"
    /\ Limited
    /\ End(Running \cap {Shell}, "killed")
    /\ timedOut' = TRUE
    /\ code' = 124
    /\ pc' = "join"
    /\ UNCHANGED <<limit, endless, feeding, output>>

\* The limit has passed: the group is killed and the shell waited for, even if it
\* has ended by itself since it was polled.
KillGroup ==
    /\ pc = "clock"
    /\ Limited
    /\ End(Running \cap group, "killed")
    /\ timedOut' = TRUE
    /\ code' = 124
    /\ pc' = "join"
    /\ UNCHANGED <<limit, endless, feeding, output>>

\* All three threads have been joined.
Return ==
    /\ pc = "join"
    /\ writer # "writing"
    /\ \A s \in Streams : reader[s] = "done"
    /\ pc' = "returned"
    /\ UNCHANGED <<limit, process, feeding, output, timedOut, code>>

----------------------------------------------------------------------------

ProcessNext(p) ==
    \/ \E s \in Streams : Write(p, s)
    \/ p = Shell /\ ReadInput
    \/ Exit(p)

ProcessChoices ==
    \/ \E p, q \in Processes : ForkProcess(p, q)
    \/ \E p \in Processes : Detach(p) \/ Redirect(p)
    \/ Abandon

Poll == PollEnded \/ PollRunning \/ Sleep \/ KillGroup

CommandNext ==
    \/ \E p \in Processes : ProcessNext(p)
    \/ ProcessChoices
    \/ SpawnFails \/ Spawn \/ Feed
    \/ \E s \in Streams : ReadToEnd(s)
    \/ Poll
    \/ Return

\* Threads and processes are scheduled, and time passes: a caller that polls
\* finds the limit passed in the end.
Fairness ==
    /\ \A p \in Processes : WF_commandVars(ProcessNext(p))
    /\ WF_commandVars(Spawn \/ SpawnFails)
    /\ WF_commandVars(Feed)
    /\ \A s \in Streams : WF_commandVars(ReadToEnd(s))
    /\ WF_commandVars(Poll)
    /\ SF_commandVars(KillGroup)
    /\ WF_commandVars(Return)

CommandSpec == CommandInit /\ [][CommandNext]_commandVars /\ Fairness

----------------------------------------------------------------------------
(* Properties                                                              *)

Returned == pc = "returned"

\* What run_shell returns, and the fingerprint that decides whether dependents
\* are reused is made of, is all that was ever written to the two streams, also
\* by background processes and by those killed: nobody can add to it.
OutputWhole ==
    Returned => \A s \in Streams : buf[s] = written[s] /\ Writers(s) = {}

\* When a command is reported as timed out, nothing of its group still runs in
\* the sandbox that the next span continues in.
LimitStopsGroup ==
    Returned /\ timedOut => Running \cap group = {}

\* A process that neither ends by itself nor is stopped by the limit: there is
\* none, the shell ended before it passed, or the process left the group.
Lingers ==
    \E p \in Running \cap endless :
        /\ holds[p] # {}
        /\ ~Limited \/ p \notin group \/ ShellEnded

\* run_shell returns: however much the command writes to both streams, and
\* whether or not it reads its input, no thread and no process waits on another
\* for ever; a limit ends it if the command does not.  Only a process that
\* lingers for good with a stream open can prevent it.
Returns == []<>~Lingers => (pc = "poll" ~> Returned)

\* The comment on the process group says that a timeout can stop everything the
\* command started.  It does not: once the shell has ended, nobody looks at the
\* clock, and the readers wait for a background process that has a stream open.
LimitReturns == (pc = "poll" /\ Limited) ~> Returned
=============================================================================
