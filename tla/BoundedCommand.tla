--------------------------- MODULE BoundedCommand ---------------------------
(***************************************************************************)
(* output_with_timeout (runtime-atlas-core/src/command.rs) runs git, ps,   *)
(* lsof or docker and returns what it wrote.  The command may start others *)
(* that outlive it and hold its pipes, or fill a pipe nobody reads; on     *)
(* macOS they may leave its process group.  The call must return by its    *)
(* deadline all the same, with the whole output or with an error and then  *)
(* with nothing of the command left.                                       *)
(*                                                                         *)
(* On macOS the loop reads both pipes without blocking and kills the group *)
(* of the command; on Windows two threads read and a job object, in which  *)
(* the command starts suspended, is killed.  Output is counted in chunks   *)
(* of one read; what is written beyond MaxOutput is no longer counted.     *)
(***************************************************************************)
EXTENDS Naturals, FiniteSets, Sequences

CONSTANTS
    Child,        \* the process the call spawns
    Descendants,  \* the processes started by it or by each other
    Capacity,     \* how much a pipe holds
    Burst,        \* how many reads there are in a row, 16 in the code
    Deadline,     \* the deadline on the clock
    MaxOutput     \* bound: up to where output is counted

ASSUME BoundedCommandAssumption ==
    /\ Child \notin Descendants
    /\ {Capacity, Burst, Deadline, MaxOutput} \subseteq Nat \ {0}

VARIABLES
    platform,  \* "macos" or "windows"
    tree,      \* the processes: their phase, group and open pipe ends
    pipes,     \* what is in a pipe, was written to it and was read from it
    call,      \* output_with_timeout: its step and its variables
    clock

vars == <<platform, tree, pipes, call, clock>>

Processes == {Child} \cup Descendants
Pipes == {"stdout", "stderr"}
PipeOrder == <<"stdout", "stderr">>

Active == {p \in Processes : tree[p].phase \in {"suspended", "running"}}
Group == {p \in Active : tree[p].grouped}
Holders(pipe) == {p \in Processes : pipe \in tree[p].holds}
Counted(n) == IF n < MaxOutput THEN n + 1 ELSE n

Init ==
    /\ platform \in {"macos", "windows"}
    /\ tree = [p \in Processes |-> [phase |-> "none", grouped |-> FALSE, holds |-> {}]]
    /\ pipes = [pipe \in Pipes |-> [held |-> 0, written |-> 0, read |-> 0, reader |-> "none"]]
    /\ call = [step |-> "spawn", at |-> 1, reads |-> 0, status |-> FALSE,
               finished |-> {}, answer |-> "none"]
    /\ clock = 0

-----------------------------------------------------------------------------
(* The command and what it starts. *)

Fork(p, d) ==
    /\ tree[p].phase = "running" /\ tree[d].phase = "none"
    /\ \E holds \in SUBSET tree[p].holds :
           tree' = [tree EXCEPT ![d] = [phase |-> "running", grouped |-> tree[p].grouped,
                                        holds |-> holds]]
    /\ UNCHANGED <<platform, pipes, call, clock>>

\* setsid, which the leader of a group cannot call; nobody leaves a job.
Escape(d) ==
    /\ platform = "macos" /\ d \in Group
    /\ tree' = [tree EXCEPT ![d].grouped = FALSE]
    /\ UNCHANGED <<platform, pipes, call, clock>>

\* A full pipe blocks its writer.
Write(p, pipe) ==
    /\ tree[p].phase = "running" /\ p \in Holders(pipe)
    /\ pipes[pipe].held < Capacity
    /\ pipes' = [pipes EXCEPT ![pipe].held = @ + 1, ![pipe].written = Counted(@)]
    /\ UNCHANGED <<platform, tree, call, clock>>

Close(p, pipe) ==
    /\ tree[p].phase = "running" /\ p \in Holders(pipe)
    /\ tree' = [tree EXCEPT ![p].holds = @ \ {pipe}]
    /\ UNCHANGED <<platform, pipes, call, clock>>

End(p, phase) ==
    /\ tree[p].phase = phase
    /\ tree' = [tree EXCEPT ![p].phase = "exited", ![p].holds = {}]
    /\ UNCHANGED <<platform, pipes, call, clock>>

Exit(p) == End(p, "running")
Die(p) == End(p, "killed")

Tick ==
    /\ clock < Deadline /\ clock' = clock + 1
    /\ UNCHANGED <<platform, tree, pipes, call>>

CommandNext ==
    \/ \E p \in Processes, d \in Descendants : Fork(p, d)
    \/ \E d \in Descendants : Escape(d)
    \/ \E p \in Processes, pipe \in Pipes : Write(p, pipe) \/ Close(p, pipe)
    \/ \E p \in Processes : Exit(p) \/ Die(p)

-----------------------------------------------------------------------------
(* The call. *)

Goto(step) == call' = [call EXCEPT !.step = step, !.at = 1, !.reads = 0]

Killed(targets) ==
    [p \in Processes |-> IF p \in targets \cap Active THEN [tree[p] EXCEPT !.phase = "killed"]
                         ELSE tree[p]]

\* Mutant: only the command itself is killed.
ChildAlone == {Child}

\* The process group, or the child when nothing of the group is left; the job.
Tree == IF platform = "macos" /\ Group = {} THEN {Child} ELSE Group

\* ProcessTree::terminate kills, and waits for the child.
Terminate(targets, answer) ==
    /\ tree' = Killed(targets)
    /\ call' = [call EXCEPT !.step = "reap", !.answer = answer]
    /\ UNCHANGED <<platform, pipes, clock>>

\* The job is closed with the call, and what is left in it is killed.
Return(answer) ==
    /\ call' = [call EXCEPT !.step = "done", !.answer = answer]
    /\ tree' = IF platform = "windows" THEN Killed(Group) ELSE tree
    /\ UNCHANGED <<platform, pipes, clock>>

Spawn ==
    /\ call.step = "spawn"
    /\ tree' = [tree EXCEPT ![Child] =
                   [phase |-> IF platform = "windows" THEN "suspended" ELSE "running",
                    grouped |-> platform = "macos", holds |-> Pipes]]
    /\ Goto("attach")
    /\ UNCHANGED <<platform, pipes, clock>>

\* The suspended child is put into the job and resumed.
Attach ==
    /\ call.step = "attach"
    /\ tree' = [tree EXCEPT ![Child].phase = IF @ = "suspended" THEN "running" ELSE @,
                            ![Child].grouped = TRUE]
    /\ Goto("drain")
    /\ UNCHANGED <<platform, pipes, clock>>

\* drain: the pipe is made non-blocking, or gets a thread that reads it.
StartDrain ==
    /\ call.step = "drain"
    /\ IF call.at = 2 THEN Goto("wait") ELSE call' = [call EXCEPT !.at = 2]
    /\ pipes' = [pipes EXCEPT ![PipeOrder[call.at]].reader =
                     IF platform = "windows" THEN "reading" ELSE @]
    /\ UNCHANGED <<platform, tree, clock>>

TryWait ==
    /\ call.step = "wait"
    /\ call' = [call EXCEPT !.step = "poll", !.status = tree[Child].phase = "exited"]
    /\ UNCHANGED <<platform, tree, pipes, clock>>

\* A step of the operating system fails: a child that cannot be attached is
\* killed alone, later the whole tree is.
CallFails ==
    \/ call.step = "spawn" /\ Return("error")
    \/ call.step = "attach" /\ platform = "windows" /\ Terminate({Child}, "error")
    \/ call.step = "drain" /\ platform = "macos" /\ Terminate(Tree, "error")
    \/ call.step = "wait" /\ ~call.status /\ Terminate(Tree, "error")
    \/ /\ call.step = "poll" /\ PipeOrder[call.at] \notin call.finished
       /\ Terminate(Tree, "error")

NextPipe(finished) ==
    call' = [call EXCEPT !.finished = finished, !.reads = 0, !.at = 3 - @,
                         !.step = IF call.at = 2 THEN "check" ELSE "poll"]

Take(pipe) == pipes' = [pipes EXCEPT ![pipe].held = @ - 1, ![pipe].read = Counted(@)]

\* Mutant: a read of an empty pipe waits for its writers.
ReadBlocking(pipe) ==
    \/ /\ pipes[pipe].held > 0
       /\ Take(pipe)
       /\ IF call.reads + 1 = Burst THEN NextPipe(call.finished)
          ELSE call' = [call EXCEPT !.reads = @ + 1]
    \/ /\ pipes[pipe].held = 0 /\ Holders(pipe) = {}
       /\ NextPipe(call.finished \cup {pipe}) /\ UNCHANGED pipes

\* One read of poll_drain on macOS: a chunk, the end, or nothing for now.
ReadPipe(pipe) ==
    \/ /\ pipes[pipe].held > 0
       /\ Take(pipe)
       /\ IF call.reads + 1 = Burst THEN NextPipe(call.finished)
          ELSE call' = [call EXCEPT !.reads = @ + 1]
    \/ /\ pipes[pipe].held = 0 /\ UNCHANGED pipes
       /\ NextPipe(IF Holders(pipe) = {} THEN call.finished \cup {pipe} ELSE call.finished)

\* One look of poll_drain on Windows at what the thread has sent.
ReceiveOutput(pipe) ==
    /\ NextPipe(IF pipes[pipe].reader = "sent" THEN call.finished \cup {pipe}
                ELSE call.finished)
    /\ UNCHANGED pipes

PollDrain ==
    LET pipe == PipeOrder[call.at]
    IN  /\ call.step = "poll"
        /\ IF pipe \in call.finished THEN NextPipe(call.finished) /\ UNCHANGED pipes
           ELSE IF platform = "macos" THEN ReadPipe(pipe) ELSE ReceiveOutput(pipe)
        /\ UNCHANGED <<platform, tree, clock>>

\* The deadline comes before a command that has just ended.
CheckDeadline ==
    /\ call.step = "check"
    /\ IF clock >= Deadline THEN Terminate(Tree, "timeout")
       ELSE IF call.status /\ call.finished = Pipes THEN Return("output")
       ELSE Goto("wait") /\ UNCHANGED <<platform, tree, pipes, clock>>

Reap ==
    /\ call.step = "reap" /\ tree[Child].phase = "exited"
    /\ Return(call.answer)

\* The thread of a pipe on Windows: read_to_end, and the end is sent.
ReaderThread(pipe) ==
    /\ pipes[pipe].reader = "reading"
    /\ \/ pipes[pipe].held > 0 /\ Take(pipe)
       \/ /\ pipes[pipe].held = 0 /\ Holders(pipe) = {}
          /\ pipes' = [pipes EXCEPT ![pipe].reader = "sent"]
    /\ UNCHANGED <<platform, tree, call, clock>>

CallNext == Spawn \/ Attach \/ StartDrain \/ TryWait \/ PollDrain \/ CheckDeadline \/ Reap

Next == CallNext \/ CallFails \/ CommandNext \/ Tick \/ \E pipe \in Pipes : ReaderThread(pipe)

\* The thread of the call runs, time passes, and what is killed ends; nothing
\* need fail for it.
Fairness ==
    /\ WF_vars(CallNext) /\ WF_vars(Tick)
    /\ \A p \in Processes : WF_vars(Die(p))

Spec == Init /\ [][Next]_vars /\ Fairness

-----------------------------------------------------------------------------
(* Properties. *)

\* Output is returned only whole: the command has ended, no descendant can
\* write any more, and everything written was read.  An error or a timeout
\* leaves nothing of the command's group or job running, and either way the
\* command itself has been waited for.
AnswerHonest ==
    call.step = "done" =>
        /\ tree[Child].phase \in {"none", "exited"}
        /\ IF call.answer = "output"
           THEN /\ call.status
                /\ \A pipe \in Pipes : /\ Holders(pipe) = {} /\ pipes[pipe].held = 0
                                       /\ pipes[pipe].read = pipes[pipe].written
           ELSE Group = {}

\* The call returns, whatever the command, its descendants and their pipes do:
\* none of them ends by itself, an escaped one keeps a pipe open, one writes
\* for ever.
CallReturns == <>(call.step = "done")
=============================================================================
