------------------------ MODULE BoundedCommandProofs ------------------------
(***************************************************************************)
(* AnswerHonest of BoundedCommand, for every number of descendants, every  *)
(* pipe capacity, burst and deadline.                                      *)
(***************************************************************************)
EXTENDS BoundedCommand, TLAPS

-----------------------------------------------------------------------------
(* The inductive invariant.                                                *)

Phases == {"none", "suspended", "running", "killed", "exited"}
Process == [phase : Phases, grouped : BOOLEAN, holds : SUBSET Pipes]
Pipe == [held : Nat, written : Nat, read : Nat, reader : {"none", "reading", "sent"}]
Call == [step : {"spawn", "attach", "drain", "wait", "poll", "check", "reap", "done"},
         at : {1, 2}, reads : Nat, status : BOOLEAN, finished : SUBSET Pipes,
         answer : {"none", "output", "error", "timeout"}]

Types ==
    /\ platform \in {"macos", "windows"}
    /\ tree \in [Processes -> Process]
    /\ pipes \in [Pipes -> Pipe]
    /\ call \in Call

\* Nothing runs before the spawn, and nothing but the suspended child before
\* that is in its job.
TreeInv ==
    /\ call.step = "spawn" => \A p \in Processes : tree[p].phase = "none"
    /\ call.step = "attach" /\ platform = "windows" =>
          /\ ~tree[Child].grouped
          /\ \A p \in Processes : tree[p].phase = IF p = Child THEN "suspended" ELSE "none"

\* The counts agree up to where output is counted.
CountInv ==
    \A pipe \in Pipes :
        LET s == pipes[pipe]
        IN  /\ s.read <= s.written /\ s.written <= MaxOutput
            /\ IF s.written < MaxOutput THEN s.written = s.read + s.held
               ELSE MaxOutput <= s.read + s.held

\* A pipe that has ended is empty, and nobody can fill it any more.
Ended(pipe) == pipes[pipe].held = 0 /\ Holders(pipe) = {}

DrainInv ==
    /\ call.step = "spawn" =>
          call.finished = {} /\ \A pipe \in Pipes : pipes[pipe].reader = "none"
    /\ \A pipe \in Pipes :
          pipe \in call.finished \/ pipes[pipe].reader = "sent" => Ended(pipe)

\* What the call has concluded of its command.
CallInv ==
    /\ call.status => tree[Child].phase = "exited"
    /\ call.step = "reap" => call.answer \in {"error", "timeout"} /\ Group = {}
    /\ call.step = "done" =>
          /\ tree[Child].phase \in {"none", "exited"}
          /\ IF call.answer = "output" THEN call.status /\ call.finished = Pipes
             ELSE Group = {}

CommandInv == TreeInv /\ CountInv /\ DrainInv /\ CallInv

-----------------------------------------------------------------------------
(* What the steps do to the processes.                                     *)

LEMMA ProcessFields ==
  /\ \A r \in Process : \A phase \in Phases :
        /\ [r EXCEPT !.phase = phase] \in Process
        /\ [r EXCEPT !.phase = phase].phase = phase
        /\ [r EXCEPT !.phase = phase].grouped = r.grouped
        /\ [r EXCEPT !.phase = phase].holds = r.holds
  /\ \A r \in Process : \A group \in BOOLEAN :
        /\ [r EXCEPT !.grouped = group] \in Process
        /\ [r EXCEPT !.grouped = group].phase = r.phase
        /\ [r EXCEPT !.grouped = group].grouped = group
        /\ [r EXCEPT !.grouped = group].holds = r.holds
  /\ \A r \in Process : \A holds \in SUBSET Pipes :
        /\ [r EXCEPT !.holds = holds] \in Process
        /\ [r EXCEPT !.holds = holds].phase = r.phase
        /\ [r EXCEPT !.holds = holds].grouped = r.grouped
        /\ [r EXCEPT !.holds = holds].holds = holds
  BY DEF Process

\* A kill changes the phase of active targets and nothing else.
LEMMA KilledTree ==
  ASSUME Types, NEW targets, tree' = Killed(targets)
  PROVE  /\ tree' \in [Processes -> Process]
         /\ \A p \in Processes :
               /\ tree'[p].grouped = tree[p].grouped /\ tree'[p].holds = tree[p].holds
               /\ tree'[p].phase = IF p \in targets \cap Active THEN "killed" ELSE tree[p].phase
<1>1. "killed" \in Phases
  BY DEF Phases
<1>2. \A p \in Processes : tree[p] \in Process
  BY DEF Types
<1>3. QED
  BY <1>1, <1>2, ProcessFields DEF Killed

LEMMA KilledGroup ==
  ASSUME Types, NEW targets, tree' = Killed(targets), Group \subseteq targets
  PROVE  Group' = {}
  BY KilledTree DEF Group, Active

LEMMA KilledKeeps ==
  ASSUME Types, NEW targets, tree' = Killed(targets)
  PROVE  /\ tree[Child].phase \in {"none", "exited"} => tree'[Child].phase = tree[Child].phase
         /\ \A pipe \in Pipes : Holders(pipe)' = Holders(pipe)
         /\ Group = {} => Group' = {}
<1>1. Child \in Processes
  BY DEF Processes
<1>2. QED
  BY <1>1, KilledTree DEF Holders, Group, Active

\* What the command and its descendants can do to what the call relies on.
CommandFrame ==
    /\ tree' \in [Processes -> Process]
    /\ Group = {} => Group' = {}
    /\ \A pipe \in Pipes : Holders(pipe) = {} => Holders(pipe)' = {}
    /\ tree[Child].phase \in {"none", "exited"} => tree'[Child].phase = tree[Child].phase
    /\ \E p \in Processes : tree[p].phase \in {"running", "killed"} \/ p \in Group
    /\ UNCHANGED <<platform, call>>

LEMMA OneProcess ==
  ASSUME Types, NEW p \in Processes, NEW r \in Process,
         tree' = [tree EXCEPT ![p] = r], UNCHANGED <<platform, call>>,
         tree[p].phase \in {"running", "killed"} \/ p \in Group,
         r.phase \in {tree[p].phase, "exited"},
         r.holds \subseteq tree[p].holds,
         r.grouped => tree[p].grouped
  PROVE  CommandFrame
<1>1. tree' \in [Processes -> Process] /\ \A q \in Processes : tree'[q] = IF q = p THEN r ELSE tree[q]
  BY DEF Types
<1>2. Group = {} => Group' = {}
  BY <1>1 DEF Group, Active
<1>3. \A pipe \in Pipes : Holders(pipe) = {} => Holders(pipe)' = {}
  BY <1>1 DEF Holders
<1>4. tree[Child].phase \in {"none", "exited"} => tree'[Child].phase = tree[Child].phase
  BY <1>1 DEF Group, Active, Processes
<1>5. QED
  BY <1>1, <1>2, <1>3, <1>4 DEF CommandFrame

LEMMA CommandSteps ==
  ASSUME Types, CommandNext
  PROVE  CommandFrame /\ (UNCHANGED pipes \/ \E p \in Processes, pipe \in Pipes : Write(p, pipe))
<1>1. \A p \in Processes : tree[p] \in Process
  BY DEF Types
<1>2. ASSUME NEW p \in Processes, NEW d \in Descendants, Fork(p, d)
      PROVE  CommandFrame
  <2>1. PICK holds \in SUBSET tree[p].holds :
            tree' = [tree EXCEPT ![d] = [phase |-> "running", grouped |-> tree[p].grouped,
                                         holds |-> holds]]
    BY <1>2 DEF Fork
  <2> DEFINE New == [phase |-> "running", grouped |-> tree[p].grouped, holds |-> holds]
  <2>2. New \in Process
    BY <1>1 DEF Process, Phases
  <2>3. d \in Processes /\ d # Child
    BY BoundedCommandAssumption DEF Processes
  <2>4. New.phase = "running" /\ New.grouped = tree[p].grouped /\ New.holds \subseteq tree[p].holds
    OBVIOUS
  <2> HIDE DEF New
  <2>5. tree' \in [Processes -> Process] /\ \A q \in Processes : tree'[q] = IF q = d THEN New ELSE tree[q]
    BY <2>1, <2>2, <2>3 DEF Types, New
  <2>6. tree[p].phase = "running" /\ UNCHANGED <<platform, call>>
    BY <1>2 DEF Fork
  <2>7. Group = {} => Group' = {}
    BY <2>3, <2>4, <2>5, <2>6 DEF Group, Active
  <2>8. \A pipe \in Pipes : Holders(pipe) = {} => Holders(pipe)' = {}
    BY <2>3, <2>4, <2>5 DEF Holders
  <2>9. tree'[Child] = tree[Child]
    BY <2>3, <2>5 DEF Processes
  <2>10. QED
    BY <2>5, <2>6, <2>7, <2>8, <2>9 DEF CommandFrame
<1>3. ASSUME NEW d \in Descendants, Escape(d)
      PROVE  CommandFrame
  <2> DEFINE New == [tree[d] EXCEPT !.grouped = FALSE]
  <2>1. d \in Processes /\ d \in Group /\ UNCHANGED <<platform, call>>
    BY <1>3 DEF Escape, Processes
  <2>2. New \in Process /\ New.phase = tree[d].phase /\ New.holds = tree[d].holds /\ ~New.grouped
    BY <1>1, <2>1, ProcessFields
  <2>3. tree' = [tree EXCEPT ![d] = New]
    BY <1>3 DEF Escape
  <2> HIDE DEF New
  <2>4. QED
    BY <2>1, <2>2, <2>3, OneProcess
<1>4. ASSUME NEW p \in Processes, NEW pipe \in Pipes, Write(p, pipe)
      PROVE  CommandFrame
  BY <1>4 DEF Write, CommandFrame, Types, Group, Active, Holders
<1>5. ASSUME NEW p \in Processes, NEW pipe \in Pipes, Close(p, pipe)
      PROVE  CommandFrame
  <2> DEFINE New == [tree[p] EXCEPT !.holds = tree[p].holds \ {pipe}]
  <2>1. tree[p].holds \ {pipe} \in SUBSET Pipes
    BY <1>1 DEF Process
  <2>2. /\ New \in Process /\ New.phase = tree[p].phase
        /\ New.holds = tree[p].holds \ {pipe} /\ New.grouped = tree[p].grouped
    BY <1>1, <2>1, ProcessFields
  <2>3. tree' = [tree EXCEPT ![p] = New] /\ tree[p].phase = "running" /\ UNCHANGED <<platform, call>>
    BY <1>5 DEF Close
  <2> HIDE DEF New
  <2>4. QED
    BY <2>2, <2>3, OneProcess
<1>6. ASSUME NEW p \in Processes, NEW phase \in {"running", "killed"}, End(p, phase)
      PROVE  CommandFrame
  <2> DEFINE Exited == [tree[p] EXCEPT !.phase = "exited"]
             New == [Exited EXCEPT !.holds = {}]
  <2>1. "exited" \in Phases /\ {} \in SUBSET Pipes
    BY DEF Phases
  <2>2. Exited \in Process /\ Exited.phase = "exited" /\ Exited.grouped = tree[p].grouped
    BY <1>1, <2>1, ProcessFields
  <2>3. tree' = [tree EXCEPT ![p] = New]
    BY <1>1, <1>6 DEF End, Types
  <2>4. tree[p].phase = phase /\ UNCHANGED <<platform, call>>
    BY <1>6 DEF End
  <2> HIDE DEF Exited
  <2>5. New \in Process /\ New.phase = "exited" /\ New.holds = {} /\ New.grouped = tree[p].grouped
    BY <2>1, <2>2, ProcessFields
  <2> HIDE DEF New
  <2>6. QED
    BY <2>3, <2>4, <2>5, OneProcess
<1>7. QED
  BY <1>2, <1>3, <1>4, <1>5, <1>6
     DEF CommandNext, Fork, Escape, Close, Exit, Die, End

-----------------------------------------------------------------------------
(* What the steps do to the pipes.                                         *)

\* Only one pipe changes, by its counts or by its reader.
PipeStep(pipe, held, written, read, reader) ==
    /\ pipes' \in [Pipes -> Pipe]
    /\ \A other \in Pipes \ {pipe} : pipes'[other] = pipes[other]
    /\ pipes'[pipe].held = held /\ pipes'[pipe].written = written
    /\ pipes'[pipe].read = read /\ pipes'[pipe].reader = reader

LEMMA CountedNat == \A n \in Nat : Counted(n) \in Nat
  BY DEF Counted

LEMMA WriteStep ==
  ASSUME Types, NEW p \in Processes, NEW pipe \in Pipes, Write(p, pipe)
  PROVE  PipeStep(pipe, pipes[pipe].held + 1, Counted(pipes[pipe].written),
                  pipes[pipe].read, pipes[pipe].reader)
<1> DEFINE New == [pipes[pipe] EXCEPT !.held = pipes[pipe].held + 1,
                                     !.written = Counted(pipes[pipe].written)]
<1>1. pipes[pipe] \in Pipe
  BY DEF Types
<1>2. pipes' = [pipes EXCEPT ![pipe] = New]
  BY <1>1 DEF Write, Types
<1>3. pipes[pipe].held + 1 \in Nat /\ Counted(pipes[pipe].written) \in Nat
  BY <1>1, CountedNat DEF Pipe
<1>4. /\ New \in Pipe /\ New.held = pipes[pipe].held + 1
      /\ New.written = Counted(pipes[pipe].written)
      /\ New.read = pipes[pipe].read /\ New.reader = pipes[pipe].reader
  BY <1>1, <1>3 DEF Pipe
<1> HIDE DEF New
<1>5. QED
  BY <1>2, <1>4 DEF PipeStep, Types

LEMMA TakeStep ==
  ASSUME Types, NEW pipe \in Pipes, pipes[pipe].held > 0, Take(pipe)
  PROVE  PipeStep(pipe, pipes[pipe].held - 1, pipes[pipe].written,
                  Counted(pipes[pipe].read), pipes[pipe].reader)
<1> DEFINE New == [pipes[pipe] EXCEPT !.held = pipes[pipe].held - 1,
                                     !.read = Counted(pipes[pipe].read)]
<1>1. pipes[pipe] \in Pipe
  BY DEF Types
<1>2. pipes' = [pipes EXCEPT ![pipe] = New]
  BY <1>1 DEF Take, Types
<1>3. pipes[pipe].held - 1 \in Nat /\ Counted(pipes[pipe].read) \in Nat
  BY <1>1, CountedNat DEF Pipe
<1>4. /\ New \in Pipe /\ New.held = pipes[pipe].held - 1
      /\ New.read = Counted(pipes[pipe].read)
      /\ New.written = pipes[pipe].written /\ New.reader = pipes[pipe].reader
  BY <1>1, <1>3 DEF Pipe
<1> HIDE DEF New
<1>5. QED
  BY <1>2, <1>4 DEF PipeStep, Types

LEMMA ReaderStep ==
  ASSUME Types, NEW pipe \in Pipes, NEW reader \in {"none", "reading", "sent"},
         pipes' = [pipes EXCEPT ![pipe].reader = reader]
  PROVE  PipeStep(pipe, pipes[pipe].held, pipes[pipe].written, pipes[pipe].read, reader)
<1> DEFINE New == [pipes[pipe] EXCEPT !.reader = reader]
<1>1. pipes[pipe] \in Pipe
  BY DEF Types
<1>2. /\ New \in Pipe /\ New.held = pipes[pipe].held /\ New.written = pipes[pipe].written
      /\ New.read = pipes[pipe].read /\ New.reader = reader
  BY <1>1 DEF Pipe
<1>3. pipes' = [pipes EXCEPT ![pipe] = New]
  OBVIOUS
<1> HIDE DEF New
<1>4. QED
  BY <1>2, <1>3 DEF PipeStep, Types

\* The counts of one pipe.
CountOK(held, written, read) ==
    /\ read <= written /\ written <= MaxOutput
    /\ IF written < MaxOutput THEN written = read + held ELSE MaxOutput <= read + held

LEMMA CountArithmetic ==
  ASSUME NEW held \in Nat, NEW written \in Nat, NEW read \in Nat, CountOK(held, written, read)
  PROVE  /\ CountOK(held + 1, Counted(written), read)
         /\ held > 0 => CountOK(held - 1, written, Counted(read))
         /\ held = 0 => read = written
  BY BoundedCommandAssumption DEF CountOK, Counted

\* What every step does to the counts.
LEMMA CountStep ==
  ASSUME Types, CountInv, NEW pipe \in Pipes,
         NEW held, NEW written, NEW read, NEW reader,
         PipeStep(pipe, held, written, read, reader), CountOK(held, written, read)
  PROVE  CountInv'
  BY DEF PipeStep, CountInv, CountOK

LEMMA CountOfPipe ==
  ASSUME Types, CountInv, NEW pipe \in Pipes
  PROVE  /\ pipes[pipe].held \in Nat /\ pipes[pipe].written \in Nat /\ pipes[pipe].read \in Nat
         /\ CountOK(pipes[pipe].held, pipes[pipe].written, pipes[pipe].read)
  BY DEF Types, Pipe, CountInv, CountOK

LEMMA WriteCounts ==
  ASSUME Types, CountInv, NEW p \in Processes, NEW pipe \in Pipes, Write(p, pipe)
  PROVE  CountInv'
  BY WriteStep, CountStep, CountOfPipe, CountArithmetic

LEMMA TakeCounts ==
  ASSUME Types, CountInv, NEW pipe \in Pipes, pipes[pipe].held > 0, Take(pipe)
  PROVE  CountInv'
  BY TakeStep, CountStep, CountOfPipe, CountArithmetic

LEMMA ReaderCounts ==
  ASSUME Types, CountInv, NEW pipe \in Pipes, NEW reader \in {"none", "reading", "sent"},
         pipes' = [pipes EXCEPT ![pipe].reader = reader]
  PROVE  CountInv'
  BY ReaderStep, CountStep, CountOfPipe

-----------------------------------------------------------------------------
(* The invariant at each step.                                             *)

Invariant == Types /\ CommandInv

LEMMA InvInit == Init => Invariant
<1> SUFFICES ASSUME Init PROVE Invariant
  OBVIOUS
<1>1. Types
  BY DEF Init, Types, Process, Phases, Pipe, Call
<1>2. TreeInv /\ CallInv
  BY DEF Init, TreeInv, CallInv, Processes
<1>3. CountInv
  BY BoundedCommandAssumption DEF Init, CountInv
<1>4. DrainInv
  BY DEF Init, DrainInv
<1>5. QED
  BY <1>1, <1>2, <1>3, <1>4 DEF Invariant, CommandInv

\* Nothing of the command has started before the spawn, or before Windows has
\* put the child into its job.
LEMMA CommandStarted ==
  ASSUME TreeInv, CommandFrame
  PROVE  call.step # "spawn" /\ ~(call.step = "attach" /\ platform = "windows")
  BY DEF TreeInv, CommandFrame, Group, Active

LEMMA InvCommand ==
  ASSUME Invariant, CommandNext
  PROVE  Invariant'
<1>1. Types /\ TreeInv /\ CountInv /\ DrainInv /\ CallInv
  BY DEF Invariant, CommandInv
<1>2. CommandFrame /\ (UNCHANGED pipes \/ \E p \in Processes, pipe \in Pipes : Write(p, pipe))
  BY <1>1, CommandSteps
<1>3. TreeInv'
  BY <1>1, <1>2, CommandStarted DEF TreeInv, CommandFrame
<1>4. CallInv'
  BY <1>1, <1>2 DEF CallInv, CommandFrame
<1>5. CASE UNCHANGED pipes
  <2>1. Types' /\ CountInv'
    BY <1>1, <1>2, <1>5 DEF Types, CountInv, CommandFrame
  <2>2. DrainInv'
    BY <1>1, <1>2, <1>5 DEF DrainInv, CommandFrame, Ended
  <2>3. QED
    BY <1>3, <1>4, <2>1, <2>2 DEF Invariant, CommandInv
<1>6. ASSUME NEW p \in Processes, NEW pipe \in Pipes, Write(p, pipe)
      PROVE  Invariant'
  <2>1. PipeStep(pipe, pipes[pipe].held + 1, Counted(pipes[pipe].written),
                 pipes[pipe].read, pipes[pipe].reader)
    BY <1>1, <1>6, WriteStep
  <2>2. Types' /\ CountInv'
    BY <1>1, <1>2, <1>6, <2>1, WriteCounts DEF Types, CommandFrame, PipeStep
  <2>3. ~Ended(pipe)
    BY <1>6 DEF Write, Ended
  <2>4. DrainInv'
    BY <1>1, <1>2, <2>1, <2>3 DEF DrainInv, CommandFrame, PipeStep, Ended
  <2>5. QED
    BY <1>3, <1>4, <2>2, <2>4 DEF Invariant, CommandInv
<1>7. QED
  BY <1>2, <1>5, <1>6

\* The call returns, with what Return needs.
LEMMA InvReturn ==
  ASSUME Invariant, NEW answer \in {"output", "error", "timeout"}, Return(answer),
         tree[Child].phase \in {"none", "exited"},
         IF answer = "output" THEN call.status /\ call.finished = Pipes ELSE Group = {}
  PROVE  Invariant'
<1>1. Types /\ TreeInv /\ CountInv /\ DrainInv /\ CallInv
  BY DEF Invariant, CommandInv
<1>2. /\ call' \in Call /\ call'.step = "done" /\ call'.answer = answer
      /\ call'.status = call.status /\ call'.finished = call.finished
  BY <1>1 DEF Return, Types, Call
<1>3. /\ tree' \in [Processes -> Process] /\ tree'[Child].phase = tree[Child].phase
      /\ \A pipe \in Pipes : Holders(pipe)' = Holders(pipe)
      /\ Group = {} => Group' = {}
  BY <1>1, KilledTree, KilledKeeps DEF Return, Types, Holders, Group, Active
<1>4. Types' /\ CountInv'
  BY <1>1, <1>2, <1>3 DEF Return, Types, CountInv
<1>5. TreeInv' /\ CallInv'
  BY <1>1, <1>2, <1>3 DEF TreeInv, CallInv
<1>6. DrainInv'
  BY <1>1, <1>2, <1>3 DEF Return, DrainInv, Ended
<1>7. QED
  BY <1>4, <1>5, <1>6 DEF Invariant, CommandInv

\* The call kills, and waits for the child.
LEMMA InvTerminate ==
  ASSUME Invariant, call.step # "done", NEW targets, NEW answer \in {"error", "timeout"},
         Terminate(targets, answer), Group \subseteq targets
  PROVE  Invariant'
<1>1. Types /\ TreeInv /\ CountInv /\ DrainInv /\ CallInv
  BY DEF Invariant, CommandInv
<1>2. /\ call' \in Call /\ call'.step = "reap" /\ call'.answer = answer
      /\ call'.status = call.status /\ call'.finished = call.finished
  BY <1>1 DEF Terminate, Types, Call
<1>3. /\ tree' \in [Processes -> Process] /\ Group' = {}
      /\ tree[Child].phase \in {"none", "exited"} => tree'[Child].phase = tree[Child].phase
      /\ \A pipe \in Pipes : Holders(pipe)' = Holders(pipe)
  BY <1>1, KilledTree, KilledGroup, KilledKeeps DEF Terminate
<1>4. Types' /\ CountInv'
  BY <1>1, <1>2, <1>3 DEF Terminate, Types, CountInv
<1>5. TreeInv' /\ CallInv'
  BY <1>1, <1>2, <1>3 DEF TreeInv, CallInv
<1>6. DrainInv'
  BY <1>1, <1>2, <1>3 DEF Terminate, DrainInv, Ended
<1>7. QED
  BY <1>4, <1>5, <1>6 DEF Invariant, CommandInv

\* A step of the call that leaves the processes alone and keeps its status.
LEMMA InvCall ==
  ASSUME Invariant, UNCHANGED <<platform, tree>>, call' \in Call,
         call.step \notin {"spawn", "done", "reap"},
         call'.step \in {"drain", "wait", "poll", "check"},
         call'.status => tree[Child].phase = "exited",
         pipes' \in [Pipes -> Pipe], CountInv', DrainInv'
  PROVE  Invariant'
  BY DEF Invariant, CommandInv, Types, TreeInv, CallInv

LEMMA InvSpawn ==
  ASSUME Invariant, Spawn
  PROVE  Invariant'
<1>1. Types /\ TreeInv /\ CountInv /\ DrainInv /\ CallInv
  BY DEF Invariant, CommandInv
<1> DEFINE New == [phase |-> IF platform = "windows" THEN "suspended" ELSE "running",
                   grouped |-> platform = "macos", holds |-> Pipes]
<1>2. New \in Process
  BY DEF Process, Phases
<1>3. Child \in Processes
  BY DEF Processes
<1>4. tree' \in [Processes -> Process] /\ \A p \in Processes : tree'[p] = IF p = Child THEN New ELSE tree[p]
  BY <1>1, <1>2, <1>3 DEF Spawn, Types
<1>5. /\ call' \in Call /\ call'.step = "attach"
      /\ call'.status = call.status /\ call'.finished = call.finished
  BY <1>1 DEF Spawn, Goto, Types, Call
<1>6. Types' /\ CountInv'
  BY <1>1, <1>4, <1>5 DEF Spawn, Types, CountInv
<1>7. TreeInv'
  BY <1>1, <1>3, <1>4, <1>5 DEF Spawn, TreeInv
<1>8. DrainInv'
  BY <1>1, <1>5 DEF Spawn, DrainInv
<1>9. CallInv'
  BY <1>1, <1>3, <1>5 DEF Spawn, TreeInv, CallInv
<1>10. QED
  BY <1>6, <1>7, <1>8, <1>9 DEF Invariant, CommandInv

LEMMA InvAttach ==
  ASSUME Invariant, Attach
  PROVE  Invariant'
<1>1. Types /\ TreeInv /\ CountInv /\ DrainInv /\ CallInv
  BY DEF Invariant, CommandInv
<1>2. Child \in Processes /\ tree[Child] \in Process
  BY <1>1 DEF Processes, Types
<1> DEFINE Phase == IF tree[Child].phase = "suspended" THEN "running" ELSE tree[Child].phase
           Resumed == [tree[Child] EXCEPT !.phase = Phase]
           New == [Resumed EXCEPT !.grouped = TRUE]
<1>3. Phase \in Phases
  BY <1>2 DEF Process, Phases
<1>4. Resumed \in Process /\ Resumed.phase = Phase /\ Resumed.holds = tree[Child].holds
  BY <1>2, <1>3, ProcessFields
<1>5. tree' = [tree EXCEPT ![Child] = New]
  BY <1>1, <1>2 DEF Attach, Types
<1> HIDE DEF Resumed
<1>6. New \in Process /\ New.phase = Phase /\ New.holds = tree[Child].holds
  BY <1>4, ProcessFields
<1> HIDE DEF New
<1>7. tree' \in [Processes -> Process] /\ \A p \in Processes : tree'[p] = IF p = Child THEN New ELSE tree[p]
  BY <1>1, <1>2, <1>5, <1>6 DEF Types
<1>8. /\ call' \in Call /\ call'.step = "drain"
      /\ call'.status = call.status /\ call'.finished = call.finished
  BY <1>1 DEF Attach, Goto, Types, Call
<1>9. Types' /\ CountInv'
  BY <1>1, <1>7, <1>8 DEF Attach, Types, CountInv
<1>10. TreeInv' /\ CallInv'
  BY <1>1, <1>2, <1>6, <1>7, <1>8 DEF TreeInv, CallInv
<1>11. DrainInv'
  BY <1>1, <1>6, <1>7, <1>8 DEF Attach, DrainInv, Ended, Holders
<1>12. QED
  BY <1>9, <1>10, <1>11 DEF Invariant, CommandInv

LEMMA InvStartDrain ==
  ASSUME Invariant, StartDrain
  PROVE  Invariant'
<1>1. Types /\ TreeInv /\ CountInv /\ DrainInv /\ CallInv
  BY DEF Invariant, CommandInv
<1>2. /\ call' \in Call /\ call'.step \in {"drain", "wait"}
      /\ call'.status = call.status /\ call'.finished = call.finished
  <2>1. CASE call.at = 2
    <3>1. Goto("wait")
      BY <2>1 DEF StartDrain
    <3>2. QED
      BY <1>1, <3>1 DEF Goto, Types, Call
  <2>2. CASE call.at # 2
    BY <1>1, <2>2 DEF StartDrain, Types, Call
  <2>3. QED
    BY <2>1, <2>2
<1> DEFINE pipe == PipeOrder[call.at]
           Reader == IF platform = "windows" THEN "reading" ELSE pipes[pipe].reader
<1>3. pipe \in Pipes
  BY <1>1 DEF Types, Call, PipeOrder, Pipes
<1>4. pipes' = [pipes EXCEPT ![pipe].reader = Reader]
  BY DEF StartDrain
<1>5. Reader \in {"none", "reading", "sent"}
  BY <1>1, <1>3 DEF Types, Pipe
<1> HIDE DEF pipe, Reader
<1>6. CountInv' /\ PipeStep(pipe, pipes[pipe].held, pipes[pipe].written, pipes[pipe].read, Reader)
  BY <1>1, <1>3, <1>4, <1>5, ReaderCounts, ReaderStep
<1>7. Reader = "sent" => pipes[pipe].reader = "sent"
  BY DEF Reader
<1>8. DrainInv'
  BY <1>1, <1>2, <1>3, <1>6, <1>7 DEF StartDrain, DrainInv, PipeStep, Ended, Holders
<1>9. QED
  BY <1>1, <1>2, <1>6, <1>8, InvCall DEF StartDrain, CallInv, PipeStep

LEMMA InvTryWait ==
  ASSUME Invariant, TryWait
  PROVE  Invariant'
<1>1. Types /\ TreeInv /\ CountInv /\ DrainInv /\ CallInv
  BY DEF Invariant, CommandInv
<1>2. /\ call' \in Call /\ call'.step = "poll" /\ call'.finished = call.finished
      /\ call'.status = (tree[Child].phase = "exited")
  BY <1>1 DEF TryWait, Types, Call
<1>3. CountInv' /\ DrainInv'
  BY <1>1, <1>2 DEF TryWait, CountInv, DrainInv, Ended, Holders
<1>4. QED
  BY <1>1, <1>2, <1>3, InvCall DEF TryWait, Types

\* One look at one pipe: a pipe is finished only when it has ended.
LEMMA InvPollDrain ==
  ASSUME Invariant, PollDrain
  PROVE  Invariant'
<1>1. Types /\ TreeInv /\ CountInv /\ DrainInv /\ CallInv
  BY DEF Invariant, CommandInv
<1> DEFINE pipe == PipeOrder[call.at]
<1>2. pipe \in Pipes /\ call.at \in {1, 2}
  BY <1>1 DEF Types, Call, PipeOrder, Pipes
<1> HIDE DEF pipe
<1>3. \A finished \in SUBSET Pipes : NextPipe(finished) =>
          /\ call' \in Call /\ call'.step \in {"poll", "check"}
          /\ call'.status = call.status /\ call'.finished = finished
  <2>1. 3 - call.at \in {1, 2}
    BY <1>2
  <2> DEFINE Step == IF call.at = 2 THEN "check" ELSE "poll"
  <2>2. Step \in {"poll", "check"}
    OBVIOUS
  <2>3. \A finished \in SUBSET Pipes : NextPipe(finished) =>
            call' = [call EXCEPT !.finished = finished, !.reads = 0, !.at = 3 - call.at,
                                 !.step = Step]
    BY <1>1 DEF NextPipe, Types, Call
  <2> HIDE DEF Step
  <2>4. ASSUME NEW finished \in SUBSET Pipes, NextPipe(finished)
        PROVE  /\ call' \in Call /\ call'.step \in {"poll", "check"}
               /\ call'.status = call.status /\ call'.finished = finished
    <3> DEFINE at == 3 - call.at
    <3>1. call' = [call EXCEPT !.finished = finished, !.reads = 0, !.at = at, !.step = Step]
      BY <2>3, <2>4
    <3>2. at \in {1, 2} /\ call \in Call
      BY <1>1, <2>1 DEF Types
    <3> HIDE DEF at
    <3>3. QED
      BY <2>2, <2>4, <3>1, <3>2 DEF Call
  <2>5. QED
    BY <2>4
<1>4. call.finished \in SUBSET Pipes /\ call.finished \cup {pipe} \in SUBSET Pipes
  BY <1>1, <1>2 DEF Types, Call
<1>5. UNCHANGED <<platform, tree>> /\ call.step = "poll"
  BY DEF PollDrain
<1>6. \A other \in Pipes : Holders(other)' = Holders(other)
  BY <1>5 DEF Holders
<1>7. ASSUME UNCHANGED pipes, NEW finished \in SUBSET Pipes, NextPipe(finished),
             \A other \in finished : other \in call.finished \/ Ended(other)
      PROVE  Invariant'
  <2>1. CountInv' /\ DrainInv'
    BY <1>1, <1>3, <1>5, <1>6, <1>7 DEF CountInv, DrainInv, Ended
  <2>2. QED
    BY <1>1, <1>3, <1>5, <1>7, <2>1, InvCall DEF CallInv, Types
<1>8. ASSUME pipes[pipe].held > 0, Take(pipe),
             \/ NextPipe(call.finished)
             \/ call' = [call EXCEPT !.reads = @ + 1]
      PROVE  Invariant'
  <2>1. CountInv' /\ PipeStep(pipe, pipes[pipe].held - 1, pipes[pipe].written,
                              Counted(pipes[pipe].read), pipes[pipe].reader)
    BY <1>1, <1>2, <1>8, TakeCounts, TakeStep
  <2>2. ~Ended(pipe)
    BY <1>1, <1>2, <1>8 DEF Ended, Types, Pipe
  <2>3. /\ call' \in Call /\ call'.step \in {"poll", "check"}
        /\ call'.status = call.status /\ call'.finished = call.finished
    <3>1. CASE NextPipe(call.finished)
      BY <1>3, <1>4, <3>1
    <3>2. CASE call' = [call EXCEPT !.reads = @ + 1]
      BY <1>1, <1>5, <3>2 DEF Types, Call
    <3>3. QED
      BY <1>8, <3>1, <3>2
  <2>4. DrainInv'
    BY <1>1, <1>2, <1>6, <2>1, <2>2, <2>3 DEF DrainInv, PipeStep, Ended
  <2>5. QED
    BY <1>1, <1>5, <2>1, <2>3, <2>4, InvCall DEF CallInv, PipeStep
<1>9. CASE pipe \in call.finished
  BY <1>4, <1>7, <1>9 DEF PollDrain, pipe
<1>10. CASE pipe \notin call.finished /\ platform = "macos"
  <2>1. ReadPipe(pipe)
    BY <1>10 DEF PollDrain, pipe
  <2>2. CASE pipes[pipe].held > 0
    BY <1>8, <2>1, <2>2 DEF ReadPipe
  <2>3. CASE ~(pipes[pipe].held > 0)
    <3>1. pipes[pipe].held = 0 /\ UNCHANGED pipes
      BY <2>1, <2>3 DEF ReadPipe
    <3>2. CASE Holders(pipe) = {}
      <4>1. NextPipe(call.finished \cup {pipe})
        BY <2>1, <2>3, <3>2 DEF ReadPipe
      <4>2. QED
        BY <1>4, <1>7, <3>1, <3>2, <4>1 DEF Ended
    <3>3. CASE Holders(pipe) # {}
      <4>1. NextPipe(call.finished)
        BY <2>1, <2>3, <3>3 DEF ReadPipe
      <4>2. QED
        BY <1>4, <1>7, <3>1, <4>1
    <3>4. QED
      BY <3>2, <3>3
  <2>4. QED
    BY <2>2, <2>3
<1>11. CASE pipe \notin call.finished /\ platform # "macos"
  <2>1. ReceiveOutput(pipe)
    BY <1>11 DEF PollDrain, pipe
  <2>2. CASE pipes[pipe].reader = "sent"
    <3>1. Ended(pipe)
      BY <1>1, <1>2, <2>2 DEF DrainInv
    <3>2. NextPipe(call.finished \cup {pipe}) /\ UNCHANGED pipes
      BY <2>1, <2>2 DEF ReceiveOutput
    <3>3. QED
      BY <1>4, <1>7, <3>1, <3>2
  <2>3. CASE pipes[pipe].reader # "sent"
    <3>1. NextPipe(call.finished) /\ UNCHANGED pipes
      BY <2>1, <2>3 DEF ReceiveOutput
    <3>2. QED
      BY <1>4, <1>7, <3>1
  <2>4. QED
    BY <2>2, <2>3
<1>12. QED
  BY <1>9, <1>10, <1>11

\* What is killed includes the whole group.
LEMMA TreeIsGroup == Group \subseteq Tree
  BY DEF Tree

LEMMA InvCheckDeadline ==
  ASSUME Invariant, CheckDeadline
  PROVE  Invariant'
<1>1. Types /\ TreeInv /\ CountInv /\ DrainInv /\ CallInv /\ call.step = "check"
  BY DEF Invariant, CommandInv, CheckDeadline
<1>2. CASE clock >= Deadline
  BY <1>1, <1>2, TreeIsGroup, InvTerminate DEF CheckDeadline
<1>3. CASE ~(clock >= Deadline) /\ call.status /\ call.finished = Pipes
  BY <1>1, <1>3, InvReturn DEF CheckDeadline, CallInv
<1>4. CASE ~(clock >= Deadline) /\ ~(call.status /\ call.finished = Pipes)
  <2>1. Goto("wait") /\ UNCHANGED <<platform, tree, pipes, clock>>
    BY <1>4 DEF CheckDeadline
  <2>2. /\ call' \in Call /\ call'.step = "wait"
        /\ call'.status = call.status /\ call'.finished = call.finished
    BY <1>1, <2>1 DEF Goto, Types, Call
  <2>3. CountInv' /\ DrainInv'
    BY <1>1, <2>1, <2>2 DEF CountInv, DrainInv, Ended, Holders
  <2>4. QED
    BY <1>1, <2>1, <2>2, <2>3, InvCall DEF CallInv, Types
<1>5. QED
  BY <1>2, <1>3, <1>4

LEMMA InvFails ==
  ASSUME Invariant, CallFails
  PROVE  Invariant'
<1>1. Types /\ TreeInv /\ CountInv /\ DrainInv /\ CallInv
  BY DEF Invariant, CommandInv
<1>2. CASE call.step = "spawn" /\ Return("error")
  <2>1. Group = {} /\ tree[Child].phase = "none"
    BY <1>1, <1>2 DEF TreeInv, Group, Active, Processes
  <2>2. QED
    BY <1>2, <2>1, InvReturn
<1>3. CASE call.step = "attach" /\ platform = "windows" /\ Terminate({Child}, "error")
  <2>1. Group \subseteq {Child}
    BY <1>1, <1>3 DEF TreeInv, Group, Active
  <2>2. QED
    BY <1>3, <2>1, InvTerminate
<1>4. CASE call.step \in {"drain", "wait", "poll"} /\ Terminate(Tree, "error")
  BY <1>4, TreeIsGroup, InvTerminate
<1>5. QED
  BY <1>2, <1>3, <1>4 DEF CallFails

LEMMA InvReap ==
  ASSUME Invariant, Reap
  PROVE  Invariant'
<1>1. Types /\ CallInv
  BY DEF Invariant, CommandInv
<1>2. call.answer \in {"error", "timeout"}
  BY <1>1 DEF Reap, CallInv
<1>3. QED
  BY <1>1, <1>2, InvReturn DEF Reap, CallInv

LEMMA InvReader ==
  ASSUME Invariant, NEW pipe \in Pipes, ReaderThread(pipe)
  PROVE  Invariant'
<1>1. Types /\ TreeInv /\ CountInv /\ DrainInv /\ CallInv
  BY DEF Invariant, CommandInv
<1>2. UNCHANGED <<platform, tree, call>> /\ \A other \in Pipes : Holders(other)' = Holders(other)
  BY DEF ReaderThread, Holders
<1>3. TreeInv' /\ CallInv'
  BY <1>1, <1>2 DEF TreeInv, CallInv, Group, Active
<1>4. call.step # "spawn"
  BY <1>1 DEF DrainInv, ReaderThread
<1>5. CASE pipes[pipe].held > 0 /\ Take(pipe)
  <2>1. CountInv' /\ PipeStep(pipe, pipes[pipe].held - 1, pipes[pipe].written,
                              Counted(pipes[pipe].read), pipes[pipe].reader)
    BY <1>1, <1>5, TakeCounts, TakeStep
  <2>2. ~Ended(pipe)
    BY <1>1, <1>5 DEF Ended, Types, Pipe
  <2>3. DrainInv' /\ Types'
    BY <1>1, <1>2, <1>4, <2>1, <2>2 DEF DrainInv, PipeStep, Ended, Types
  <2>4. QED
    BY <1>3, <2>1, <2>3 DEF Invariant, CommandInv
<1>6. CASE Ended(pipe) /\ pipes' = [pipes EXCEPT ![pipe].reader = "sent"]
  <2>1. CountInv' /\ PipeStep(pipe, pipes[pipe].held, pipes[pipe].written,
                              pipes[pipe].read, "sent")
    BY <1>1, <1>6, ReaderCounts, ReaderStep
  <2>2. DrainInv' /\ Types'
    BY <1>1, <1>2, <1>4, <1>6, <2>1 DEF DrainInv, PipeStep, Ended, Types
  <2>3. QED
    BY <1>3, <2>1, <2>2 DEF Invariant, CommandInv
<1>7. QED
  BY <1>5, <1>6 DEF ReaderThread, Ended

-----------------------------------------------------------------------------
(* Theorems.                                                               *)

LEMMA InvNext == Invariant /\ [Next]_vars => Invariant'
<1> SUFFICES ASSUME Invariant, [Next]_vars PROVE Invariant'
  OBVIOUS
<1>1. CASE CallNext
  BY <1>1, InvSpawn, InvAttach, InvStartDrain, InvTryWait, InvPollDrain, InvCheckDeadline, InvReap
     DEF CallNext
<1>2. CASE UNCHANGED <<platform, tree, pipes, call>>
  BY <1>2 DEF Invariant, CommandInv, Types, TreeInv, CountInv, DrainInv, CallInv, Ended, Holders,
              Group, Active
<1>3. QED
  BY <1>1, <1>2, InvFails, InvCommand, InvReader DEF Next, Tick, vars

\* Where the call is in its work, what the command's processes and pipes are
\* then, and what the call has concluded of them, at every step of every
\* interleaving (command.rs, output_with_timeout).
THEOREM CommandInvariant == Spec => [](Types /\ CommandInv)
  BY InvInit, InvNext, PTL DEF Spec, Invariant

\* Output is returned only whole and of a command that has ended; an error or
\* a timeout leaves nothing of its group or job running (command.rs,
\* output_with_timeout and ProcessTree::terminate).
THEOREM AnswerIsHonest == Spec => []AnswerHonest
<1>1. Types /\ CommandInv => AnswerHonest
  <2> SUFFICES ASSUME Types, CommandInv, call.step = "done" PROVE AnswerHonest
    BY DEF AnswerHonest
  <2>1. ASSUME call.answer = "output", NEW pipe \in Pipes
        PROVE  /\ Holders(pipe) = {} /\ pipes[pipe].held = 0
               /\ pipes[pipe].read = pipes[pipe].written
    <3>1. Ended(pipe)
      BY <2>1 DEF CommandInv, CallInv, DrainInv
    <3>2. QED
      BY <3>1, CountOfPipe, CountArithmetic DEF CommandInv, Ended
  <2>2. QED
    BY <2>1 DEF CommandInv, CallInv, AnswerHonest
<1>2. QED
  BY <1>1, CommandInvariant, PTL

=============================================================================
