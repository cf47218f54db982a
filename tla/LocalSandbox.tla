---------------------------- MODULE LocalSandbox ----------------------------
(***************************************************************************)
(* One test run by the local sandbox (exec/LocalPythonSandbox.java): the   *)
(* service thread in runOne, the interpreter it starts, its two output     *)
(* reader threads, and the pipes between them, which hold a bounded number *)
(* of chunks.  The student's program is arbitrary: it reads, writes, exits *)
(* or loops as it likes, and may leave processes behind, attached to its   *)
(* pipes or detached from them.  Time is not measured: the deadline of     *)
(* waitFor comes at some point while the thread waits.                     *)
(***************************************************************************)
EXTENDS Naturals

CONSTANTS
  PipeCapacity,  \* chunks a pipe of the operating system holds
  MaxStdin,      \* bound: chunks of a test's input
  MaxOutput,     \* bound: chunks the program writes to one stream
  MaxCaptured,   \* chunks of a stream a result keeps (MAX_CAPTURED_CHARS)
  MayFork        \* whether the program may leave processes behind

ASSUME SandboxAssumption ==
  /\ PipeCapacity \in Nat \ {0}
  /\ MaxStdin \in Nat /\ MaxOutput \in Nat /\ MaxCaptured \in Nat
  /\ MayFork \in BOOLEAN

Streams == {"stdout", "stderr"}

\* What the program left behind: processes that hold its pipes, and others.
Kinds == {"attached", "detached"}

Smaller(m, n) == IF m < n THEN m ELSE n

\* What truncate makes of n chunks: the first of them, and a mark if there are more.
Truncated(n) == [kept |-> Smaller(n, MaxCaptured), cut |-> n > MaxCaptured]

VARIABLES
  size,      \* chunks of input of this test
  parent,    \* where runOne is
  unsent,    \* input chunks still to be written
  stdin,     \* input chunks in the pipe
  child,     \* the interpreter
  orphans,   \* the kinds of processes it left behind that are alive
  pipe,      \* output chunks in each pipe
  reader,    \* the reader thread of each stream
  captured,  \* chunks each reader holds
  written,   \* history: chunks the program wrote to each stream
  result,    \* status id of the result, 0 while there is none
  output     \* what the result has of each stream

process == <<child, orphans, written>>
answer  == <<result, output>>
vars == <<size, parent, unsent, stdin, child, orphans, pipe, reader, captured,
          written, result, output>>

TypeOK ==
  /\ size \in 0 .. MaxStdin
  /\ parent \in {"create", "launch", "feeding", "waiting", "killing", "destroying",
                 "reaping", "joining", "done"}
  /\ unsent \in 0 .. size
  /\ stdin \in 0 .. PipeCapacity
  /\ child \in {"none", "running", "exited", "failed", "dying", "killed"}
  /\ orphans \subseteq Kinds
  /\ pipe \in [Streams -> 0 .. PipeCapacity]
  /\ reader \in [Streams -> {"none", "reading", "ended", "failed"}]
  /\ captured \in [Streams -> 0 .. MaxOutput]
  /\ written \in [Streams -> 0 .. MaxOutput]
  /\ result \in {0, 3, 5, 11, 13}
  /\ output \in [Streams -> [kept : 0 .. MaxOutput, cut : BOOLEAN]]

Init ==
  /\ size \in 0 .. MaxStdin
  /\ parent = "create"
  /\ unsent = size
  /\ stdin = 0
  /\ child = "none"
  /\ orphans = {}
  /\ pipe = [s \in Streams |-> 0]
  /\ reader = [s \in Streams |-> "none"]
  /\ captured = [s \in Streams |-> 0]
  /\ written = [s \in Streams |-> 0]
  /\ result = 0
  /\ output = [s \in Streams |-> Truncated(0)]

-----------------------------------------------------------------------------
(* The service thread *)

\* The directory is made outside the try block: a failure throws, and runBatch
\* with it.
CreateDirectory ==
  /\ parent = "create"
  /\ parent' \in {"launch", "done"}
  /\ UNCHANGED <<size, unsent, stdin, process, pipe, reader, captured, answer>>

\* A result without output: that of a run that was killed or never started.
Return(status) == parent' = "done" /\ result' = status /\ UNCHANGED output

Launch ==
  /\ parent = "launch"
  /\ \/ parent' = "feeding" /\ child' = "running" /\ UNCHANGED answer
     \/ Return(13) /\ UNCHANGED child
  /\ UNCHANGED <<size, unsent, stdin, orphans, pipe, reader, captured, written>>

StdinIsRead == child = "running" \/ "attached" \in orphans

\* The write blocks while the pipe is full; no deadline runs yet.
Feed ==
  /\ parent = "feeding"
  /\ StdinIsRead /\ unsent > 0 /\ stdin < PipeCapacity
  /\ unsent' = unsent - 1
  /\ stdin' = stdin + 1
  /\ UNCHANGED <<size, parent, process, pipe, reader, captured, answer>>

\* Mutant: the error stream is left alone until the output has ended.
StartReadersOneByOne ==
  /\ parent = "feeding"
  /\ unsent = 0 \/ ~StdinIsRead
  /\ parent' = "waiting"
  /\ reader' = [reader EXCEPT !["stdout"] = "reading"]
  /\ UNCHANGED <<size, unsent, stdin, process, pipe, captured, answer>>

\* All input is written, or the child has gone and the write failed: a normal
\* outcome.  Only now do the readers start.
StartReaders ==
  /\ parent = "feeding"
  /\ unsent = 0 \/ ~StdinIsRead
  /\ parent' = "waiting"
  /\ reader' = [s \in Streams |-> "reading"]
  /\ UNCHANGED <<size, unsent, stdin, process, pipe, captured, answer>>

ChildDone == child \in {"exited", "failed"}

WaitReturns ==
  /\ parent = "waiting" /\ ChildDone
  /\ parent' = "joining"
  /\ UNCHANGED <<size, unsent, stdin, process, pipe, reader, captured, answer>>

\* Mutant: waitFor is given no deadline.
WaitForever == FALSE /\ UNCHANGED vars

\* waitFor returns false: the child has not ended in time.
DeadlinePasses ==
  /\ parent = "waiting" /\ child = "running"
  /\ parent' = "killing"
  /\ UNCHANGED <<size, unsent, stdin, process, pipe, reader, captured, answer>>

\* The thread is interrupted in one of its waits (shutdown): it throws, and
\* nobody sees to the child.
Interrupted ==
  /\ parent \in {"waiting", "reaping"}
  /\ parent' = "done"
  /\ UNCHANGED <<size, unsent, stdin, process, pipe, reader, captured, answer>>

\* The descendants are those of a process still alive; one whose own parent has
\* ended is none of them.
KillDescendants ==
  /\ parent = "killing"
  /\ parent' = "destroying"
  /\ \/ child = "running" /\ orphans' \in SUBSET orphans
     \/ child # "running" /\ UNCHANGED orphans
  /\ UNCHANGED <<size, unsent, stdin, child, written, pipe, reader, captured, answer>>

\* Mutant: only the descendants are killed.
LeaveChild ==
  /\ parent = "destroying"
  /\ parent' = "reaping"
  /\ UNCHANGED <<size, unsent, stdin, process, pipe, reader, captured, answer>>

\* destroyForcibly: the child runs no more, but it may take its time to end.
KillChild ==
  /\ parent = "destroying"
  /\ parent' = "reaping"
  /\ child' = IF child = "running" THEN "dying" ELSE child
  /\ UNCHANGED <<size, unsent, stdin, orphans, written, pipe, reader, captured, answer>>

\* The child is gone, or 5 s have passed: which of the two is not looked at.
Reap ==
  /\ parent = "reaping"
  /\ Return(5)
  /\ UNCHANGED <<size, unsent, stdin, process, pipe, reader, captured>>

Status == IF child = "exited" THEN 3 ELSE 11

\* join and truncate: a reader that failed has nothing.
Collected == [s \in Streams |-> Truncated(captured[s])]

\* Mutant: the result takes what the readers have so far.
JoinWithoutWaiting ==
  /\ parent = "joining"
  /\ parent' = "done" /\ result' = Status /\ output' = Collected
  /\ UNCHANGED <<size, unsent, stdin, process, pipe, reader, captured>>

Finished == \A s \in Streams : reader[s] \in {"ended", "failed"}

\* Mutant: the status of a test is the exit code of the interpreter.
JoinExitCode ==
  /\ parent = "joining" /\ Finished
  /\ parent' = "done" /\ output' = Collected
  /\ result' = IF child = "exited" THEN 0 ELSE 1
  /\ UNCHANGED <<size, unsent, stdin, process, pipe, reader, captured>>

\* Both streams to their end, with no deadline either.
Join ==
  /\ parent = "joining" /\ Finished
  /\ parent' = "done" /\ result' = Status /\ output' = Collected
  /\ UNCHANGED <<size, unsent, stdin, process, pipe, reader, captured>>

-----------------------------------------------------------------------------
(* The reader threads *)

Read(s) ==
  /\ reader[s] = "reading" /\ pipe[s] > 0
  /\ pipe' = [pipe EXCEPT ![s] = @ - 1]
  /\ captured' = [captured EXCEPT ![s] = @ + 1]
  /\ UNCHANGED <<size, parent, unsent, stdin, process, reader, answer>>

\* The end of a stream comes when nobody holds its other end.
EndOfStream(s) ==
  /\ reader[s] = "reading" /\ pipe[s] = 0
  /\ child \notin {"running", "dying"} /\ "attached" \notin orphans
  /\ reader' = [reader EXCEPT ![s] = "ended"]
  /\ UNCHANGED <<size, parent, unsent, stdin, process, pipe, captured, answer>>

\* An IOException: all that was read is given up for "", and the stream is
\* closed with what is still in it.
ReaderFails(s) ==
  /\ reader[s] = "reading"
  /\ reader' = [reader EXCEPT ![s] = "failed"]
  /\ captured' = [captured EXCEPT ![s] = 0]
  /\ pipe' = [pipe EXCEPT ![s] = 0]
  /\ UNCHANGED <<size, parent, unsent, stdin, process, answer>>

-----------------------------------------------------------------------------
(* The student's program, and what it leaves behind *)

ProgramReads ==
  /\ StdinIsRead /\ stdin > 0
  /\ stdin' = stdin - 1
  /\ UNCHANGED <<size, parent, unsent, process, pipe, reader, captured, answer>>

\* A write to a full pipe blocks, one to a closed pipe fails.
ProgramWrites(s) ==
  /\ child = "running" \/ "attached" \in orphans
  /\ reader[s] # "failed" /\ pipe[s] < PipeCapacity /\ written[s] < MaxOutput
  /\ pipe' = [pipe EXCEPT ![s] = @ + 1]
  /\ written' = [written EXCEPT ![s] = @ + 1]
  /\ UNCHANGED <<size, parent, unsent, stdin, child, orphans, reader, captured, answer>>

ProgramForks ==
  /\ MayFork
  /\ \/ child = "running" /\ \E kind \in Kinds : orphans' = orphans \cup {kind}
     \/ "attached" \in orphans /\ orphans' = orphans \cup {"detached"}
  /\ UNCHANGED <<size, parent, unsent, stdin, child, written, pipe, reader, captured, answer>>

\* By itself, or at last after it was killed.
ChildEnds ==
  /\ \/ child = "running" /\ child' \in {"exited", "failed"}
     \/ child = "dying" /\ child' = "killed"
  /\ UNCHANGED <<size, parent, unsent, stdin, orphans, written, pipe, reader, captured, answer>>

\* The last process of a kind ends.
OrphansEnd ==
  /\ \E kind \in orphans : orphans' = orphans \ {kind}
  /\ UNCHANGED <<size, parent, unsent, stdin, child, written, pipe, reader, captured, answer>>

-----------------------------------------------------------------------------
ParentStep ==
  \/ CreateDirectory
  \/ Launch
  \/ Feed
  \/ StartReaders
  \/ WaitReturns
  \/ DeadlinePasses
  \/ KillDescendants
  \/ KillChild
  \/ Reap
  \/ Join

ReaderStep(s) == Read(s) \/ EndOfStream(s)

ProgramStep ==
  \/ ProgramReads
  \/ \E s \in Streams : ProgramWrites(s)
  \/ ProgramForks
  \/ ChildEnds
  \/ OrphansEnd

Next ==
  \/ ParentStep
  \/ Interrupted
  \/ \E s \in Streams : ReaderStep(s) \/ ReaderFails(s)
  \/ ProgramStep

Spec == Init /\ [][Next]_vars

\* The threads of the service are scheduled; nothing is known of the program,
\* and nobody owes an interrupt.
FairSpec == Spec /\ WF_vars(ParentStep) /\ \A s \in Streams : WF_vars(ReaderStep(s))

-----------------------------------------------------------------------------
\* A verdict is the program's own: status 3 and 11 are given only to a program
\* that ended by itself, with or without an error, and the result has the first
\* MAX_CAPTURED_CHARS of all it wrote, although it may have written while nobody
\* was reading, marked when there was more.  A stream whose reading failed is
\* the one exception: it counts as empty.  Status 13 is kept for a program that
\* was never started.
VerdictIsTheProgrammes ==
  /\ result = 3  => child = "exited"
  /\ result = 11 => child = "failed"
  /\ result = 13 => child = "none"
  /\ result \in {3, 11} =>
       \A s \in Streams :
         \/ reader[s] = "ended"  /\ output[s] = Truncated(written[s])
         \/ reader[s] = "failed" /\ output[s] = Truncated(0)

\* A result comes last: with none does the interpreter go on, and with a verdict
\* whose output was read to its end nobody can write any more, however the end
\* of the program races with the deadline and whatever it left behind.  What may
\* live on is what holds no pipe, what was started after the descendants were
\* listed, what lost its parent before, and all of an interrupted run.
ResultComesLast ==
  /\ result # 0 => parent = "done" /\ child # "running"
  /\ result \in {3, 11} => "attached" \notin orphans \/ \A s \in Streams : reader[s] = "failed"

\* "Read both streams concurrently, or a full pipe buffer deadlocks the child":
\* while the thread waits, a full pipe does not stay full.
FullPipesDrain ==
  \A s \in Streams : (parent = "waiting" /\ pipe[s] = PipeCapacity) ~> pipe[s] < PipeCapacity

\* A run ends, whatever the program does, if its input fits into a pipe and it
\* leaves no process behind for good that holds its output.
SmallRunsEnd ==
  size <= PipeCapacity /\ []<>("attached" \notin orphans) => <>(parent = "done")

\* "A hard wall-clock timeout": every run ends.
HardTimeout == <>(parent = "done")

=============================================================================
