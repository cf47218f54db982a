------------------------- MODULE LocalSandboxProofs -------------------------
(***************************************************************************)
(* Type correctness and the two safety invariants of LocalSandbox, for any *)
(* pipe capacity, any sizes and any limit of what is kept.  The inductive  *)
(* invariant adds to them the books of the pipes (what was written is      *)
(* captured or still in the pipe, unless the reader failed), what the end  *)
(* of a stream means, and which state of the interpreter goes with which   *)
(* line of runOne.                                                         *)
(***************************************************************************)
EXTENDS LocalSandbox, TLAPS

\* Nothing a program writes is lost on its way to a reader that works, and a
\* reader that failed has nothing.
PipeBooks ==
  \A s \in Streams : IF reader[s] = "failed" THEN captured[s] = 0 /\ pipe[s] = 0
                                             ELSE captured[s] + pipe[s] = written[s]

\* A stream that has ended is empty, and nobody is left to write to it.
EndIsFinal ==
  \A s \in Streams :
    reader[s] = "ended" =>
      pipe[s] = 0 /\ child \in {"exited", "failed", "killed"} /\ "attached" \notin orphans

\* What runOne knows of the interpreter where it stands.
StagesFit ==
  /\ parent \in {"create", "launch"} => child = "none"
  /\ parent \in {"feeding", "waiting", "killing", "destroying"} =>
       child \in {"running", "exited", "failed"}
  /\ parent = "reaping" => child \notin {"none", "running"}
  /\ parent = "joining" => ChildDone
  /\ child = "none" \/ parent = "feeding" => \A s \in Streams : reader[s] = "none"
  /\ parent # "done" => output = [s \in Streams |-> Truncated(0)]

\* A verdict is given only after both readers are through.
VerdictAfterEnd == result \in {3, 11} => Finished

IInv ==
  /\ TypeOK
  /\ PipeBooks
  /\ EndIsFinal
  /\ StagesFit
  /\ VerdictAfterEnd
  /\ VerdictIsTheProgrammes
  /\ ResultComesLast

-----------------------------------------------------------------------------
LEMMA TruncatedTyped ==
  ASSUME NEW n \in 0 .. MaxOutput
  PROVE  Truncated(n) \in [kept : 0 .. MaxOutput, cut : BOOLEAN]
  BY SandboxAssumption DEF Truncated, Smaller

LEMMA InitIInv == Init => IInv
<1> SUFFICES ASSUME Init PROVE IInv
  OBVIOUS
<1>1. TypeOK
  <2>1. 0 \in 0 .. PipeCapacity /\ 0 \in 0 .. MaxOutput
    BY SandboxAssumption
  <2>2. unsent \in 0 .. size
    BY SandboxAssumption DEF Init
  <2>3. /\ pipe \in [Streams -> 0 .. PipeCapacity]
        /\ captured \in [Streams -> 0 .. MaxOutput]
        /\ written \in [Streams -> 0 .. MaxOutput]
    BY <2>1 DEF Init
  <2>4. output \in [Streams -> [kept : 0 .. MaxOutput, cut : BOOLEAN]]
    BY TruncatedTyped, SandboxAssumption DEF Init
  <2> QED BY <2>1, <2>2, <2>3, <2>4 DEF Init, TypeOK, Kinds
<1>2. PipeBooks /\ EndIsFinal /\ VerdictAfterEnd
  BY DEF Init, PipeBooks, EndIsFinal, VerdictAfterEnd
<1>3. StagesFit /\ VerdictIsTheProgrammes /\ ResultComesLast
  BY DEF Init, StagesFit, VerdictIsTheProgrammes, ResultComesLast
<1> QED BY <1>1, <1>2, <1>3 DEF IInv

\* When a reader is through, what is collected of its stream is the beginning of
\* what was written to it, or nothing if it failed.
LEMMA CollectedIsWritten ==
  ASSUME TypeOK, PipeBooks, EndIsFinal, Finished
  PROVE  /\ Collected \in [Streams -> [kept : 0 .. MaxOutput, cut : BOOLEAN]]
         /\ \A s \in Streams :
              \/ reader[s] = "ended"  /\ Collected[s] = Truncated(written[s])
              \/ reader[s] = "failed" /\ Collected[s] = Truncated(0)
<1>1. \A s \in Streams : captured[s] \in 0 .. MaxOutput
  BY DEF TypeOK
<1>2. Collected \in [Streams -> [kept : 0 .. MaxOutput, cut : BOOLEAN]]
  BY <1>1, TruncatedTyped DEF Collected
<1>3. ASSUME NEW s \in Streams, reader[s] = "ended" PROVE captured[s] = written[s]
  BY <1>3, SandboxAssumption DEF TypeOK, PipeBooks, EndIsFinal
<1>4. ASSUME NEW s \in Streams, reader[s] = "failed" PROVE captured[s] = 0
  BY <1>4 DEF PipeBooks
<1> QED BY <1>2, <1>3, <1>4 DEF Finished, Collected

LEMMA NextIInv == IInv /\ [Next]_vars => IInv'
<1> SUFFICES ASSUME IInv, [Next]_vars PROVE IInv'
  OBVIOUS
<1> USE SandboxAssumption
<1> USE DEF IInv, TypeOK, PipeBooks, EndIsFinal, StagesFit, VerdictAfterEnd, Finished,
            VerdictIsTheProgrammes, ResultComesLast, process, answer, ChildDone, Kinds
<1>1. CASE CreateDirectory   BY <1>1 DEF CreateDirectory
<1>2. CASE Launch            BY <1>2 DEF Launch, Return
<1>3. CASE Feed              BY <1>3 DEF Feed, StdinIsRead
<1>4. CASE StartReaders      BY <1>4 DEF StartReaders
<1>5. CASE WaitReturns       BY <1>5 DEF WaitReturns
<1>6. CASE DeadlinePasses    BY <1>6 DEF DeadlinePasses
<1>7. CASE KillDescendants   BY <1>7 DEF KillDescendants
<1>8. CASE KillChild         BY <1>8 DEF KillChild
<1>9. CASE Reap              BY <1>9 DEF Reap, Return
<1>10. CASE Join
  <2>1. /\ Collected \in [Streams -> [kept : 0 .. MaxOutput, cut : BOOLEAN]]
        /\ \A s \in Streams :
              \/ reader[s] = "ended"  /\ Collected[s] = Truncated(written[s])
              \/ reader[s] = "failed" /\ Collected[s] = Truncated(0)
    BY <1>10, CollectedIsWritten DEF Join
  <2>2. /\ parent' = "done" /\ output' = Collected
        /\ (result' = 3 /\ child = "exited") \/ (result' = 11 /\ child = "failed")
        /\ Finished
        /\ UNCHANGED <<size, unsent, stdin, child, orphans, written, pipe, reader, captured>>
    BY <1>10 DEF Join, Status
  <2>3. VerdictIsTheProgrammes'
    BY <2>1, <2>2
  <2>4. ResultComesLast'
    BY <2>2
  <2>5. TypeOK'
    BY <2>1, <2>2
  <2> QED BY <2>2, <2>3, <2>4, <2>5
<1>11. CASE Interrupted      BY <1>11 DEF Interrupted
<1>12. ASSUME NEW s \in Streams, Read(s) PROVE IInv'
  <2>1. /\ pipe[s] \in 1 .. PipeCapacity /\ captured[s] + pipe[s] = written[s]
        /\ captured[s] \in 0 .. MaxOutput /\ written[s] \in 0 .. MaxOutput
    BY <1>12 DEF Read
  <2>2. captured[s] + 1 \in 0 .. MaxOutput /\ pipe[s] - 1 \in 0 .. PipeCapacity
    BY <2>1
  <2>3. /\ pipe' = [pipe EXCEPT ![s] = pipe[s] - 1]
        /\ captured' = [captured EXCEPT ![s] = captured[s] + 1]
        /\ reader[s] = "reading"
        /\ UNCHANGED <<size, parent, unsent, stdin, child, orphans, written, reader, result, output>>
    BY <1>12 DEF Read
  <2>4. TypeOK'
    BY <2>2, <2>3
  <2>5. ASSUME NEW t \in Streams
        PROVE  IF reader[t] = "failed" THEN captured'[t] = 0 /\ pipe'[t] = 0
                                       ELSE captured'[t] + pipe'[t] = written[t]
    <3>1. CASE t = s
      <4>1. captured'[t] = captured[s] + 1 /\ pipe'[t] = pipe[s] - 1
        BY <2>3, <3>1
      <4> QED BY <2>1, <2>3, <3>1, <4>1
    <3>2. CASE t # s
      BY <2>3, <3>2
    <3> QED BY <3>1, <3>2
  <2>6. EndIsFinal' /\ StagesFit'
    BY <2>3
  <2>7. VerdictAfterEnd' /\ VerdictIsTheProgrammes' /\ ResultComesLast'
    BY <2>3
  <2> QED BY <2>3, <2>4, <2>5, <2>6, <2>7
<1>13. ASSUME NEW s \in Streams, EndOfStream(s) PROVE IInv'
  BY <1>13 DEF EndOfStream
<1>14. ASSUME NEW s \in Streams, ReaderFails(s) PROVE IInv'
  BY <1>14 DEF ReaderFails
<1>15. CASE ProgramReads     BY <1>15 DEF ProgramReads
<1>16. ASSUME NEW s \in Streams, ProgramWrites(s) PROVE IInv'
  BY <1>16 DEF ProgramWrites
<1>17. CASE ProgramForks     BY <1>17 DEF ProgramForks
<1>18. CASE ChildEnds        BY <1>18 DEF ChildEnds
<1>19. CASE OrphansEnd       BY <1>19 DEF OrphansEnd
<1>20. CASE UNCHANGED vars   BY <1>20 DEF vars
<1> QED
  BY <1>1, <1>2, <1>3, <1>4, <1>5, <1>6, <1>7, <1>8, <1>9, <1>10, <1>11, <1>12,
     <1>13, <1>14, <1>15, <1>16, <1>17, <1>18, <1>19, <1>20
     DEF Next, ParentStep, ReaderStep, ProgramStep

\* The inductive invariant holds in every reachable state.
THEOREM SandboxInvariance == Spec => []IInv
  BY InitIInv, NextIInv, PTL DEF Spec

-----------------------------------------------------------------------------
\* Every variable of a run stays in its range: the result is one of the four
\* statuses the class knows, and no pipe holds more than its capacity.
THEOREM SandboxTypeCorrect == Spec => []TypeOK
<1>1. IInv => TypeOK BY DEF IInv
<1> QED BY <1>1, SandboxInvariance, PTL

\* A verdict of 3 or 11 belongs to a program that ended by itself and carries the
\* first MAX_CAPTURED_CHARS of all it wrote, or nothing of a stream whose reader
\* failed; 13 is for a program that never started.
THEOREM VerdictTheorem == Spec => []VerdictIsTheProgrammes
<1>1. IInv => VerdictIsTheProgrammes BY DEF IInv
<1> QED BY <1>1, SandboxInvariance, PTL

\* No result is given while the interpreter runs, and no verdict whose output was
\* read to its end while anything can still write to it.
THEOREM ResultAfterEnd == Spec => []ResultComesLast
<1>1. IInv => ResultComesLast BY DEF IInv
<1> QED BY <1>1, SandboxInvariance, PTL

=============================================================================
