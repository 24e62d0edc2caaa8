---------------------- MODULE AppServerTransportProofs ----------------------
(***************************************************************************)
(* Proofs about AppServerTransport, for every size of the pipes and of the *)
(* backlog and any number of lines.                                        *)
(*                                                                         *)
(* The inductive invariant follows a line through its stages: the pipe,    *)
(* the hands of the scanner, the backlog.  Each stage holds consecutive    *)
(* numbers that go on where the next stage's end (Stages); the states of   *)
(* the goroutines say which stages are empty (ReaderState).                *)
(***************************************************************************)
EXTENDS AppServerTransport, TLAPS, SequenceTheorems

Consecutive(s, from) == \A n \in 1..Len(s) : s[n] = from + n

Stages ==
    readErr # "overflow" =>
        /\ written = consumed + Len(queue) + Len(held) + Len(stdout)
        /\ Consecutive(queue, consumed)
        /\ Consecutive(held, consumed + Len(queue))
        /\ Consecutive(stdout, consumed + Len(queue) + Len(held))

ReaderState ==
    /\ codex = "writing" => written < MaxLines
    /\ scan # "sending" <=> held = <<>>
    /\ scan = "done" <=> scanErr # "none"
    /\ scanErr = "eof" /\ consumer # "returned" => codex = "exited" /\ stdout = <<>>
    /\ pump = "running" <=> readErr = "none"
    /\ pump # "running" => queue = <<>>
    /\ pump = "draining" => readErr = "overflow"
    /\ pump = "done" => scan = "done"
    /\ pump = "done" /\ readErr # "overflow" => readErr = scanErr
    /\ readErr \in {"none", "eof", "toolong", "overflow"}
    /\ consumer \in {"waiting", "returned"} => pump # "running"
    /\ runErr = "eof" => readErr = "eof" /\ codex = "exited" /\ consumed = written

Inv == TypeOK /\ ReaderState /\ Stages /\ BacklogBounded /\ OutcomeNamesTheCause

-----------------------------------------------------------------------------
(* The invariant holds before the first line is written.                   *)
LEMMA InitInv == Init => Inv
<1> SUFFICES ASSUME Init PROVE Inv
  OBVIOUS
<1>1. FlagsOK
  BY Zenon DEF Init, FlagsOK
<1>2. LinesOK
  BY TransportAssumption DEF Init, LinesOK
<1>3. ControlOK
  BY DEF Init, ControlOK, Errors
<1>4. Stages /\ BacklogBounded
  BY TransportAssumption DEF Init, Stages, Consecutive, BacklogBounded
<1>5. ReaderState /\ OutcomeNamesTheCause
  BY DEF Init, ReaderState, OutcomeNamesTheCause
<1> QED
  BY <1>1, <1>2, <1>3, <1>4, <1>5 DEF Inv, TypeOK

(* Every step keeps the types of the flags.                                *)
LEMMA FlagsStep ==
    ASSUME FlagsOK, [Next]_vars
    PROVE  FlagsOK'
<1> USE DEF FlagsOK
<1>1. CASE Codex
  BY <1>1, Zenon DEF Codex, CodexWants, CodexWrites, CodexReads, CodexExits, status
<1>2. CASE CtxEnds
  BY <1>2, Zenon DEF CtxEnds
<1>3. CASE Reader
  BY <1>3, Zenon DEF Reader, ScanLine, ScanEnds, ScanTooLong, PumpTakes, PumpCloses,
     DrainTakes, DrainEnds, process, status
<1>4. CASE Consumer
  <2>1. CASE Close
    BY <2>1, Zenon DEF Close
  <2>2. CASE BeginRead \/ ReadLine \/ ReadClosed \/ ReadCancelled \/ ReadTimesOut
    BY <2>2, Zenon DEF BeginRead, ReadLine, ReadClosed, ReadCancelled, ReadTimesOut, Consume,
       SessionEnds, ConsumerGoes, process, status
  <2>3. CASE ToolDone \/ WriteReply \/ WriteTimesOut \/ WriteBroken \/ DrainLine \/ Drained
                \/ Wait
    BY <2>3, Zenon DEF ToolDone, WriteReply, WriteTimesOut, WriteBroken, DrainLine, Drained,
       Wait, Consume, SessionEnds, ConsumerGoes, process, status
  <2> QED
    BY <1>4, <2>1, <2>2, <2>3 DEF Consumer
<1>5. CASE UNCHANGED vars
  BY <1>5 DEF vars, process, status
<1> QED
  BY <1>1, <1>2, <1>3, <1>4, <1>5 DEF Next

(* Every step keeps the types of the control states.                       *)
LEMMA ControlStep ==
    ASSUME ControlOK, [Next]_vars
    PROVE  ControlOK'
<1> USE DEF ControlOK, Errors
<1>1. CASE Codex
  BY <1>1 DEF Codex, CodexWants, CodexWrites, CodexReads, CodexExits, reader, session
<1>2. CASE CtxEnds
  BY <1>2 DEF CtxEnds, reader
<1>3. CASE Reader
  BY <1>3 DEF Reader, ScanLine, ScanEnds, ScanTooLong, PumpTakes, PumpCloses, DrainTakes,
     DrainEnds, OverflowError, AfterOverflow, scanTerminalError, process, session
<1>4. CASE Consumer
  <2>1. CASE Wait
    BY <2>1 DEF Wait, classifyAppServerOutcome, Categorized, process, reader
  <2>2. CASE BeginRead \/ ReadLine \/ ReadClosed \/ ReadCancelled \/ ReadTimesOut
    BY <2>2 DEF BeginRead, ReadLine, ReadClosed, ReadCancelled, ReadTimesOut, Consume,
       SessionEnds, ConsumerGoes, process, reader
  <2>3. CASE ToolDone \/ WriteReply \/ WriteTimesOut \/ WriteBroken \/ Close
                \/ DrainLine \/ Drained
    BY <2>3 DEF ToolDone, WriteReply, WriteTimesOut, WriteBroken, Close, AfterClose, DrainLine,
       Drained, Consume, SessionEnds, ConsumerGoes, process, reader
  <2> QED
    BY <1>4, <2>1, <2>2, <2>3 DEF Consumer
<1>5. CASE UNCHANGED vars
  BY <1>5 DEF vars, process, reader, session
<1> QED
  BY <1>1, <1>2, <1>3, <1>4, <1>5 DEF Next

(* Every step keeps the types of the lines in every stage.                 *)
LEMMA LinesStep ==
    ASSUME LinesOK, ReaderState, [Next]_vars
    PROVE  LinesOK'
<1> USE DEF LinesOK
<1>1. CASE Codex
  <2>1. CASE CodexWrites
    BY <2>1, TransportAssumption DEF CodexWrites, ReaderState, reader, session
  <2>2. CASE CodexReads
    BY <2>2, TransportAssumption DEF CodexReads, reader, session
  <2>3. CASE CodexWants \/ CodexExits
    BY <2>3, Zenon DEF CodexWants, CodexExits, reader, session
  <2> QED
    BY <1>1, <2>1, <2>2, <2>3 DEF Codex
<1>2. CASE CtxEnds
  BY <1>2 DEF CtxEnds, reader
<1>3. CASE Reader
  <2>1. <<>> \in Seq(1..MaxLines) /\ Len(<<>>) = 0
    OBVIOUS
  <2>2. CASE ScanLine
    <3>1. Head(stdout) \in 1..MaxLines /\ Tail(stdout) \in Seq(1..MaxLines)
      BY <2>2, HeadTailProperties DEF ScanLine
    <3>2. <<Head(stdout)>> \in Seq(1..MaxLines) /\ Len(<<Head(stdout)>>) = 1
      BY <3>1
    <3> QED
      BY <2>2, <3>1, <3>2 DEF ScanLine, process, session
  <2>3. CASE PumpTakes
    <3>1. queue \o held \in Seq(1..MaxLines)
      OBVIOUS
    <3>2. queue' \in Seq(1..MaxLines) /\ held' = <<>>
      BY <2>1, <2>3, <3>1 DEF PumpTakes
    <3> QED
      BY <2>1, <2>3, <3>2 DEF PumpTakes, process, session
  <2>4. CASE DrainTakes
    BY <2>1, <2>4 DEF DrainTakes, process, session
  <2>5. CASE ScanEnds \/ ScanTooLong \/ PumpCloses \/ DrainEnds
    BY <2>5 DEF ScanEnds, ScanTooLong, PumpCloses, DrainEnds, process, session
  <2> QED
    BY <1>3, <2>2, <2>3, <2>4, <2>5 DEF Reader
<1>4. CASE Consumer
  <2>1. ASSUME NEW next, NEW err, Consume(next, err)
        PROVE  LinesOK'
    BY <2>1, TransportAssumption DEF Consume, NextLine, process
  <2>2. CASE ReadLine \/ DrainLine
    BY <2>1, <2>2 DEF ReadLine, DrainLine
  <2>3. CASE WriteReply
    BY <2>3, TransportAssumption DEF WriteReply, reader
  <2>4. CASE BeginRead \/ ReadClosed \/ ReadCancelled \/ ReadTimesOut \/ ToolDone
                \/ WriteTimesOut \/ WriteBroken \/ Close \/ Drained \/ Wait
    BY <2>4 DEF BeginRead, ReadClosed, ReadCancelled, ReadTimesOut, ToolDone, WriteTimesOut,
       WriteBroken, Close, Drained, Wait, SessionEnds, ConsumerGoes, process, reader
  <2> QED
    BY <1>4, <2>2, <2>3, <2>4 DEF Consumer
<1>5. CASE UNCHANGED vars
  BY <1>5 DEF vars, process, reader, session
<1> QED
  BY <1>1, <1>2, <1>3, <1>4, <1>5 DEF Next
-----------------------------------------------------------------------------
(* Sequences of consecutive numbers.                                       *)

(* The next line put at the end of consecutive lines.                      *)
LEMMA ConsecutiveAppend ==
    ASSUME NEW s \in Seq(Nat), NEW f \in Nat, Consecutive(s, f)
    PROVE  Consecutive(Append(s, f + Len(s) + 1), f)
<1> DEFINE e == f + Len(s) + 1
<1>1. Len(s) \in Nat /\ e \in Nat
  OBVIOUS
<1>2. /\ Len(Append(s, e)) = Len(s) + 1
      /\ \A n \in 1..Len(s) : Append(s, e)[n] = s[n]
      /\ Append(s, e)[Len(s) + 1] = e
  BY <1>1, AppendProperties
<1> QED
  BY <1>1, <1>2 DEF Consecutive

(* Consecutive lines without their first.                                  *)
LEMMA ConsecutiveTail ==
    ASSUME NEW s \in Seq(Nat), NEW f \in Nat, s # <<>>, Consecutive(s, f)
    PROVE  Head(s) = f + 1 /\ Consecutive(Tail(s), f + 1)
<1>1. Head(s) = s[1] /\ Len(s) \in Nat /\ Len(s) >= 1
  BY EmptySeq
<1>2. Len(Tail(s)) = Len(s) - 1 /\ \A n \in 1..Len(Tail(s)) : Tail(s)[n] = s[n + 1]
  BY HeadTailProperties
<1>3. Head(s) = f + 1
  BY <1>1 DEF Consecutive
<1>4. ASSUME NEW n \in 1..Len(Tail(s)) PROVE Tail(s)[n] = (f + 1) + n
  <2>1. n + 1 \in 1..Len(s) /\ Tail(s)[n] = s[n + 1]
    BY <1>1, <1>2
  <2> QED
    BY <2>1, <1>1, <1>2 DEF Consecutive
<1> QED
  BY <1>3, <1>4 DEF Consecutive

(* Consecutive lines that continue each other.                             *)
LEMMA ConsecutiveConcat ==
    ASSUME NEW s \in Seq(Nat), NEW t \in Seq(Nat), NEW f \in Nat,
           Consecutive(s, f), Consecutive(t, f + Len(s))
    PROVE  Consecutive(s \o t, f) /\ Len(s \o t) = Len(s) + Len(t)
<1>1. Len(s) \in Nat /\ Len(t) \in Nat /\ Len(s \o t) = Len(s) + Len(t)
  BY ConcatProperties
<1>2. \A n \in 1..Len(s) + Len(t) :
          (s \o t)[n] = IF n <= Len(s) THEN s[n] ELSE t[n - Len(s)]
  BY ConcatProperties
<1>3. ASSUME NEW n \in 1..Len(s \o t) PROVE (s \o t)[n] = f + n
  <2>1. CASE n <= Len(s)
    BY <1>1, <1>2, <2>1 DEF Consecutive
  <2>2. CASE n > Len(s)
    <3>1. n - Len(s) \in 1..Len(t)
      BY <1>1, <2>2
    <3>2. t[n - Len(s)] = f + Len(s) + (n - Len(s))
      BY <3>1 DEF Consecutive
    <3>3. (s \o t)[n] = t[n - Len(s)]
      BY <1>1, <1>2, <2>2
    <3> QED
      BY <1>1, <3>2, <3>3
  <2> QED
    BY <1>1, <2>1, <2>2
<1> QED
  BY <1>1, <1>3 DEF Consecutive

(* No line, or one, is consecutive.                                        *)
LEMMA ConsecutiveShort ==
    ASSUME NEW f \in Nat
    PROVE  Consecutive(<<>>, f) /\ Consecutive(<<f + 1>>, f)
BY DEF Consecutive
-----------------------------------------------------------------------------
(* What the types say of the stages.                                       *)
LEMMA LineTypes ==
    ASSUME LinesOK
    PROVE  /\ stdout \in Seq(Nat) /\ queue \in Seq(Nat) /\ held \in Seq(Nat)
           /\ Len(stdout) \in Nat /\ Len(queue) \in Nat /\ Len(held) \in Nat
           /\ written \in Nat /\ consumed \in Nat /\ Len(held) <= 1
BY TransportAssumption DEF LinesOK

(* Every step passes lines on in order.                                    *)
LEMMA StagesStep ==
    ASSUME LinesOK, ReaderState, Stages, [Next]_vars
    PROVE  Stages'
<1>1. /\ stdout \in Seq(Nat) /\ queue \in Seq(Nat) /\ held \in Seq(Nat)
      /\ Len(stdout) \in Nat /\ Len(queue) \in Nat /\ Len(held) \in Nat
      /\ written \in Nat /\ consumed \in Nat
  BY LineTypes
<1> DEFINE kept == <<written, consumed, stdout, queue, held, readErr>>
<1>2. CASE UNCHANGED kept
  BY <1>2 DEF Stages, Consecutive
<1>3. CASE CodexWrites
  <2> SUFFICES ASSUME readErr' # "overflow" PROVE Stages'
    BY DEF Stages
  <2>1. /\ UNCHANGED <<consumed, queue, held, readErr>>
        /\ written' = written + 1 /\ stdout' = Append(stdout, written + 1)
    BY <1>3 DEF CodexWrites, reader, session
  <2> DEFINE f == consumed + Len(queue) + Len(held)
  <2>2. /\ f \in Nat /\ written + 1 = f + Len(stdout) + 1
        /\ Consecutive(queue, consumed) /\ Consecutive(held, consumed + Len(queue))
        /\ Consecutive(stdout, f)
    BY <1>1, <2>1 DEF Stages
  <2> HIDE DEF f
  <2>3. Consecutive(stdout', f) /\ Len(stdout') = Len(stdout) + 1
    BY <1>1, <2>1, <2>2, ConsecutiveAppend
  <2>4. f' = f
    BY <2>1 DEF f
  <2>5. written' = f' + Len(stdout')
    BY <1>1, <2>1, <2>2, <2>3, <2>4
  <2>6. Consecutive(queue', consumed') /\ Consecutive(held', consumed' + Len(queue'))
    BY <2>1, <2>2
  <2> QED
    BY <2>1, <2>3, <2>4, <2>5, <2>6 DEF Stages, f
<1>4. CASE ScanLine
  <2> SUFFICES ASSUME readErr' # "overflow" PROVE Stages'
    BY DEF Stages
  <2>1. /\ UNCHANGED <<written, consumed, queue, readErr>>
        /\ held' = <<Head(stdout)>> /\ stdout' = Tail(stdout) /\ stdout # <<>> /\ held = <<>>
    BY <1>4 DEF ScanLine, ReaderState, process, session
  <2> DEFINE f == consumed + Len(queue)
  <2>2. /\ f \in Nat /\ Len(held) = 0
        /\ written = f + Len(stdout)
        /\ Consecutive(queue, consumed)
        /\ Consecutive(stdout, f)
    BY <1>1, <2>1 DEF Stages
  <2> HIDE DEF f
  <2>3. Head(stdout) = f + 1 /\ Consecutive(Tail(stdout), f + 1)
    BY <1>1, <2>1, <2>2, ConsecutiveTail
  <2>4. Len(Tail(stdout)) = Len(stdout) - 1
    BY <1>1, <2>1, HeadTailProperties
  <2>5. Consecutive(held', f) /\ Len(held') = 1
    BY <2>1, <2>2, <2>3, ConsecutiveShort
  <2>6. f' = f
    BY <2>1 DEF f
  <2>7. written' = f' + Len(held') + Len(stdout')
    BY <1>1, <2>1, <2>2, <2>4, <2>5, <2>6
  <2>8. Consecutive(stdout', f' + Len(held')) /\ Consecutive(queue', consumed')
    BY <2>1, <2>2, <2>3, <2>5, <2>6
  <2> QED
    BY <2>1, <2>5, <2>6, <2>7, <2>8 DEF Stages, f
<1>5. CASE PumpTakes
  <2> SUFFICES ASSUME readErr' # "overflow" PROVE Stages'
    BY DEF Stages
  <2>1. /\ UNCHANGED <<written, consumed, stdout, readErr>>
        /\ held' = <<>> /\ queue' = queue \o held
    BY <1>5 DEF PumpTakes, OverflowError, AfterOverflow, process, session
  <2>2. /\ written = consumed + Len(queue) + Len(held) + Len(stdout)
        /\ Consecutive(queue, consumed) /\ Consecutive(held, consumed + Len(queue))
        /\ Consecutive(stdout, consumed + Len(queue) + Len(held))
    BY <2>1 DEF Stages
  <2>3. Consecutive(queue', consumed) /\ Len(queue') = Len(queue) + Len(held)
    BY <1>1, <2>1, <2>2, ConsecutiveConcat
  <2>4. consumed + Len(queue') \in Nat /\ Len(held') = 0
    BY <1>1, <2>1, <2>3
  <2>5. Consecutive(held', consumed + Len(queue'))
    BY <2>1, <2>4, ConsecutiveShort
  <2>6. consumed + Len(queue') + Len(held') = consumed + Len(queue) + Len(held)
    BY <1>1, <2>3, <2>4
  <2> QED
    BY <2>1, <2>2, <2>3, <2>5, <2>6 DEF Stages
<1>6. ASSUME NEW next, NEW err, Consume(next, err)
      PROVE  Stages'
  <2> SUFFICES ASSUME readErr' # "overflow" PROVE Stages'
    BY DEF Stages
  <2>1. /\ UNCHANGED <<written, held, stdout, readErr>>
        /\ queue # <<>> /\ queue' = Tail(queue) /\ consumed' = Head(queue)
    BY <1>6 DEF Consume, NextLine, process
  <2>2. /\ written = consumed + Len(queue) + Len(held) + Len(stdout)
        /\ Consecutive(queue, consumed) /\ Consecutive(held, consumed + Len(queue))
        /\ Consecutive(stdout, consumed + Len(queue) + Len(held))
    BY <2>1 DEF Stages
  <2>3. consumed' = consumed + 1 /\ Consecutive(queue', consumed')
    BY <1>1, <2>1, <2>2, ConsecutiveTail
  <2>4. Len(queue') = Len(queue) - 1
    BY <1>1, <2>1, HeadTailProperties
  <2>5. consumed' + Len(queue') = consumed + Len(queue)
    BY <1>1, <2>3, <2>4
  <2> QED
    BY <2>1, <2>2, <2>3, <2>5 DEF Stages
<1>7. CASE DrainTakes
  BY <1>7 DEF DrainTakes, ReaderState, Stages
<1>8. CASE PumpCloses
  BY <1>8 DEF PumpCloses, ReaderState, Stages, Consecutive, process, session
<1>9. CASE Codex
  BY <1>2, <1>3, <1>9 DEF Codex, CodexWants, CodexReads, CodexExits, reader, session
<1>10. CASE CtxEnds
  BY <1>2, <1>10 DEF CtxEnds, reader
<1>11. CASE Reader
  BY <1>2, <1>4, <1>5, <1>7, <1>8, <1>11 DEF Reader, ScanEnds, ScanTooLong, DrainEnds,
     process, session
<1>12. CASE Consumer
  <2>1. CASE ReadLine \/ DrainLine
    BY <1>6, <2>1 DEF ReadLine, DrainLine
  <2>2. CASE ~ (ReadLine \/ DrainLine)
    BY <1>2, <1>12, <2>2 DEF Consumer, BeginRead, ReadClosed, ReadCancelled, ReadTimesOut,
       ToolDone, WriteReply, WriteTimesOut, WriteBroken, Close, Drained, Wait, SessionEnds,
       ConsumerGoes, process, reader
  <2> QED
    BY <2>1, <2>2
<1>13. CASE UNCHANGED vars
  BY <1>2, <1>13 DEF vars, process, reader, session
<1> QED
  BY <1>9, <1>10, <1>11, <1>12, <1>13 DEF Next
-----------------------------------------------------------------------------
(* Every step keeps the reader's state in line with what it holds.         *)
LEMMA ReaderStateStep ==
    ASSUME LinesOK, ControlOK, ReaderState, Stages, [Next]_vars
    PROVE  ReaderState'
<1> USE DEF ControlOK, ReaderState
<1>1. CASE Codex
  BY <1>1, LineTypes DEF Codex, CodexWants, CodexWrites, CodexReads, CodexExits, reader,
     session
<1>2. CASE CtxEnds
  BY <1>2 DEF CtxEnds, reader
<1>3. CASE Reader
  <2>1. CASE ScanLine
    <3>1. <<Head(stdout)>> # <<>>
      OBVIOUS
    <3> QED
      BY <2>1, <3>1 DEF ScanLine, process, session
  <2>2. CASE PumpTakes
    BY <2>2 DEF PumpTakes, OverflowError, AfterOverflow, process, session
  <2>3. CASE ScanEnds \/ ScanTooLong
    BY <2>3 DEF ScanEnds, ScanTooLong, scanTerminalError, process, session
  <2>4. CASE PumpCloses
    BY <2>4 DEF PumpCloses, process, session
  <2>5. CASE DrainTakes \/ DrainEnds
    BY <2>5 DEF DrainTakes, DrainEnds, process, session
  <2> QED
    BY <1>3, <2>1, <2>2, <2>3, <2>4, <2>5 DEF Reader
<1>4. CASE Consumer
  <2>1. CASE ReadClosed
    <3>1. CASE readErr = "eof"
      <4>1. codex = "exited" /\ stdout = <<>> /\ queue = <<>> /\ held = <<>>
        BY <2>1, <3>1 DEF ReadClosed, readClosed
      <4>2. consumed = written
        BY <3>1, <4>1, LineTypes DEF Stages
      <4> QED
        BY <2>1, <3>1, <4>1, <4>2 DEF ReadClosed, SessionEnds, process, reader
    <3>2. CASE readErr # "eof"
      BY <2>1, <3>2 DEF ReadClosed, SessionEnds, process, reader
    <3> QED
      BY <3>1, <3>2
  <2>2. CASE ReadLine \/ DrainLine
    BY <2>2 DEF ReadLine, DrainLine, Consume, process
  <2>3. CASE BeginRead \/ ReadCancelled \/ ReadTimesOut \/ WriteTimesOut \/ WriteBroken
    BY <2>3 DEF BeginRead, ReadCancelled, ReadTimesOut, WriteTimesOut, WriteBroken,
       SessionEnds, ConsumerGoes, process, reader
  <2>4. CASE ToolDone \/ WriteReply \/ Close \/ Drained \/ Wait
    BY <2>4 DEF ToolDone, WriteReply, Close, AfterClose, Drained, Wait, readClosed,
       ConsumerGoes, process, reader
  <2> QED
    BY <1>4, <2>1, <2>2, <2>3, <2>4 DEF Consumer
<1>5. CASE UNCHANGED vars
  BY <1>5 DEF vars, process, reader, session
<1> QED
  BY <1>1, <1>2, <1>3, <1>4, <1>5 DEF Next

(* Every step keeps the backlog within its bound.                          *)
LEMMA BacklogStep ==
    ASSUME LinesOK, BacklogBounded, [Next]_vars
    PROVE  BacklogBounded'
<1> USE DEF BacklogBounded
<1>1. CASE PumpTakes
  BY <1>1, TransportAssumption DEF PumpTakes, WithinBacklog
<1>2. ASSUME NEW next, NEW err, Consume(next, err)
      PROVE  BacklogBounded'
  <2>1. Len(Tail(queue)) = Len(queue) - 1
    BY <1>2, LineTypes, HeadTailProperties DEF Consume
  <2> QED
    BY <1>2, <2>1, LineTypes, TransportAssumption DEF Consume
<1>3. CASE ReadLine \/ DrainLine
  BY <1>2, <1>3 DEF ReadLine, DrainLine
<1>4. CASE UNCHANGED queue
  BY <1>4
<1> QED
  BY <1>1, <1>3, <1>4 DEF Next, vars, Codex, CodexWants, CodexWrites, CodexReads, CodexExits,
     CtxEnds, Reader, ScanLine, ScanEnds, ScanTooLong, PumpCloses, DrainTakes, DrainEnds,
     Consumer, BeginRead, ReadClosed, ReadCancelled, ReadTimesOut, ToolDone, WriteReply,
     WriteTimesOut, WriteBroken, Close, Drained, Wait, SessionEnds, ConsumerGoes, reader

(* Every step gives a run that ends the error of its cause.                *)
LEMMA OutcomeStep ==
    ASSUME ControlOK, OutcomeNamesTheCause, [Next]_vars
    PROVE  OutcomeNamesTheCause'
<1> USE DEF OutcomeNamesTheCause
<1>1. CASE Codex \/ Reader
  BY <1>1 DEF Codex, CodexWants, CodexWrites, CodexReads, CodexExits, Reader, ScanLine,
     ScanEnds, ScanTooLong, PumpTakes, PumpCloses, DrainTakes, DrainEnds, session
<1>2. CASE CtxEnds
  BY <1>2 DEF CtxEnds
<1>3. CASE Wait
  BY <1>3 DEF Wait, classifyAppServerOutcome, Categorized, ControlOK, Errors
<1>4. CASE Consumer /\ ~ Wait
  BY <1>4 DEF Consumer, BeginRead, ReadLine, ReadClosed, ReadCancelled, ReadTimesOut, ToolDone,
     WriteReply, WriteTimesOut, WriteBroken, Close, AfterClose, DrainLine, Drained, Consume,
     SessionEnds, ConsumerGoes
<1>5. CASE UNCHANGED vars
  BY <1>5 DEF vars, session
<1> QED
  BY <1>1, <1>2, <1>3, <1>4, <1>5 DEF Next
-----------------------------------------------------------------------------
(* The invariant of the transport.                                         *)
THEOREM Invariance == Spec => []Inv
<1>1. Inv /\ [Next]_vars => Inv'
  BY FlagsStep, LinesStep, ControlStep, ReaderStateStep, StagesStep, BacklogStep, OutcomeStep
     DEF Inv, TypeOK
<1> QED
  BY <1>1, InitInv, PTL DEF Spec

(* The variables keep their types.                                         *)
THEOREM TypeCorrect == Spec => []TypeOK
<1>1. Inv => TypeOK
  BY DEF Inv
<1> QED
  BY <1>1, Invariance, PTL

(* No line is lost, duplicated or reordered between the process and the    *)
(* consumer, unless the backlog overflows (pumpStdoutLines, lineQueue).    *)
THEOREM Delivery == Spec => []NoLineLost
<1>1. Inv => NoLineLost
  <2> SUFFICES ASSUME Inv, readErr # "overflow"
               PROVE  /\ Len(InFlight) = written - consumed
                      /\ \A n \in 1..Len(InFlight) : InFlight[n] = consumed + n
    BY DEF NoLineLost
  <2>1. /\ stdout \in Seq(Nat) /\ queue \in Seq(Nat) /\ held \in Seq(Nat)
        /\ Len(stdout) \in Nat /\ Len(queue) \in Nat /\ Len(held) \in Nat
        /\ written \in Nat /\ consumed \in Nat
    BY LineTypes DEF Inv, TypeOK
  <2>2. /\ written = consumed + Len(queue) + Len(held) + Len(stdout)
        /\ Consecutive(queue, consumed) /\ Consecutive(held, consumed + Len(queue))
        /\ Consecutive(stdout, consumed + Len(queue) + Len(held))
    BY DEF Inv, Stages
  <2>3. /\ queue \o held \in Seq(Nat)
        /\ Consecutive(queue \o held, consumed)
        /\ Len(queue \o held) = Len(queue) + Len(held)
    BY <2>1, <2>2, ConsecutiveConcat, ConcatProperties
  <2>4. consumed + Len(queue \o held) = consumed + Len(queue) + Len(held)
    BY <2>1, <2>3
  <2>5. /\ Consecutive((queue \o held) \o stdout, consumed)
        /\ Len((queue \o held) \o stdout) = Len(queue) + Len(held) + Len(stdout)
    BY <2>1, <2>2, <2>3, <2>4, ConsecutiveConcat
  <2> QED
    BY <2>1, <2>2, <2>5 DEF InFlight, Consecutive
<1> QED
  BY <1>1, Invariance, PTL

(* A session that ends with the stream has received every line of it       *)
(* (scanTerminalError, readLineOnce).                                      *)
THEOREM Completeness == Spec => []EndOfFileIsComplete
<1>1. Inv => EndOfFileIsComplete
  BY DEF Inv, ReaderState, EndOfFileIsComplete
<1> QED
  BY <1>1, Invariance, PTL

(* The error is there before the channel is closed (pumpStdoutLines).      *)
THEOREM Reason == Spec => []ClosedHasReason
<1>1. Inv => ClosedHasReason
  BY DEF Inv, ReaderState, ClosedHasReason, readClosed
<1> QED
  BY <1>1, Invariance, PTL

(* The backlog stays within its bound (lineQueue.push).                    *)
THEOREM Backlog == Spec => []BacklogBounded
<1>1. Inv => BacklogBounded
  BY DEF Inv
<1> QED
  BY <1>1, Invariance, PTL

(* Reading to the end joins the goroutines, unless the backlog overflowed  *)
(* (CodexAppServerRunner.Run).                                             *)
THEOREM Joined == Spec => []ReadersJoined
<1>1. Inv => ReadersJoined
  BY DEF Inv, TypeOK, ControlOK, ReaderState, ReadersJoined
<1> QED
  BY <1>1, Invariance, PTL

(* What Run returns names what ended the run (classifyAppServerOutcome).   *)
THEOREM Cause == Spec => []OutcomeNamesTheCause
<1>1. Inv => OutcomeNamesTheCause
  BY DEF Inv
<1> QED
  BY <1>1, Invariance, PTL
-----------------------------------------------------------------------------
(* Nobody waits for somebody who waits in turn.  Below, each goroutine and *)
(* the process is described by when it can go on by itself, without a      *)
(* timeout and without a cancellation.                                     *)

ScannerMoves == scan = "scanning" /\ (stdout # <<>> \/ codex = "exited")

PumpMoves ==
    \/ scan = "sending" /\ pump # "done"
    \/ scan = "done" /\ pump = "draining"
    \/ scan = "done" /\ pump = "running" /\ queue = <<>>

ProcessMoves ==
    \/ codex = "writing" /\ (Len(stdout) < StdoutCap \/ signalled)
    \/ codex = "ready" /\ (stdin > 0 \/ ~ stdinOpen \/ signalled)

ConsumerMoves ==
    \/ consumer = "draining" /\ (readClosed \/ queue # <<>>)
    \/ consumer = "waiting" /\ codex = "exited"

(* A process whose write finds the pipe full has a reader that will make   *)
(* room: the scanner, or the pump that takes the scanner's line whatever   *)
(* the consumer does, and the drain after an overflow.                     *)
BlockedWriteIsRead ==
    codex = "writing" /\ Len(stdout) >= StdoutCap /\ scanErr # "toolong" =>
        ScannerMoves \/ (scan = "sending" /\ PumpMoves)

(* The shutdown of a run is never stuck: while it drains the channel or    *)
(* waits for the process, somebody can go on, unless the process is        *)
(* blocked in a write after a line that was too long in a good session.    *)
ShutdownMoves ==
    /\ consumer = "draining" => ConsumerMoves \/ ScannerMoves \/ PumpMoves \/ ProcessMoves
    /\ consumer = "waiting" =>
           \/ ConsumerMoves \/ ScannerMoves \/ PumpMoves \/ ProcessMoves
           \/ codex = "writing" /\ scanErr = "toolong" /\ runErr = "none"

(* What the shutdown has done by each of its stages.                       *)
Closing ==
    /\ consumer \in {"draining", "waiting", "returned"} =>
           ~ stdinOpen /\ (runErr # "none" => signalled)
    /\ ctx # "live" => signalled
    /\ consumer = "returned" => codex = "exited"

(* Every step keeps the stages of the shutdown.                            *)
LEMMA ClosingStep ==
    ASSUME FlagsOK, ControlOK, Closing, [Next]_vars
    PROVE  Closing'
<1> USE DEF Closing
<1>1. CASE Codex
  <2>1. /\ UNCHANGED <<stdinOpen, signalled, consumer, runErr, ctx>>
        /\ codex # "exited"
    BY <1>1, Zenon DEF Codex, CodexWants, CodexWrites, CodexReads, CodexExits, status, session
  <2> QED
    BY <2>1
<1>2. CASE CtxEnds
  BY <1>2 DEF CtxEnds
<1>3. CASE Reader
  <2>1. UNCHANGED <<codex, stdinOpen, signalled, consumer, runErr, ctx>>
    BY <1>3, Zenon DEF Reader, ScanLine, ScanEnds, ScanTooLong, PumpTakes, PumpCloses,
       DrainTakes, DrainEnds, process, status, session
  <2> QED
    BY <2>1
<1>4. CASE Consumer
  <2>1. CASE Close
    BY <2>1 DEF Close, AfterClose
  <2>2. CASE Drained
    BY <2>2 DEF Drained, ConsumerGoes, process, status
  <2>3. CASE DrainLine
    BY <2>3 DEF DrainLine, Consume, process, status
  <2>4. CASE Wait
    BY <2>4 DEF Wait, process, status
  <2>5. CASE ReadLine
    BY <2>5 DEF ReadLine, Consume, process, status
  <2>6. CASE BeginRead \/ ReadClosed \/ ReadCancelled \/ ReadTimesOut
    BY <2>6 DEF BeginRead, ReadClosed, ReadCancelled, ReadTimesOut, SessionEnds, ConsumerGoes,
       process, status
  <2>7. CASE ToolDone \/ WriteReply \/ WriteTimesOut \/ WriteBroken
    BY <2>7 DEF ToolDone, WriteReply, WriteTimesOut, WriteBroken, SessionEnds, ConsumerGoes,
       process, status
  <2> QED
    BY <1>4, <2>1, <2>2, <2>3, <2>4, <2>5, <2>6, <2>7 DEF Consumer
<1>5. CASE UNCHANGED vars
  BY <1>5 DEF vars, process, status, session
<1> QED
  BY <1>1, <1>2, <1>3, <1>4, <1>5 DEF Next

(* The shutdown goes through its stages in order (CodexAppServerRunner.Run,*)
(* Close): once it drains, stdin is closed and a failed session's process  *)
(* has been told to end.                                                   *)
LEMMA ClosingHolds == Spec => []Closing
<1>1. Init => Closing
  BY DEF Init, Closing
<1>2. Inv /\ Closing /\ [Next]_vars => Closing'
  BY ClosingStep DEF Inv, TypeOK
<1> QED
  BY <1>1, <1>2, Invariance, PTL DEF Spec

(* Output keeps flowing for every size of the pipe and of the backlog: a   *)
(* full pipe always has a reader (startStdoutReader, pumpStdoutLines).     *)
THEOREM OutputHasReader == Spec => []BlockedWriteIsRead
<1>1. ASSUME Inv, Closing PROVE BlockedWriteIsRead
  <2> SUFFICES ASSUME codex = "writing", Len(stdout) >= StdoutCap, scanErr # "toolong"
               PROVE  ScannerMoves \/ (scan = "sending" /\ PumpMoves)
    BY DEF BlockedWriteIsRead
  <2>1. stdout # <<>>
    BY TransportAssumption
  <2>2. scan # "done"
    BY <1>1 DEF Inv, TypeOK, ControlOK, ReaderState, Closing
  <2>3. CASE scan = "scanning"
    BY <2>1, <2>3 DEF ScannerMoves
  <2>4. CASE scan = "sending"
    BY <1>1, <2>4 DEF Inv, ReaderState, PumpMoves
  <2> QED
    BY <1>1, <2>2, <2>3, <2>4 DEF Inv, TypeOK, ControlOK
<1> QED
  BY <1>1, Invariance, ClosingHolds, PTL

(* Run's shutdown cannot deadlock with the goroutines it joins or with the *)
(* process it waits for, for every size of the pipes and of the backlog    *)
(* (CodexAppServerRunner.Run).                                             *)
THEOREM ShutdownIsNeverStuck == Spec => []ShutdownMoves
<1>1. ASSUME Inv, Closing PROVE ShutdownMoves
  <2>1. /\ scan \in {"scanning", "sending", "done"} /\ pump \in {"running", "draining", "done"}
        /\ codex \in {"ready", "writing", "exited"} /\ stdin \in Nat
        /\ pump = "done" => scan = "done"
    BY <1>1, TransportAssumption DEF Inv, TypeOK, ControlOK, LinesOK, ReaderState
  <2>2. stdout = <<>> => Len(stdout) < StdoutCap
    BY TransportAssumption
  <2>3. ASSUME consumer = "draining"
        PROVE  ConsumerMoves \/ ScannerMoves \/ PumpMoves \/ ProcessMoves
    <3>1. CASE pump # "running" \/ queue # <<>>
      BY <2>3, <3>1 DEF ConsumerMoves, readClosed
    <3>2. CASE pump = "running" /\ queue = <<>> /\ scan # "scanning"
      BY <2>1, <3>2 DEF PumpMoves
    <3>3. CASE scan = "scanning" /\ (stdout # <<>> \/ codex = "exited")
      BY <3>3 DEF ScannerMoves
    <3>4. CASE stdout = <<>> /\ codex # "exited"
      BY <1>1, <2>1, <2>2, <2>3, <3>4 DEF Closing, ProcessMoves
    <3> QED
      BY <3>1, <3>2, <3>3, <3>4
  <2>4. ASSUME consumer = "waiting"
        PROVE  \/ ConsumerMoves \/ ScannerMoves \/ PumpMoves \/ ProcessMoves
               \/ codex = "writing" /\ scanErr = "toolong" /\ runErr = "none"
    <3>1. ~ stdinOpen /\ (runErr # "none" => signalled)
      BY <1>1, <2>4 DEF Closing
    <3>2. CASE codex = "exited"
      BY <2>4, <3>2 DEF ConsumerMoves
    <3>3. CASE codex = "ready"
      BY <3>1, <3>3 DEF ProcessMoves
    <3>4. CASE codex = "writing" /\ (signalled \/ Len(stdout) < StdoutCap)
      BY <3>4 DEF ProcessMoves
    <3>5. CASE codex = "writing" /\ scan # "done" /\ stdout # <<>>
      BY <2>1, <3>5 DEF ScannerMoves, PumpMoves
    <3>6. CASE codex = "writing" /\ scan = "done"
      <4>1. scanErr = "toolong"
        BY <1>1, <2>4, <3>6 DEF Inv, TypeOK, ControlOK, ReaderState
      <4> QED
        BY <3>1, <3>4, <3>6, <4>1
    <3> QED
      BY <2>1, <2>2, <3>2, <3>3, <3>4, <3>5, <3>6
  <2> QED
    BY <2>3, <2>4 DEF ShutdownMoves
<1> QED
  BY <1>1, Invariance, ClosingHolds, PTL
=============================================================================
