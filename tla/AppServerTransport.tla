------------------------- MODULE AppServerTransport -------------------------
(***************************************************************************)
(* The stdio transport between a worker and its codex app-server process:  *)
(* the process, the two pipes, the goroutine that scans stdout, the pump   *)
(* that buffers the scanned lines, and the goroutine that consumes them,   *)
(* answers tool calls over stdin and finally shuts the process down        *)
(* (CodexAppServerRunner.Run, codex_app_server_transport.go).              *)
(*                                                                         *)
(* A line is its number in the order of writing.  What it says is decided  *)
(* when it is consumed: nothing before that looks at it.                   *)
(***************************************************************************)
EXTENDS Naturals, Sequences

CONSTANTS
    MaxLines,       \* bound on the lines the process writes
    StdoutCap,      \* what the stdout pipe holds
    StdinCap,       \* what the stdin pipe holds
    BacklogCap,     \* maxAppServerBufferedBytes, in lines
    LongLines       \* lines over maxAppServerLineBytes may be written

ASSUME TransportAssumption ==
    /\ MaxLines \in Nat /\ BacklogCap \in Nat
    /\ StdoutCap \in Nat \ {0} /\ StdinCap \in Nat \ {0}
    /\ LongLines \in BOOLEAN

VARIABLES
    codex,      \* the process: it is ready, blocked in a write, or has exited
    signalled,  \* it was sent SIGTERM, with SIGKILL to follow
    exitBad,    \* cmd.Wait will report an error
    written,    \* how many lines it has written
    stdout,     \* the lines in the stdout pipe
    stdin,      \* how many messages are in the stdin pipe
    stdinOpen,  \* the worker has not closed stdin
    scan,       \* the scanning goroutine
    held,       \* the line it is handing over
    scanErr,    \* why it stopped
    pump,       \* the pump goroutine, or the drain it leaves behind
    queue,      \* the scanned lines not consumed yet
    readErr,    \* what a read reports after the channel is closed
    consumer,   \* the goroutine that runs the session
    consumed,   \* how many lines it has received
    runErr,     \* how the session ended
    ctx,        \* whether the run was cancelled or its deadline has passed
    outcome     \* what Run returned

status == <<signalled, exitBad>>
process == <<codex, written, stdin, stdinOpen, status>>
reader == <<scan, held, scanErr, pump, queue, readErr>>
session == <<consumer, consumed, runErr, ctx, outcome>>
vars == <<process, stdout, reader, session>>

Init ==
    /\ codex = "ready" /\ written = 0
    /\ signalled = FALSE /\ exitBad = FALSE
    /\ stdout = <<>> /\ stdin = 0 /\ stdinOpen = TRUE
    /\ scan = "scanning" /\ held = <<>> /\ scanErr = "none"
    /\ pump = "running" /\ queue = <<>> /\ readErr = "none"
    /\ consumer = "idle" /\ consumed = 0
    /\ runErr = "none" /\ ctx = "live" /\ outcome = "none"
-----------------------------------------------------------------------------
(* The process.  It may write at any time, without waiting for replies; it *)
(* reads its stdin only while it is not blocked writing.                   *)

CodexWants ==
    /\ codex = "ready" /\ written < MaxLines
    /\ codex' = "writing"
    /\ UNCHANGED <<written, stdin, stdinOpen, status, stdout, reader, session>>

CodexWrites ==
    /\ codex = "writing" /\ Len(stdout) < StdoutCap
    /\ codex' = "ready"
    /\ written' = written + 1
    /\ stdout' = Append(stdout, written')
    /\ UNCHANGED <<stdin, stdinOpen, status, reader, session>>

CodexReads ==
    /\ codex = "ready" /\ stdin > 0
    /\ stdin' = stdin - 1
    /\ UNCHANGED <<codex, written, stdinOpen, status, stdout, reader, session>>

(* It exits at end of file on stdin, by itself, or killed.  cmd.Wait       *)
(* reports a bad status, and an exit after the context has ended.          *)
CodexExits ==
    /\ codex = "ready" \/ (codex = "writing" /\ signalled)
    /\ codex' = "exited"
    /\ exitBad' \in IF ctx = "live" THEN BOOLEAN ELSE {TRUE}
    /\ UNCHANGED <<written, stdin, stdinOpen, signalled, stdout, reader, session>>

(* The run is cancelled or its deadline passes: os/exec terminates the     *)
(* process, or has no time left to see that it was gone already.           *)
CtxEnds ==
    /\ ctx = "live" /\ consumer # "returned"
    /\ ctx' \in {"cancelled", "deadline"}
    /\ signalled' = TRUE
    /\ exitBad' \in IF codex = "exited" THEN {exitBad, TRUE} ELSE {exitBad}
    /\ UNCHANGED <<codex, written, stdin, stdinOpen, stdout, reader, consumer, consumed,
                   runErr, outcome>>
-----------------------------------------------------------------------------
(* The scanning goroutine.                                                 *)

ScanLine ==
    /\ scan = "scanning" /\ stdout # <<>>
    /\ scan' = "sending"
    /\ held' = <<Head(stdout)>>
    /\ stdout' = Tail(stdout)
    /\ UNCHANGED <<process, scanErr, pump, queue, readErr, session>>

(* A clean end is no error to the scanner; it is made one.                 *)
scanTerminalError == "eof"

(* End of file, or the read end was closed by cmd.Wait.                    *)
ScanEnds ==
    /\ scan = "scanning"
    /\ \/ stdout = <<>> /\ codex = "exited"
       \/ consumer = "returned"
    /\ scan' = "done"
    /\ scanErr' = scanTerminalError
    /\ UNCHANGED <<process, stdout, held, pump, queue, readErr, session>>

(* A line is too long: the scanner stops, the process may go on writing.   *)
ScanTooLong ==
    /\ LongLines
    /\ scan = "scanning" /\ stdout # <<>>
    /\ scan' = "done"
    /\ scanErr' = "toolong"
    /\ UNCHANGED <<process, stdout, held, pump, queue, readErr, session>>
-----------------------------------------------------------------------------
(* The pump (pumpStdoutLines).  readCh is closed once it has stopped.      *)

readClosed == pump # "running"

(* Mutants: the newest line is sent first; an overflow leaves nobody to    *)
(* read on.                                                                *)
NextLineNewest(q) == q[Len(q)]
AfterOverflowStop == "done"

NextLine(q) == Head(q)
WithinBacklog(q) == Len(q) <= BacklogCap
OverflowError == "overflow"
AfterOverflow == "draining"

(* Mutant: a line is taken only once the last one has been consumed.       *)
PumpTakesWhenIdle ==
    /\ pump = "running" /\ scan = "sending" /\ queue = <<>>
    /\ queue' = held
    /\ scan' = "scanning" /\ held' = <<>>
    /\ UNCHANGED <<process, stdout, scanErr, pump, readErr, session>>

PumpTakes ==
    /\ pump = "running" /\ scan = "sending"
    /\ LET q == queue \o held
       IN  IF WithinBacklog(q)
           THEN /\ queue' = q
                /\ UNCHANGED <<pump, readErr>>
           ELSE /\ queue' = <<>>
                /\ pump' = AfterOverflow
                /\ readErr' = OverflowError
    /\ scan' = "scanning" /\ held' = <<>>
    /\ UNCHANGED <<process, stdout, scanErr, session>>

PumpCloses ==
    /\ pump = "running" /\ scan = "done" /\ queue = <<>>
    /\ pump' = "done"
    /\ readErr' = scanErr
    /\ UNCHANGED <<process, stdout, scan, held, scanErr, queue, session>>

(* The goroutine an overflow leaves behind discards what is scanned.       *)
DrainTakes ==
    /\ pump = "draining" /\ scan = "sending"
    /\ scan' = "scanning" /\ held' = <<>>
    /\ UNCHANGED <<process, stdout, scanErr, pump, queue, readErr, session>>

DrainEnds ==
    /\ pump = "draining" /\ scan = "done"
    /\ pump' = "done"
    /\ UNCHANGED <<process, stdout, scan, held, scanErr, queue, readErr, session>>
-----------------------------------------------------------------------------
(* The consumer.                                                           *)

Consume(next, err) ==
    /\ pump = "running" /\ queue # <<>>
    /\ consumer' = next
    /\ runErr' = err
    /\ consumed' = NextLine(queue)
    /\ queue' = Tail(queue)
    /\ UNCHANGED <<process, stdout, scan, held, scanErr, pump, readErr, ctx, outcome>>

ConsumerGoes(next) ==
    /\ consumer' = next
    /\ UNCHANGED <<process, stdout, reader, consumed, runErr, ctx, outcome>>

SessionEnds(err) ==
    /\ consumer' = "closing"
    /\ runErr' = err
    /\ UNCHANGED <<process, stdout, reader, consumed, ctx, outcome>>

(* readProtocolMessage looks at the context before it reads.               *)
BeginRead ==
    /\ consumer = "idle"
    /\ IF ctx = "live" THEN ConsumerGoes("reading") ELSE SessionEnds("ctx")

(* The next line makes the session go on, run a tool and owe a reply, end  *)
(* well, or fail.  During a turn, a context that has ended meanwhile wins  *)
(* (resolveTurnReadResult).                                                *)
ReadLine ==
    /\ consumer = "reading"
    /\ \/ \E next \in {"idle", "tool", "closing"} : Consume(next, "none")
       \/ Consume("closing", "failed")
       \/ ctx # "live" /\ Consume("closing", "ctx")

(* A deadline that has passed explains the end of the stream.              *)
ReadClosed ==
    /\ consumer = "reading" /\ readClosed
    /\ \/ ctx # "deadline" /\ SessionEnds(readErr)
       \/ ctx # "live" /\ SessionEnds("ctx")

ReadCancelled == consumer = "reading" /\ ctx # "live" /\ SessionEnds("ctx")

(* The timer of the read, or of the silence of the turn, expires.          *)
ReadTimesOut ==
    /\ consumer = "reading"
    /\ \/ SessionEnds("readTimeout")
       \/ ctx = "live" /\ \E err \in {"stall", "turnTimeout"} : SessionEnds(err)

(* A tool call has a deadline of its own.                                  *)
ToolDone == consumer = "tool" /\ ConsumerGoes("writing")

WriteReply ==
    /\ consumer = "writing" /\ codex # "exited" /\ stdin < StdinCap
    /\ stdin' = stdin + 1
    /\ consumer' = "idle"
    /\ UNCHANGED <<codex, written, stdinOpen, status, stdout, reader, consumed, runErr, ctx,
                   outcome>>

(* appServerStdinWriteTimeout.                                             *)
WriteTimesOut == consumer = "writing" /\ stdin = StdinCap /\ SessionEnds("write")

WriteBroken == consumer = "writing" /\ codex = "exited" /\ SessionEnds("write")

AfterClose == "draining"

(* A failed session terminates the process; then stdin is closed.  The     *)
(* mutant leaves it open.                                                  *)
CloseWithoutEof ==
    /\ consumer = "closing"
    /\ signalled' = (signalled \/ (runErr # "none" /\ ctx = "live"))
    /\ consumer' = AfterClose
    /\ UNCHANGED <<codex, written, stdin, stdinOpen, exitBad, stdout, reader, consumed, runErr,
                   ctx, outcome>>

Close ==
    /\ consumer = "closing"
    /\ signalled' = (signalled \/ (runErr # "none" /\ ctx = "live"))
    /\ stdinOpen' = FALSE
    /\ consumer' = AfterClose
    /\ UNCHANGED <<codex, written, stdin, exitBad, stdout, reader, consumed, runErr, ctx,
                   outcome>>

DrainLine == consumer = "draining" /\ Consume("draining", runErr)

Drained == consumer = "draining" /\ readClosed /\ ConsumerGoes("waiting")

(* classifyAppServerOutcome, classifyAppServerProcessExit.  The mutant     *)
(* looks at the exit status before it looks at the deadline.               *)
Categorized == {"turnTimeout", "overflow", "failed"}

classifyAppServerOutcomeExitFirst ==
    IF runErr = "none" /\ ~ exitBad THEN "success"
    ELSE IF runErr \in {"stall", "readTimeout"} THEN runErr
    ELSE IF exitBad THEN "portExit"
    ELSE IF ctx = "deadline" THEN "timeout"
    ELSE runErr

classifyAppServerOutcome ==
    IF runErr = "none" /\ ~ exitBad THEN "success"
    ELSE IF runErr \in {"stall", "readTimeout"} THEN runErr
    ELSE IF ctx = "deadline" THEN "timeout"
    ELSE IF runErr \in Categorized THEN runErr
    ELSE IF exitBad THEN "portExit"
    ELSE runErr

(* cmd.Wait, after which the read end of stdout is closed.                 *)
Wait ==
    /\ consumer = "waiting" /\ codex = "exited"
    /\ consumer' = "returned"
    /\ outcome' = classifyAppServerOutcome
    /\ UNCHANGED <<process, stdout, reader, consumed, runErr, ctx>>
-----------------------------------------------------------------------------
Codex == CodexWants \/ CodexWrites \/ CodexReads \/ CodexExits
Reader == ScanLine \/ ScanEnds \/ ScanTooLong \/ PumpTakes \/ PumpCloses
              \/ DrainTakes \/ DrainEnds
Consumer == BeginRead \/ ReadLine \/ ReadClosed \/ ReadCancelled \/ ReadTimesOut
                \/ ToolDone \/ WriteReply \/ WriteTimesOut \/ WriteBroken
                \/ Close \/ DrainLine \/ Drained \/ Wait

Next == Codex \/ CtxEnds \/ Reader \/ Consumer

Spec == Init /\ [][Next]_vars
-----------------------------------------------------------------------------
Errors == {"none", "eof", "toolong", "overflow", "stall", "readTimeout", "turnTimeout",
           "failed", "write", "ctx"}

FlagsOK == stdinOpen \in BOOLEAN /\ signalled \in BOOLEAN /\ exitBad \in BOOLEAN

LinesOK ==
    /\ written \in 0..MaxLines /\ consumed \in 0..MaxLines
    /\ stdin \in 0..StdinCap
    /\ stdout \in Seq(1..MaxLines) /\ queue \in Seq(1..MaxLines)
    /\ held \in Seq(1..MaxLines) /\ Len(held) <= 1

ControlOK ==
    /\ codex \in {"ready", "writing", "exited"}
    /\ scan \in {"scanning", "sending", "done"}
    /\ scanErr \in {"none", "eof", "toolong"}
    /\ pump \in {"running", "draining", "done"}
    /\ readErr \in Errors /\ runErr \in Errors
    /\ consumer \in {"idle", "reading", "tool", "writing", "closing", "draining", "waiting",
                     "returned"}
    /\ ctx \in {"live", "cancelled", "deadline"}
    /\ outcome \in Errors \cup {"success", "timeout", "portExit"}

TypeOK == FlagsOK /\ LinesOK /\ ControlOK

(* Until the backlog overflows or the scanner gives up, what the consumer  *)
(* has received, what is buffered at each stage and what is in the pipe    *)
(* are the written lines, in order and without a gap (pumpStdoutLines,     *)
(* lineQueue).                                                             *)
InFlight == queue \o held \o stdout

NoLineLost ==
    readErr # "overflow" =>
        /\ Len(InFlight) = written - consumed
        /\ \A n \in 1..Len(InFlight) : InFlight[n] = consumed + n

(* A session that ends because the stream ended has received all that was  *)
(* written before (scanTerminalError, readLineOnce).                       *)
EndOfFileIsComplete == runErr = "eof" => codex = "exited" /\ consumed = written

(* A closed channel always comes with its reason, so that the end of the   *)
(* stream is never taken for a clean end of the session (readErr is set    *)
(* before readCh is closed).                                               *)
ClosedHasReason == readClosed => readErr # "none"

(* The backlog stays within its bound whatever the process writes while    *)
(* the consumer runs a tool (maxAppServerBufferedBytes).                   *)
BacklogBounded == Len(queue) <= BacklogCap

(* Unless the backlog overflowed, no goroutine is left when Run returns:   *)
(* reading to the end joins them.                                          *)
ReadersJoined ==
    consumer = "returned" /\ readErr # "overflow" => scan = "done" /\ pump = "done"

(* A run that its deadline stopped is reported as a timeout and not as a   *)
(* process that exited, and a backlog overflow is reported as what it is   *)
(* although the worker itself then kills the process                       *)
(* (classifyAppServerOutcome).                                             *)
OutcomeNamesTheCause ==
    consumer = "returned" =>
        /\ runErr = "ctx" /\ ctx = "deadline" => outcome = "timeout"
        /\ runErr = "overflow" => outcome \in {"overflow", "timeout"}
        /\ outcome = "success" => runErr = "none"

(* The same without the exception, as the comment in Run has it.           *)
NoGoroutineOutlivesRun == consumer = "returned" => scan = "done" /\ pump = "done"
-----------------------------------------------------------------------------
(* Fairness.  Goroutines that can go on do; the process finishes a write   *)
(* that finds room, reads its stdin, and exits at end of file or when it   *)
(* is killed.  No timeout and no cancellation is assumed to help.          *)
CodexExitsAtEof == ((~ stdinOpen /\ stdin = 0) \/ signalled) /\ CodexExits

Fairness ==
    /\ WF_vars(CodexWrites) /\ WF_vars(CodexReads) /\ WF_vars(CodexExitsAtEof)
    /\ WF_vars(ScanLine) /\ WF_vars(ScanEnds)
    /\ WF_vars(PumpTakes) /\ WF_vars(PumpCloses)
    /\ WF_vars(DrainTakes) /\ WF_vars(DrainEnds)
    /\ WF_vars(BeginRead) /\ WF_vars(ReadLine) /\ WF_vars(ReadClosed) /\ WF_vars(ToolDone)
    /\ WF_vars(WriteReply) /\ WF_vars(WriteBroken) /\ WF_vars(Close)
    /\ WF_vars(DrainLine) /\ WF_vars(Drained) /\ WF_vars(Wait)

FairSpec == Spec /\ Fairness

(* A reply is written without help from its deadline: the process is never *)
(* stuck writing while the worker is stuck writing to it, since the pump   *)
(* keeps its stdout flowing (startStdoutReader), up to a line that is too  *)
(* long.                                                                   *)
ReplyGetsThrough ==
    consumer = "writing" ~> consumer # "writing" \/ scanErr = "toolong"

(* Once a session has ended, Run returns, except that after a good session *)
(* a line that is too long may leave it waiting for its deadline           *)
(* (CodexAppServerRunner.Run).                                             *)
RunReturns ==
    consumer = "closing" ~>
        consumer = "returned" \/ (scanErr = "toolong" /\ runErr = "none")

(* Overflow or not, the process never stays blocked in a write to a full   *)
(* pipe, up to a line that is too long (pumpStdoutLines).                  *)
OutputKeepsFlowing ==
    codex = "writing" ~> codex # "writing" \/ scanErr = "toolong"

(* The same without the exception, as the comment in Run has it.           *)
WritesComplete == codex = "writing" ~> codex # "writing"
=============================================================================
