------------------------------ MODULE AgentSession ------------------------------
(***************************************************************************)
(* A session of the worker with its codex app-server: the handshake, the   *)
(* turns, the requests the server makes of the worker meanwhile, the reads *)
(* of the issue between turns, and what the orchestrator's actor keeps of  *)
(* the events (turns completed, tokens used, the budget of the claim).     *)
(*                                                                         *)
(* The server is codex, modelled from what the client accepts: it answers  *)
(* the client's requests in its own time, may put a request of its own     *)
(* before any answer, blocks until that one is answered, and may repeat    *)
(* the end of a turn until it answers for the next.  The pipes below the   *)
(* messages are module AppServerTransport.                                 *)
(***************************************************************************)
EXTENDS Naturals, Sequences

CONSTANTS Policies,   \* codex.approval_policy values considered
          TurnLimit,  \* agent.max_turns, or what is left of the clean-turn budget
          Budget,     \* agent.max_tokens_per_claim; 0 is none
          MaxWire,    \* bound on messages in flight
          MaxAsks,    \* bound on requests and stray lines the server sends in a session
          MaxTokens,  \* bound on tokens used in a session
          MaxRuns     \* bound on sessions

ASSUME Sizes ==
  /\ TurnLimit \in Nat \ {0} /\ Budget \in Nat /\ MaxWire \in Nat \ {0}
  /\ MaxAsks \in Nat /\ MaxTokens \in Nat /\ MaxRuns \in Nat \ {0}

VARIABLES
  policy,     \* the approval policy of the workflow
  refresher,  \* whether the worker can read the issue between turns
  srv,        \* the server
  wire,       \* its messages, not yet read
  cl,         \* the client
  acc,        \* what the actor has folded from the events
  real        \* tokens used so far, over all sessions

vars == <<policy, refresher, srv, wire, cl, acc, real>>

Asks == {"command", "permissions", "userinput", "question", "elicitation", "tool", "unknown"}
Ends == {"completed", "failed", "cancelled"}
Strays == {"malformed", "noise", "needsinput"}
Pending == {"initialize", "thread", "turn"}
Results ==
  {"none", "clean", "inactive", "write", "response", "decode", "input", "turn", "timeout", "exit",
   "cancelled", "refresh"}

Messages == [m : Asks \cup Ends \cup Strays \cup {"reply", "error", "note"}, turn : Nat, tokens : Nat]
Servers ==
  [is : {"free", "waiting", "gone"}, owes : Pending \cup {"none"}, turn : Nat, ended : Nat,
   used : Nat, before : Nat, asks : Nat]
Clients ==
  [at : {"send", "wait", "turn", "refresh", "over"}, asked : Pending, turn : Nat,
   ctx : {"live", "done"}, heard : Nat, result : Results]
Actors == [turns : Nat, tokens : Nat, totals : Nat, runs : Nat]

NewServer ==
  [is |-> "free", owes |-> "none", turn |-> 0, ended |-> 0, used |-> 0, before |-> 0, asks |-> 0]
NewClient ==
  [at |-> "send", asked |-> "initialize", turn |-> 0, ctx |-> "live", heard |-> 0, result |-> "none"]

TypeOK ==
  /\ srv \in Servers /\ cl \in Clients /\ acc \in Actors
  /\ wire \in Seq(Messages) /\ real \in Nat

Init ==
  /\ policy \in Policies /\ refresher \in BOOLEAN
  /\ srv = NewServer /\ wire = <<>> /\ cl = NewClient
  /\ acc = [turns |-> 0, tokens |-> 0, totals |-> 0, runs |-> 1]
  /\ real = 0
-----------------------------------------------------------------------------
(* The server.                                                             *)

Message(m, turn, tokens) == [m |-> m, turn |-> turn, tokens |-> tokens]

Say(m, turn, tokens) ==
  /\ Len(wire) < MaxWire
  /\ wire' = Append(wire, Message(m, turn, tokens))

CanSpeak == srv.is = "free" /\ cl.at # "over"

ServerAnswers ==
  /\ CanSpeak /\ srv.owes # "none"
  /\ \/ Say("reply", 0, 0) /\ srv' = [srv EXCEPT
            !.owes = "none", !.turn = IF srv.owes = "turn" THEN cl.turn ELSE 0]
     \/ Say("error", 0, 0) /\ srv' = [srv EXCEPT !.owes = "none"]
  /\ UNCHANGED <<policy, refresher, cl, acc, real>>

ServerAsks ==
  /\ CanSpeak /\ srv.asks < MaxAsks
  /\ \E a \in Asks : Say(a, 0, 0)
  /\ srv' = [srv EXCEPT !.asks = @ + 1, !.is = "waiting"]
  /\ UNCHANGED <<policy, refresher, cl, acc, real>>

(* A line that is not JSON but looks like a message, or does not.          *)
ServerStrays ==
  /\ CanSpeak /\ srv.asks < MaxAsks
  /\ \E m \in Strays : Say(m, 0, 0)
  /\ srv' = [srv EXCEPT !.asks = @ + 1]
  /\ UNCHANGED <<policy, refresher, cl, acc, real>>

(* A notification with the tokens the thread has used so far.              *)
ServerWorks ==
  /\ CanSpeak /\ srv.turn > 0 /\ srv.used < MaxTokens
  /\ srv' = [srv EXCEPT !.used = @ + 1]
  /\ real' = real + 1
  /\ Say("note", srv.turn, srv'.used)
  /\ UNCHANGED <<policy, refresher, cl, acc>>

(* The end of a turn carries the tokens of the turn alone.                 *)
ServerEndsTurn ==
  /\ CanSpeak /\ srv.turn > 0
  /\ \E e \in Ends : Say(e, srv.turn, srv.used - srv.before)
  /\ srv' = [srv EXCEPT !.ended = srv.turn, !.turn = 0, !.before = srv.used]
  /\ UNCHANGED <<policy, refresher, cl, acc, real>>

ServerRepeatsEnd ==
  /\ CanSpeak /\ srv.ended > 0 /\ srv.turn = 0 /\ srv.asks < MaxAsks
  /\ \E e \in Ends : Say(e, srv.ended, 0)
  /\ srv' = [srv EXCEPT !.asks = @ + 1]
  /\ UNCHANGED <<policy, refresher, cl, acc, real>>

ServerExits ==
  /\ srv.is # "gone" /\ cl.at # "over"
  /\ srv' = [srv EXCEPT !.is = "gone"]
  /\ UNCHANGED <<policy, refresher, wire, cl, acc, real>>
-----------------------------------------------------------------------------
(* The client.  A failed write, as to a process that has exited, ends the  *)
(* session.                                                                *)

Over(result) == [cl EXCEPT !.at = "over", !.result = result]

SendRequest ==
  /\ cl.at = "send"
  /\ \/ srv.is # "gone" /\ cl' = [cl EXCEPT !.at = "wait"] /\ srv' = [srv EXCEPT !.owes = cl.asked]
     \/ cl' = Over("write") /\ UNCHANGED srv
  /\ UNCHANGED <<policy, refresher, wire, acc, real>>

(* What a response leads to: the next request of the handshake, or the     *)
(* stream of the turn.                                                     *)
Responded ==
  CASE cl.asked = "initialize" -> [cl EXCEPT !.at = "send", !.asked = "thread"]
    [] cl.asked = "thread" -> [cl EXCEPT !.at = "send", !.asked = "turn", !.turn = 1]
    [] cl.asked = "turn" -> [cl EXCEPT !.at = "turn"]

ResponseForID(msg) == IF msg.m = "reply" THEN Responded ELSE Over("response")

autoApproveRequest(ask) ==
  CASE policy \in {"never", "on-failure"} -> TRUE
    [] policy = "granular-rules" -> ask = "command"
    [] policy = "granular-permissions" -> ask = "permissions"
    [] OTHER -> FALSE

(* Only calls of tools are approved, and only when approval is never asked. *)
toolUserInputApproved == policy = "never"

(* Requests after which the session goes on.  Those that only a person can *)
(* grant end it; all but questions are answered first, with a refusal.  A  *)
(* userinput asks to approve tool calls, a question anything else.         *)
GoesOn(ask) ==
  CASE ask \in {"command", "permissions"} -> autoApproveRequest(ask)
    [] ask = "userinput" -> toolUserInputApproved
    [] ask \in {"question", "elicitation"} -> FALSE
    [] ask \in {"tool", "unknown"} -> TRUE

Answered(ask) == ask \notin {"userinput", "question"} \/ GoesOn(ask)

HandleServerRequest(ask) ==
  \/ /\ srv.is # "gone" \/ ~ Answered(ask)
     /\ srv' = IF Answered(ask) THEN [srv EXCEPT !.is = "free"] ELSE srv
     /\ cl' = IF GoesOn(ask) THEN cl ELSE Over("input")
  \/ Answered(ask) /\ cl' = Over("write") /\ UNCHANGED srv

(* Mutant: before the response, a request is taken for a notification.     *)
InterleavedAsNotification(msg) == UNCHANGED <<cl, srv>>

(* Mutant: the end of a turn counts also before the response.              *)
InterleavedEndsTurn(msg) ==
  IF msg.m = "completed"
  THEN cl' = [cl EXCEPT !.at = "refresh", !.heard = msg.turn] /\ UNCHANGED srv
  ELSE IF msg.m \in Asks THEN HandleServerRequest(msg.m) ELSE UNCHANGED <<cl, srv>>

(* Before the response to a request: what the server asks is answered as   *)
(* during a turn, notifications are passed over.                           *)
DispatchInterleavedMessage(msg) ==
  IF msg.m \in Asks THEN HandleServerRequest(msg.m) ELSE UNCHANGED <<cl, srv>>

CanRead == wire # <<>> /\ cl.ctx = "live"

ReadWhileWaiting ==
  /\ cl.at = "wait" /\ CanRead
  /\ LET msg == Head(wire)
     IN  CASE msg.m \in {"reply", "error"} -> cl' = ResponseForID(msg) /\ UNCHANGED srv
           [] msg.m \in {"malformed", "noise"} -> cl' = Over("decode") /\ UNCHANGED srv
           [] OTHER -> DispatchInterleavedMessage(msg)
  /\ wire' = Tail(wire)
  /\ UNCHANGED <<policy, refresher, acc, real>>

(* Mutant: a report counts in full, not only what it adds to the last one. *)
AddReport(tokens) == tokens

PositiveDelta(next, prev) == IF next <= prev THEN 0 ELSE next - prev

ReportedDelta(tokens) == PositiveDelta(tokens, acc.tokens)

(* The actor's fold of an event: the claim's tokens are the largest total  *)
(* reported, and the worker is cancelled once they exceed the budget.      *)
Fold(msg) ==
  acc' = [acc EXCEPT !.turns = IF msg.m = "completed" THEN @ + 1 ELSE @,
                     !.tokens = IF msg.tokens > @ THEN msg.tokens ELSE @,
                     !.totals = @ + ReportedDelta(msg.tokens)]

BudgetExceeded == Budget > 0 /\ acc.tokens <= Budget /\ acc'.tokens > Budget

(* The fold waits for the actor, but no longer than the run's context: an  *)
(* event that meets its cancellation is lost.                              *)
RecordRuntimeEvent(msg, next) ==
  \/ Fold(msg) /\ cl' = [next EXCEPT !.ctx = IF BudgetExceeded THEN "done" ELSE "live"]
  \/ cl' = [next EXCEPT !.ctx = "done"] /\ UNCHANGED acc

ReadInTurn ==
  /\ cl.at = "turn" /\ CanRead
  /\ LET msg == Head(wire)
     IN  CASE msg.m = "completed" ->
                /\ RecordRuntimeEvent(msg, [cl EXCEPT !.at = "refresh", !.heard = msg.turn])
                /\ UNCHANGED srv
           [] msg.m \in {"failed", "cancelled"} ->
                cl' = Over("turn") /\ UNCHANGED <<srv, acc>>
           [] msg.m = "note" -> RecordRuntimeEvent(msg, cl) /\ UNCHANGED srv
           [] msg.m = "needsinput" -> cl' = Over("input") /\ UNCHANGED <<srv, acc>>
           [] msg.m = "noise" -> cl' = Over("decode") /\ UNCHANGED <<srv, acc>>
           [] msg.m \in Asks -> HandleServerRequest(msg.m) /\ UNCHANGED acc
           [] OTHER -> UNCHANGED <<cl, srv, acc>>
  /\ wire' = Tail(wire)
  /\ UNCHANGED <<policy, refresher, real>>

(* Nothing to read: the process has exited, or the read, the turn or the   *)
(* stall timeout passes.                                                   *)
ReadEnds ==
  /\ cl.at \in {"wait", "turn"} /\ wire = <<>> /\ cl.ctx = "live"
  /\ cl' = Over(IF srv.is = "gone" THEN "exit" ELSE "timeout")
  /\ UNCHANGED <<policy, refresher, srv, wire, acc, real>>

Cancel ==
  /\ cl.at # "over" /\ cl.ctx = "live"
  /\ cl' = [cl EXCEPT !.ctx = "done"]
  /\ UNCHANGED <<policy, refresher, srv, wire, acc, real>>

SeesCancel ==
  /\ cl.at \in {"wait", "turn", "refresh"} /\ cl.ctx = "done"
  /\ cl.at = "refresh" => refresher
  /\ cl' = Over("cancelled")
  /\ UNCHANGED <<policy, refresher, srv, wire, acc, real>>

(* Between turns the tracker alone decides; without a reader the session   *)
(* is the one turn.                                                        *)
RefreshIssue ==
  /\ cl.at = "refresh"
  /\ \/ ~ refresher /\ cl' = Over("clean")
     \/ /\ refresher /\ cl.ctx = "live"
        /\ \/ cl' = Over("inactive")
           \/ cl' = IF cl.turn < TurnLimit
                    THEN [cl EXCEPT !.at = "send", !.asked = "turn", !.turn = @ + 1]
                    ELSE Over("clean")
           \/ cl' = Over("refresh")
  /\ UNCHANGED <<policy, refresher, srv, wire, acc, real>>

(* The next attempt of the claim's issue: a new process and a new entry.   *)
NextRun ==
  /\ cl.at = "over" /\ acc.runs < MaxRuns
  /\ srv' = NewServer /\ wire' = <<>> /\ cl' = NewClient
  /\ acc' = [acc EXCEPT !.turns = 0, !.tokens = 0, !.runs = @ + 1]
  /\ UNCHANGED <<policy, refresher, real>>

Client ==
  \/ SendRequest \/ ReadWhileWaiting \/ ReadInTurn \/ SeesCancel \/ RefreshIssue

Next ==
  \/ Client \/ ReadEnds \/ Cancel \/ NextRun
  \/ ServerAnswers \/ ServerAsks \/ ServerStrays \/ ServerWorks
  \/ ServerEndsTurn \/ ServerRepeatsEnd \/ ServerExits

Spec == Init /\ [][Next]_vars

(* The client's goroutine runs.  Nothing is assumed of the server, and no  *)
(* timeout is: they may all be configured away.                            *)
FairSpec == Spec /\ WF_vars(Client)
-----------------------------------------------------------------------------
(* A server that asks something is never left waiting: it is answered or   *)
(* the session ends, also while the client itself waits for an answer,     *)
(* when leaving it would make each wait for the other                      *)
(* (dispatchInterleavedMessage, handleServerRequest).                      *)
ServerIsAnswered == srv.is = "waiting" ~> srv.is # "waiting" \/ cl.at = "over"

(* The client goes on after a turn only when the server has ended this     *)
(* very turn, though ends carry no checked turn id and may be repeated     *)
(* while the next turn is being started; and a clean exit has counted each *)
(* turn once (awaitTurnCompletion, request, recordSessionFields).          *)
TurnEndsByItsOwnWord ==
  /\ cl.at = "refresh" => cl.heard = cl.turn /\ srv.ended = cl.turn
  /\ cl.result \in {"clean", "inactive"} /\ cl.ctx = "live" => acc.turns = cl.turn

(* Whatever mix of running totals and per-turn amounts is reported, over   *)
(* however many sessions, no token is counted twice (applyTokenUsage).     *)
NoTokenCountedTwice == acc.totals <= real
=============================================================================
