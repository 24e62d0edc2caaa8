-------------------------- MODULE AgentSessionProofs --------------------------
(***************************************************************************)
(* Proofs about AgentSession, for any approval policy, turn limit, budget  *)
(* and number of sessions, messages and tokens.                            *)
(***************************************************************************)
EXTENDS AgentSession, TLAPS, SequenceTheorems

Words == Asks \cup Ends \cup Strays \cup {"reply", "error", "note"}

(* A session adds to the totals what its largest report is; what it has    *)
(* used and not reported is still to come.                                 *)
TokenInv ==
  /\ srv.before <= srv.used
  /\ \A n \in 1..Len(wire) : wire[n].tokens <= srv.used
  /\ acc.tokens <= srv.used
  /\ acc.totals + srv.used <= real + acc.tokens
-----------------------------------------------------------------------------
(* Nothing is counted at first.                                            *)
LEMMA InitTokens == Init => TypeOK /\ TokenInv
<1> SUFFICES ASSUME Init PROVE TypeOK /\ TokenInv
  OBVIOUS
<1>1. srv \in Servers /\ srv.before = 0 /\ srv.used = 0
  BY DEF Init, NewServer, Servers
<1>2. cl \in Clients
  BY DEF Init, NewClient, Clients, Pending, Results
<1>3. acc \in Actors /\ acc.tokens = 0 /\ acc.totals = 0
  BY DEF Init, Actors
<1>4. wire = <<>> /\ real = 0
  BY DEF Init
<1> QED
  BY <1>1, <1>2, <1>3, <1>4 DEF TypeOK, TokenInv

(* What a message added to the wire changes.                               *)
LEMMA Said ==
  ASSUME NEW m \in Words, NEW t \in Nat, NEW k \in Nat, wire \in Seq(Messages), Say(m, t, k)
  PROVE  /\ wire' \in Seq(Messages)
         /\ Len(wire') = Len(wire) + 1
         /\ wire'[Len(wire')] = [m |-> m, turn |-> t, tokens |-> k]
         /\ \A n \in 1..Len(wire) : wire'[n] = wire[n]
<1>1. Message(m, t, k) \in Messages
  BY DEF Message, Messages, Words
<1> QED
  BY <1>1 DEF Say, Message

(* What is left of the wire when its first message is taken.               *)
LEMMA Taken ==
  ASSUME wire \in Seq(Messages), wire # <<>>, wire' = Tail(wire)
  PROVE  /\ wire' \in Seq(Messages)
         /\ Len(wire') = Len(wire) - 1
         /\ \A n \in 1..Len(wire') : wire'[n] = wire[n + 1]
         /\ Head(wire) = wire[1] /\ 1 \in 1..Len(wire) /\ wire[1] \in Messages
OBVIOUS

(* What the handling of a request can change.                              *)
LEMMA Handled ==
  ASSUME NEW ask, HandleServerRequest(ask)
  PROVE  /\ srv' = srv \/ srv' = [srv EXCEPT !.is = "free"]
         /\ cl' = cl \/ cl' = Over("input") \/ cl' = Over("write")
BY DEF HandleServerRequest

(* Whatever the server says, if it claims no more tokens than it has used. *)
LEMMA SaysTokens ==
  ASSUME TypeOK, TokenInv, NEW m \in Words, NEW t \in Nat, NEW k \in Nat, Say(m, t, k),
         srv' \in Servers, srv'.before <= srv'.used, srv.used <= srv'.used, k <= srv'.used,
         real' = real + (srv'.used - srv.used), UNCHANGED <<cl, acc>>
  PROVE  TypeOK' /\ TokenInv'
<1>1. /\ srv.used \in Nat /\ srv'.used \in Nat /\ acc.tokens \in Nat /\ acc.totals \in Nat
      /\ real \in Nat /\ wire \in Seq(Messages)
  BY DEF TypeOK, Servers, Actors
<1>2. real' \in Nat
  BY <1>1
<1>3. /\ wire' \in Seq(Messages)
      /\ Len(wire') = Len(wire) + 1
      /\ wire'[Len(wire')] = [m |-> m, turn |-> t, tokens |-> k]
      /\ \A n \in 1..Len(wire) : wire'[n] = wire[n]
  BY <1>1, Said
<1>4. TypeOK'
  BY <1>2, <1>3 DEF TypeOK
<1>5. ASSUME NEW n \in 1..Len(wire') PROVE wire'[n].tokens <= srv'.used
  <2>1. CASE n = Len(wire')
    BY <2>1, <1>3
  <2>2. CASE n # Len(wire')
    <3>1. n \in 1..Len(wire) /\ wire'[n] = wire[n]
      BY <2>2, <1>1, <1>3
    <3>2. wire[n] \in Messages
      BY <3>1, <1>1
    <3>3. wire[n].tokens \in Nat /\ wire[n].tokens <= srv.used
      BY <3>1, <3>2 DEF Messages, TokenInv
    <3> QED
      BY <3>1, <3>3, <1>1
  <2> QED
    BY <2>1, <2>2
<1>6. acc'.tokens <= srv'.used /\ acc'.totals + srv'.used <= real' + acc'.tokens
  BY <1>1 DEF TokenInv
<1> QED
  BY <1>4, <1>5, <1>6 DEF TokenInv

(* The server's steps: a report is written for tokens not on the wire yet. *)
LEMMA ServerTokens ==
  ASSUME TypeOK, TokenInv,
         ServerAnswers \/ ServerAsks \/ ServerStrays \/ ServerWorks \/ ServerEndsTurn
           \/ ServerRepeatsEnd \/ ServerExits
  PROVE  TypeOK' /\ TokenInv'
<1>0. /\ srv \in Servers /\ cl.turn \in Nat /\ real \in Nat /\ srv.before <= srv.used
      /\ srv.used \in Nat /\ srv.before \in Nat /\ srv.turn \in Nat /\ srv.ended \in Nat
  BY DEF TypeOK, Servers, Clients, TokenInv
<1>1. CASE ServerAnswers
  <2>1. PICK m \in Words : Say(m, 0, 0)
    BY <1>1 DEF ServerAnswers, Words
  <2>2. UNCHANGED <<cl, acc, real>>
    BY <1>1 DEF ServerAnswers
  <2>3. srv' \in Servers /\ srv'.used = srv.used /\ srv'.before = srv.before
    <3> DEFINE k == IF srv.owes = "turn" THEN cl.turn ELSE 0
    <3>1. k \in Nat
      BY <1>0
    <3>2. \/ srv' = [srv EXCEPT !.owes = "none", !.turn = k]
          \/ srv' = [srv EXCEPT !.owes = "none"]
      BY <1>1 DEF ServerAnswers
    <3> HIDE DEF k
    <3> QED
      BY <3>1, <3>2, <1>0, Zenon DEF Servers
  <2> QED
    BY <2>1, <2>2, <2>3, <1>0, SaysTokens
<1>2. CASE ServerAsks \/ ServerStrays
  <2>1. PICK m \in Words : Say(m, 0, 0)
    <3>1. CASE ServerAsks
      BY <3>1 DEF ServerAsks, Words
    <3>2. CASE ServerStrays
      BY <3>2 DEF ServerStrays, Words
    <3> QED
      BY <1>2, <3>1, <3>2
  <2>2. UNCHANGED <<cl, acc, real>>
    BY <1>2 DEF ServerAsks, ServerStrays
  <2>3. srv' \in Servers /\ srv'.used = srv.used /\ srv'.before = srv.before
    <3>1. CASE srv' = [srv EXCEPT !.asks = @ + 1, !.is = "waiting"]
      <4> DEFINE k == srv.asks + 1
      <4>1. k \in Nat
        BY <1>0 DEF Servers
      <4>2. srv' = [srv EXCEPT !.asks = k, !.is = "waiting"]
        BY <3>1
      <4> HIDE DEF k
      <4> QED
        BY <1>0, <4>1, <4>2, Zenon DEF Servers
    <3>2. CASE srv' = [srv EXCEPT !.asks = @ + 1]
      BY <3>2, <1>0 DEF Servers
    <3> QED
      BY <1>2, <3>1, <3>2 DEF ServerAsks, ServerStrays
  <2> QED
    BY <2>1, <2>2, <2>3, <1>0, SaysTokens
<1>3. CASE ServerWorks
  <2>1. srv' = [srv EXCEPT !.used = @ + 1] /\ real' = real + 1 /\ UNCHANGED <<cl, acc>>
    BY <1>3 DEF ServerWorks
  <2>2. srv' \in Servers /\ srv'.used = srv.used + 1 /\ srv'.before = srv.before
    BY <2>1, <1>0 DEF Servers
  <2>3. Say("note", srv.turn, srv'.used)
    BY <1>3 DEF ServerWorks
  <2>4. "note" \in Words
    BY DEF Words
  <2>5. real' = real + (srv'.used - srv.used) /\ srv'.used \in Nat
    BY <2>1, <2>2, <1>0
  <2> QED
    BY <2>1, <2>2, <2>3, <2>4, <2>5, <1>0, SaysTokens
<1>4. CASE ServerEndsTurn
  <2>1. /\ srv' = [srv EXCEPT !.ended = srv.turn, !.turn = 0, !.before = srv.used]
        /\ UNCHANGED <<cl, acc, real>>
    BY <1>4 DEF ServerEndsTurn
  <2>2. PICK m \in Words : Say(m, srv.turn, srv.used - srv.before)
    BY <1>4 DEF ServerEndsTurn, Words
  <2>3. srv' \in Servers /\ srv'.used = srv.used /\ srv'.before = srv.used
    BY <2>1, <1>0, Zenon DEF Servers
  <2> DEFINE k == srv.used - srv.before
  <2>4. k \in Nat /\ k <= srv'.used
    BY <2>3, <1>0
  <2>5. Say(m, srv.turn, k)
    BY <2>2
  <2> HIDE DEF k
  <2> QED
    BY <2>1, <2>3, <2>4, <2>5, <1>0, SaysTokens
<1>5. CASE ServerRepeatsEnd
  <2>1. srv' = [srv EXCEPT !.asks = @ + 1] /\ UNCHANGED <<cl, acc, real>>
    BY <1>5 DEF ServerRepeatsEnd
  <2>2. PICK m \in Words : Say(m, srv.ended, 0)
    BY <1>5 DEF ServerRepeatsEnd, Words
  <2>3. srv' \in Servers /\ srv'.used = srv.used /\ srv'.before = srv.before
    BY <2>1, <1>0 DEF Servers
  <2> QED
    BY <2>1, <2>2, <2>3, <1>0, SaysTokens
<1>6. CASE ServerExits
  <2>1. srv' = [srv EXCEPT !.is = "gone"] /\ UNCHANGED <<wire, cl, acc, real>>
    BY <1>6 DEF ServerExits
  <2>2. srv' \in Servers /\ srv'.used = srv.used /\ srv'.before = srv.before
    BY <2>1, <1>0 DEF Servers
  <2> QED
    BY <2>1, <2>2 DEF TypeOK, TokenInv
<1> QED
  BY <1>1, <1>2, <1>3, <1>4, <1>5, <1>6

(* Reports raise the totals and the largest report by the same amount.     *)
LEMMA FoldTokens ==
  ASSUME TypeOK, TokenInv, NEW n \in 1..Len(wire), Fold(wire[n])
  PROVE  /\ acc' \in Actors
         /\ acc'.tokens <= srv.used
         /\ acc'.totals + srv.used <= real + acc'.tokens
<1>1. wire[n] \in Messages /\ wire[n].tokens <= srv.used
  BY DEF TypeOK, TokenInv
<1> DEFINE k == wire[n].tokens
<1>2. k \in Nat /\ k <= srv.used
  BY <1>1 DEF Messages
<1> HIDE DEF k
<1>3. /\ acc'.tokens = IF k > acc.tokens THEN k ELSE acc.tokens
      /\ acc'.totals = acc.totals + (IF k <= acc.tokens THEN 0 ELSE k - acc.tokens)
  BY <1>2 DEF TypeOK, Actors, Fold, ReportedDelta, PositiveDelta, k
<1>5. acc \in Actors /\ acc.tokens \in Nat /\ acc.totals \in Nat /\ srv.used \in Nat /\ real \in Nat
  BY DEF TypeOK, Actors, Servers
<1>6. acc'.tokens \in Nat /\ acc'.totals \in Nat
  BY <1>2, <1>3, <1>5
<1>4. acc' \in Actors
  <2> DEFINE a == IF wire[n].m = "completed" THEN acc.turns + 1 ELSE acc.turns
             b == IF wire[n].tokens > acc.tokens THEN wire[n].tokens ELSE acc.tokens
             c == acc.totals + ReportedDelta(wire[n].tokens)
  <2>1. acc' = [acc EXCEPT !.turns = a, !.tokens = b, !.totals = c]
    BY DEF Fold
  <2>2. a \in Nat
    BY <1>5 DEF Actors
  <2> HIDE DEF a, b, c
  <2>3. b = acc'.tokens /\ c = acc'.totals
    BY <2>1, <1>5 DEF Actors
  <2> QED
    BY <2>1, <2>2, <2>3, <1>5, <1>6, Zenon DEF Actors
<1> QED
  BY <1>2, <1>3, <1>4, <1>5 DEF TokenInv

(* A step that says nothing new.                                           *)
LEMMA QuietTokens ==
  ASSUME TypeOK, TokenInv, srv' \in Servers, cl' \in Clients, acc' \in Actors,
         srv'.used = srv.used, srv'.before = srv.before, UNCHANGED real,
         acc'.tokens <= srv.used, acc'.totals + srv.used <= real + acc'.tokens,
         wire' = wire \/ (wire # <<>> /\ wire' = Tail(wire))
  PROVE  TypeOK' /\ TokenInv'
<1>1. wire \in Seq(Messages)
  BY DEF TypeOK
<1>2. CASE wire' = wire
  BY <1>2 DEF TypeOK, TokenInv
<1>3. CASE wire # <<>> /\ wire' = Tail(wire)
  <2>1. /\ wire' \in Seq(Messages)
        /\ Len(wire') = Len(wire) - 1
        /\ \A n \in 1..Len(wire') : wire'[n] = wire[n + 1]
    BY <1>1, <1>3, Taken, Zenon
  <2>2. ASSUME NEW n \in 1..Len(wire') PROVE wire'[n].tokens <= srv'.used
    <3>1. n + 1 \in 1..Len(wire) /\ wire'[n] = wire[n + 1]
      BY <2>1, <1>1
    <3> QED
      BY <3>1 DEF TokenInv
  <2> QED
    BY <2>1, <2>2 DEF TypeOK, TokenInv
<1> QED
  BY <1>2, <1>3

(* What the client's own steps make of the client and of the actor.        *)
LEMMA OverTyped == ASSUME cl \in Clients, NEW r \in Results PROVE Over(r) \in Clients
BY Zenon DEF Over, Clients

(* A request of the server, answered or not, uses no tokens.               *)
LEMMA ServerUnheard ==
  ASSUME NEW ask, srv \in Servers, HandleServerRequest(ask)
  PROVE  srv' \in Servers /\ srv'.used = srv.used /\ srv'.before = srv.before
<1>1. srv' = srv \/ srv' = [srv EXCEPT !.is = "free"]
  BY DEF HandleServerRequest
<1> QED
  BY <1>1 DEF Servers

(* A request of the server is answered, or ends the run.                   *)
LEMMA ClientHandles ==
  ASSUME NEW ask, cl \in Clients, HandleServerRequest(ask)
  PROVE  cl' \in Clients
<1>1. cl' = cl \/ cl' = Over("input") \/ cl' = Over("write")
  BY DEF HandleServerRequest
<1> QED
  BY <1>1, OverTyped DEF Results

(* A report the client records is counted once.                            *)
LEMMA Records ==
  ASSUME TypeOK, TokenInv, wire # <<>>, NEW next \in Clients, RecordRuntimeEvent(Head(wire), next)
  PROVE  /\ cl' \in Clients /\ acc' \in Actors /\ acc'.tokens <= srv.used
         /\ acc'.totals + srv.used <= real + acc'.tokens
<1>1. Head(wire) = wire[1] /\ 1 \in 1..Len(wire)
  BY DEF TypeOK
<1>2. CASE UNCHANGED acc /\ cl' = [next EXCEPT !.ctx = "done"]
  BY <1>2 DEF TypeOK, TokenInv, Clients
<1>3. CASE Fold(wire[1]) /\ \E x \in {"live", "done"} : cl' = [next EXCEPT !.ctx = x]
  <2>1. cl' \in Clients
    BY <1>3 DEF Clients
  <2> QED
    BY <1>1, <1>3, <2>1, FoldTokens
<1> QED
  BY <1>1, <1>2, <1>3 DEF RecordRuntimeEvent

(* The client's steps count what they take off the wire and nothing else.  *)
LEMMA ClientTokens ==
  ASSUME TypeOK, TokenInv, Client \/ ReadEnds \/ Cancel
  PROVE  TypeOK' /\ TokenInv'
<1>0. /\ srv \in Servers /\ cl \in Clients /\ acc \in Actors /\ acc.tokens <= srv.used
      /\ acc.totals + srv.used <= real + acc.tokens /\ wire \in Seq(Messages)
  BY DEF TypeOK, TokenInv
<1>1. CASE SendRequest
  <2>1. UNCHANGED <<wire, acc, real>>
    BY <1>1 DEF SendRequest
  <2>2. srv' \in Servers /\ srv'.used = srv.used /\ srv'.before = srv.before
    <3>1. srv' = srv \/ srv' = [srv EXCEPT !.owes = cl.asked]
      BY <1>1 DEF SendRequest
    <3>2. cl.asked \in Pending
      BY <1>0 DEF Clients
    <3> QED
      BY <1>0, <3>1, <3>2 DEF Servers
  <2>3. cl' \in Clients
    <3>1. cl' = Over("write") \/ cl' = [cl EXCEPT !.at = "wait"]
      BY <1>1 DEF SendRequest
    <3>2. CASE cl' = [cl EXCEPT !.at = "wait"]
      BY <1>0, <3>2 DEF Clients
    <3> QED
      BY <1>0, <3>1, <3>2, OverTyped DEF Results
  <2> QED
    BY <1>0, <2>1, <2>2, <2>3, QuietTokens
<1>2. CASE ReadWhileWaiting
  <2>1. UNCHANGED <<acc, real>> /\ wire # <<>> /\ wire' = Tail(wire)
    BY <1>2 DEF ReadWhileWaiting, CanRead
  <2>2. CASE cl' = ResponseForID(Head(wire)) /\ UNCHANGED srv
    <3>1. Responded \in Clients
      BY <1>0, Zenon DEF Responded, Clients, Pending
    <3>2. cl' \in Clients
      BY <1>0, <2>2, <3>1, OverTyped DEF ResponseForID, Results
    <3> QED
      BY <1>0, <2>1, <2>2, <3>2, QuietTokens
  <2>3. CASE cl' = Over("decode") /\ UNCHANGED srv
    <3>1. cl' \in Clients
      BY <1>0, <2>3, OverTyped DEF Results
    <3> QED
      BY <1>0, <2>1, <2>3, <3>1, QuietTokens
  <2>4. CASE UNCHANGED <<cl, srv>>
    BY <1>0, <2>1, <2>4, QuietTokens
  <2>5. CASE HandleServerRequest(Head(wire).m)
    BY <1>0, <2>1, <2>5, QuietTokens, ServerUnheard, ClientHandles
  <2> QED
    BY <1>2, <2>2, <2>3, <2>4, <2>5 DEF ReadWhileWaiting, DispatchInterleavedMessage
<1>3. CASE ReadInTurn
  <2>1. UNCHANGED real /\ wire # <<>> /\ wire' = Tail(wire)
    BY <1>3 DEF ReadInTurn, CanRead
  <2>2. CASE UNCHANGED <<srv, acc>> /\ cl' \in {Over("turn"), Over("input"), Over("decode"), cl}
    <3>1. cl' \in Clients
      BY <1>0, <2>2, OverTyped DEF Results
    <3> QED
      BY <1>0, <2>1, <2>2, <3>1, QuietTokens
  <2>3. CASE HandleServerRequest(Head(wire).m) /\ UNCHANGED acc
    BY <1>0, <2>1, <2>3, QuietTokens, ServerUnheard, ClientHandles
  <2>4. CASE RecordRuntimeEvent(Head(wire), cl) /\ UNCHANGED srv
    BY <1>0, <2>1, <2>4, QuietTokens, Records
  <2>5. ASSUME RecordRuntimeEvent(Head(wire), [cl EXCEPT !.at = "refresh", !.heard = Head(wire).turn]),
               UNCHANGED srv
        PROVE  TypeOK' /\ TokenInv'
    <3> DEFINE next == [cl EXCEPT !.at = "refresh", !.heard = Head(wire).turn]
    <3>1. Head(wire) \in Messages
      BY <1>0, <2>1
    <3>2. next \in Clients
      BY <1>0, <3>1, Zenon DEF Clients, Messages
    <3>3. RecordRuntimeEvent(Head(wire), next)
      BY <2>5
    <3> HIDE DEF next
    <3> QED
      BY <1>0, <2>1, <2>5, <3>2, <3>3, QuietTokens, Records
  <2> QED
    BY <1>3, <2>2, <2>3, <2>4, <2>5 DEF ReadInTurn
<1>4. CASE RefreshIssue
  <2>1. UNCHANGED <<srv, wire, acc, real>>
    BY <1>4 DEF RefreshIssue
  <2>2. \/ \E r \in {"clean", "inactive", "refresh"} : cl' = Over(r)
        \/ cl' = [cl EXCEPT !.at = "send", !.asked = "turn", !.turn = @ + 1]
    BY <1>4 DEF RefreshIssue
  <2>3. cl' \in Clients
    <3>1. CASE cl' = [cl EXCEPT !.at = "send", !.asked = "turn", !.turn = @ + 1]
      <4> DEFINE k == cl.turn + 1
      <4>1. k \in Nat
        BY <1>0 DEF Clients
      <4>2. cl' = [cl EXCEPT !.at = "send", !.asked = "turn", !.turn = k]
        BY <3>1
      <4> HIDE DEF k
      <4> QED
        BY <1>0, <4>1, <4>2, Zenon DEF Clients, Pending
    <3>2. CASE \E r \in {"clean", "inactive", "refresh"} : cl' = Over(r)
      BY <1>0, <3>2, OverTyped DEF Results
    <3> QED
      BY <2>2, <3>1, <3>2
  <2> QED
    BY <1>0, <2>1, <2>3, QuietTokens
<1>5. CASE ReadEnds \/ Cancel \/ SeesCancel
  <2>1. UNCHANGED <<srv, wire, acc, real>>
    BY <1>5 DEF ReadEnds, Cancel, SeesCancel
  <2>2. \/ \E r \in {"exit", "timeout", "cancelled"} : cl' = Over(r)
        \/ cl' = [cl EXCEPT !.ctx = "done"]
    BY <1>5 DEF ReadEnds, Cancel, SeesCancel
  <2>3. cl' \in Clients
    <3>1. CASE cl' = [cl EXCEPT !.ctx = "done"]
      BY <1>0, <3>1 DEF Clients
    <3>2. CASE \E r \in {"exit", "timeout", "cancelled"} : cl' = Over(r)
      BY <1>0, <3>2, OverTyped DEF Results
    <3> QED
      BY <2>2, <3>1, <3>2
  <2> QED
    BY <1>0, <2>1, <2>3, QuietTokens
<1> QED
  BY <1>1, <1>2, <1>3, <1>4, <1>5 DEF Client

(* A new run starts with an empty wire.                                    *)
LEMMA NextRunTokens == ASSUME TypeOK, TokenInv, NextRun PROVE TypeOK' /\ TokenInv'
<1>1. srv' \in Servers /\ srv'.before = 0 /\ srv'.used = 0
  BY DEF NextRun, NewServer, Servers
<1>2. cl' \in Clients
  BY DEF NextRun, NewClient, Clients, Pending, Results
<1>3. wire' = <<>> /\ real' = real /\ real \in Nat
  BY DEF NextRun, TypeOK
<1>4. acc' \in Actors /\ acc'.tokens = 0 /\ acc'.totals = acc.totals
  <2> DEFINE k == acc.runs + 1
  <2>1. acc' = [acc EXCEPT !.turns = 0, !.tokens = 0, !.runs = k] /\ acc \in Actors
    BY DEF NextRun, TypeOK
  <2>2. k \in Nat
    BY <2>1 DEF Actors
  <2> HIDE DEF k
  <2> QED
    BY <2>1, <2>2, Zenon DEF Actors
<1>5. acc'.totals <= real
  BY <1>4 DEF TypeOK, TokenInv, Actors, Servers
<1> QED
  BY <1>1, <1>2, <1>3, <1>4, <1>5 DEF TypeOK, TokenInv, Actors

(* Whatever the server reports, in whatever order and over however many    *)
(* sessions, no token is counted twice; and the state has its type         *)
(* (applyTokenUsage, positiveDelta).                                       *)
THEOREM TokensCountedOnce == Spec => [](TypeOK /\ NoTokenCountedTwice)
<1>1. TypeOK /\ TokenInv /\ [Next]_vars => TypeOK' /\ TokenInv'
  <2>1. ASSUME TypeOK, TokenInv, UNCHANGED vars PROVE TypeOK' /\ TokenInv'
    BY <2>1 DEF vars, TypeOK, TokenInv
  <2> QED
    BY <2>1, ServerTokens, ClientTokens, NextRunTokens DEF Next
<1>2. TypeOK /\ TokenInv => NoTokenCountedTwice
  BY DEF TypeOK, TokenInv, NoTokenCountedTwice, Actors, Servers
<1> QED
  BY <1>1, <1>2, InitTokens, PTL DEF Spec
-----------------------------------------------------------------------------
(* Where a turn stands between client and server, while the session lasts. *)
Begun == srv.turn = cl.turn \/ srv.ended = cl.turn
InTurns == cl.asked = "turn"
Unsent == InTurns /\ (cl.at = "send" \/ srv.owes # "none")

TurnState ==
  /\ srv.owes # "none" => cl.at = "wait" /\ srv.owes = cl.asked
  /\ srv.turn # 0 => srv.turn = cl.turn /\ srv.ended < srv.turn
  /\ srv.ended <= cl.turn
  /\ Unsent => srv.turn = 0 /\ srv.ended < cl.turn
  /\ cl.at = "turn" => InTurns /\ Begun
  /\ cl.at = "refresh" => InTurns /\ cl.heard = cl.turn /\ srv.ended = cl.turn
  /\ InTurns <=> cl.turn # 0
  /\ cl.result = "none"

(* The client has the response to its turn, or will have it when it reads  *)
(* message n.                                                              *)
Fresh(n) ==
  \/ cl.at = "turn"
  \/ cl.at = "wait" /\ InTurns /\ \E j \in 1..Len(wire) : j < n /\ wire[j].m = "reply"

(* At most one response is on the wire, it is for the request of now, and  *)
(* an end read after it is the end of the turn it started.                 *)
Response(n) == wire[n].m \in {"reply", "error"}
TurnWire ==
  \A n \in 1..Len(wire) :
    /\ Response(n) => /\ cl.at = "wait" /\ srv.owes = "none"
                      /\ \A j \in 1..Len(wire) : Response(j) => j = n
    /\ wire[n].m = "reply" /\ InTurns => Begun
    /\ wire[n].m \in Ends /\ Fresh(n) => wire[n].turn = cl.turn /\ srv.ended = cl.turn

TurnCount ==
  /\ cl.at # "over" /\ cl.ctx = "live" =>
       acc.turns = IF InTurns /\ cl.at # "refresh" THEN cl.turn - 1 ELSE cl.turn
  /\ cl.result \in {"clean", "inactive"} /\ cl.ctx = "live" => acc.turns = cl.turn

TurnInv == (cl.at # "over" => TurnState /\ TurnWire) /\ TurnCount
-----------------------------------------------------------------------------
(* The fields TurnState and TurnWire are about.                            *)
LEMMA Fields ==
  ASSUME TypeOK
  PROVE  /\ srv.turn \in Nat /\ srv.ended \in Nat /\ cl.turn \in Nat /\ cl.heard \in Nat
         /\ acc.turns \in Nat /\ wire \in Seq(Messages)
         /\ srv \in Servers /\ cl \in Clients /\ acc \in Actors
BY DEF TypeOK, Servers, Clients, Actors

(* One more message.  What it must not break: a response is the only one   *)
(* and finds its request, a reply has begun the turn, an end that will     *)
(* count is the end of this turn.                                          *)
LEMMA SaidWire ==
  ASSUME TypeOK, TurnWire, NEW m \in Words, NEW t \in Nat, NEW k \in Nat, Say(m, t, k),
         UNCHANGED cl,
         m \in {"reply", "error"} =>
           /\ \A n \in 1..Len(wire) : ~ Response(n)
           /\ cl.at = "wait" /\ srv'.owes = "none",
         srv.owes = "none" => srv'.owes = "none",
         Begun => Begun',
         m = "reply" /\ InTurns => Begun',
         srv.ended = cl.turn => srv'.ended = cl.turn,
         m \in Ends /\ Fresh(Len(wire) + 1) => t = cl.turn /\ srv'.ended = cl.turn
  PROVE  TurnWire'
<1>1. wire \in Seq(Messages)
  BY DEF TypeOK
<1>2. /\ wire' \in Seq(Messages)
      /\ Len(wire') = Len(wire) + 1
      /\ wire'[Len(wire')] = [m |-> m, turn |-> t, tokens |-> k]
      /\ \A n \in 1..Len(wire) : wire'[n] = wire[n]
  BY <1>1, Said
<1>3. Len(wire) \in Nat
  BY <1>1
<1>4. \A n \in 1..Len(wire) : Response(n)' <=> Response(n)
  BY <1>2 DEF Response
<1>5. \A n \in 1..Len(wire') : n = Len(wire) + 1 => (Response(n)' <=> m \in {"reply", "error"})
  BY <1>2 DEF Response
<1>6. ASSUME NEW n \in 1..Len(wire'), Response(n)'
      PROVE  /\ cl'.at = "wait" /\ srv'.owes = "none"
             /\ \A j \in 1..Len(wire') : Response(j)' => j = n
  <2>1. CASE n = Len(wire) + 1
    <3>1. m \in {"reply", "error"}
      BY <1>5, <1>6, <2>1
    <3>2. \A j \in 1..Len(wire) : ~ Response(j)'
      BY <1>4, <3>1
    <3>3. \A j \in 1..Len(wire') : j \in 1..Len(wire) \/ j = Len(wire) + 1
      BY <1>2, <1>3
    <3> QED
      BY <2>1, <3>1, <3>2, <3>3
  <2>2. CASE n # Len(wire) + 1
    <3>1. n \in 1..Len(wire) /\ Response(n)
      BY <1>2, <1>3, <1>4, <1>6, <2>2
    <3>2. m \notin {"reply", "error"}
      BY <3>1
    <3>3. \A j \in 1..Len(wire') : Response(j)' => j \in 1..Len(wire) /\ Response(j)
      BY <1>2, <1>3, <1>4, <1>5, <3>2
    <3>4. cl.at = "wait" /\ srv.owes = "none" /\ \A j \in 1..Len(wire) : Response(j) => j = n
      BY <3>1 DEF TurnWire
    <3> QED
      BY <3>3, <3>4
  <2> QED
    BY <2>1, <2>2
<1>7. ASSUME NEW n \in 1..Len(wire'), wire'[n].m = "reply", InTurns' PROVE Begun'
  <2>1. CASE n = Len(wire) + 1
    BY <1>2, <1>7, <2>1 DEF InTurns
  <2>2. CASE n # Len(wire) + 1
    <3>1. n \in 1..Len(wire) /\ wire'[n] = wire[n]
      BY <1>2, <1>3, <2>2
    <3> QED
      BY <1>7, <3>1 DEF TurnWire, InTurns
  <2> QED
    BY <2>1, <2>2
<1>8. ASSUME NEW n \in 1..Len(wire'), wire'[n].m \in Ends, Fresh(n)'
      PROVE  wire'[n].turn = cl'.turn /\ srv'.ended = cl'.turn
  <2>1. Fresh(n)
    <3>1. CASE cl.at = "turn"
      BY <3>1 DEF Fresh
    <3>2. CASE cl.at # "turn"
      <4>1. PICK j \in 1..Len(wire') : j < n /\ wire'[j].m = "reply"
        BY <1>8, <3>2 DEF Fresh
      <4>2. j \in 1..Len(wire) /\ wire'[j] = wire[j]
        BY <1>2, <1>3, <4>1
      <4> QED
        BY <1>8, <3>2, <4>1, <4>2 DEF Fresh, InTurns
    <3> QED
      BY <3>1, <3>2
  <2>2. CASE n = Len(wire) + 1
    BY <1>2, <1>8, <2>1, <2>2
  <2>3. CASE n # Len(wire) + 1
    <3>1. n \in 1..Len(wire) /\ wire'[n] = wire[n]
      BY <1>2, <1>3, <2>3
    <3> QED
      BY <1>8, <2>1, <3>1 DEF TurnWire
  <2> QED
    BY <2>2, <2>3
<1> QED
  BY <1>6, <1>7, <1>8 DEF TurnWire

(* One message less, the client keeping its place.                         *)
LEMMA TookWire ==
  ASSUME TypeOK, TurnWire, wire # <<>>, wire' = Tail(wire),
         srv'.owes = srv.owes, srv'.turn = srv.turn, srv'.ended = srv.ended,
         cl'.asked = cl.asked, cl'.turn = cl.turn,
         \/ cl'.at = cl.at
         \/ cl.at = "wait" /\ cl'.at = "turn" /\ wire[1].m = "reply" /\ InTurns
  PROVE  TurnWire'
<1>1. wire \in Seq(Messages)
  BY DEF TypeOK
<1>2. /\ wire' \in Seq(Messages)
      /\ Len(wire') = Len(wire) - 1
      /\ \A n \in 1..Len(wire') : wire'[n] = wire[n + 1]
      /\ 1 \in 1..Len(wire)
  BY <1>1, Taken
<1>3. Len(wire) \in Nat
  BY <1>1
<1>4. \A n \in 1..Len(wire') : n + 1 \in 1..Len(wire) /\ n + 1 # 1
  BY <1>2, <1>3
<1>5. \A n \in 1..Len(wire') : Response(n)' <=> Response(n + 1)
  BY <1>2 DEF Response
<1>6. ASSUME NEW n \in 1..Len(wire'), Response(n)'
      PROVE  /\ cl'.at = "wait" /\ srv'.owes = "none"
             /\ \A j \in 1..Len(wire') : Response(j)' => j = n
  <2>1. Response(n + 1) /\ n + 1 \in 1..Len(wire)
    BY <1>4, <1>5, <1>6
  <2>2. cl.at = "wait" /\ srv.owes = "none" /\ \A j \in 1..Len(wire) : Response(j) => j = n + 1
    BY <2>1 DEF TurnWire
  <2>3. ~ Response(1)
    BY <1>2, <1>4, <2>2
  <2>4. cl'.at = "wait"
    BY <2>2, <2>3 DEF Response
  <2>5. \A j \in 1..Len(wire') : Response(j)' => j + 1 = n + 1
    BY <1>4, <1>5, <2>2
  <2> QED
    BY <2>2, <2>4, <2>5
<1>7. ASSUME NEW n \in 1..Len(wire'), wire'[n].m = "reply", InTurns' PROVE Begun'
  BY <1>2, <1>4, <1>7 DEF TurnWire, InTurns, Begun
<1>8. ASSUME NEW n \in 1..Len(wire'), wire'[n].m \in Ends, Fresh(n)'
      PROVE  wire'[n].turn = cl'.turn /\ srv'.ended = cl'.turn
  <2>1. Fresh(n + 1)
    <3>1. CASE cl.at = "turn"
      BY <3>1 DEF Fresh
    <3>2. CASE cl.at = "wait" /\ wire[1].m = "reply" /\ InTurns
      <4>1. 1 < n + 1
        OBVIOUS
      <4> QED
        BY <1>2, <3>2, <4>1 DEF Fresh
    <3>3. CASE cl.at # "turn" /\ cl'.at = cl.at
      <4>1. PICK j \in 1..Len(wire') : j < n /\ wire'[j].m = "reply"
        BY <1>8, <3>3, Zenon DEF Fresh
      <4>2. j + 1 \in 1..Len(wire) /\ j + 1 < n + 1 /\ wire[j + 1].m = "reply"
        BY <1>2, <1>4, <4>1
      <4>3. cl.at = "wait" /\ InTurns
        BY <1>8, <3>3 DEF Fresh, InTurns
      <4> QED
        BY <4>2, <4>3 DEF Fresh
    <3> QED
      BY <3>1, <3>2, <3>3
  <2> QED
    BY <1>2, <1>4, <1>8, <2>1 DEF TurnWire
<1> QED
  BY <1>6, <1>7, <1>8 DEF TurnWire

(* No response is left and the client reads nothing.                       *)
LEMMA NoResponse ==
  ASSUME \A n \in 1..Len(wire') : ~ Response(n)', cl'.at \in {"send", "refresh"}
  PROVE  TurnWire'
<1>1. \A n \in 1..Len(wire') : wire'[n].m # "reply"
  BY DEF Response
<1> QED
  BY <1>1 DEF TurnWire, Fresh

(* What the server says leaves the client and the count alone.             *)
LEMMA ServerCount == ASSUME TurnCount, UNCHANGED <<cl, acc>> PROVE TurnCount'
BY DEF TurnCount, InTurns

(* An answer to a request names the turn that was asked for.               *)
LEMMA AnswersTurns == ASSUME TypeOK, TurnInv, ServerAnswers PROVE TurnInv'
<1>0. /\ srv.owes # "none" /\ cl.at = "wait" /\ srv.owes = cl.asked /\ UNCHANGED <<cl, acc>>
      /\ TurnState /\ TurnWire /\ TurnCount
  BY DEF ServerAnswers, CanSpeak, TurnInv, TurnState
<1>1. \A n \in 1..Len(wire) : ~ Response(n)
  BY <1>0 DEF TurnWire
<1>2. InTurns => srv.turn = 0 /\ srv.ended < cl.turn
  BY <1>0 DEF TurnState, Unsent
<1>3. ~ InTurns => cl.turn = 0 /\ srv.turn = 0
  BY <1>0 DEF TurnState
<1>4. PICK m \in {"reply", "error"} :
        /\ Say(m, 0, 0)
        /\ srv'.owes = "none" /\ srv'.ended = srv.ended
        /\ srv'.turn = IF m = "reply" /\ InTurns THEN cl.turn ELSE srv.turn
  <2>1. CASE Say("reply", 0, 0) /\ srv' = [srv EXCEPT
               !.owes = "none", !.turn = IF srv.owes = "turn" THEN cl.turn ELSE 0]
    <3>1. srv'.turn = IF srv.owes = "turn" THEN cl.turn ELSE 0
      BY <2>1, Fields DEF Servers
    <3>2. srv'.turn = IF InTurns THEN cl.turn ELSE srv.turn
      BY <3>1, <1>0, <1>3 DEF InTurns
    <3>3. srv'.owes = "none" /\ srv'.ended = srv.ended
      BY <2>1, Fields DEF Servers
    <3> QED
      BY <2>1, <3>2, <3>3
  <2>2. CASE Say("error", 0, 0) /\ srv' = [srv EXCEPT !.owes = "none"]
    BY <2>2, Fields DEF Servers
  <2> QED
    BY <2>1, <2>2 DEF ServerAnswers
<1>5. TurnState'
  BY <1>0, <1>2, <1>3, <1>4, Fields DEF TurnState, Unsent, InTurns, Begun
<1>6. ~ Fresh(Len(wire) + 1)
  BY <1>0, <1>1 DEF Fresh, Response
<1>7. m \in Words /\ (m = "reply" /\ InTurns => Begun') /\ (Begun => Begun')
  BY <1>0, <1>2, <1>3, <1>4, Fields DEF Words, Begun
<1>8. TurnWire'
  BY <1>0, <1>1, <1>4, <1>6, <1>7, SaidWire
<1> QED
  BY <1>0, <1>5, <1>8, ServerCount DEF TurnInv

(* A request, a stray line or a report of the server ends no turn.         *)
LEMMA SpeaksTurns ==
  ASSUME TypeOK, TurnInv, ServerAsks \/ ServerStrays \/ ServerWorks PROVE TurnInv'
<1>0. /\ cl.at # "over" /\ UNCHANGED <<cl, acc>> /\ TurnState /\ TurnWire /\ TurnCount
  BY DEF ServerAsks, ServerStrays, ServerWorks, CanSpeak, TurnInv
<1>1. srv'.owes = srv.owes /\ srv'.turn = srv.turn /\ srv'.ended = srv.ended
  BY Fields, Zenon DEF ServerAsks, ServerStrays, ServerWorks, Servers
<1>2. \E m \in Words \ (Ends \cup {"reply", "error"}), t, k \in Nat : Say(m, t, k)
  <2>1. CASE ServerAsks
    <3>1. PICK m \in Asks : Say(m, 0, 0)
      BY <2>1 DEF ServerAsks
    <3>2. m \in Words \ (Ends \cup {"reply", "error"})
      BY DEF Words, Asks, Ends
    <3> QED
      BY <3>1, <3>2
  <2>2. CASE ServerStrays
    <3>1. PICK m \in Strays : Say(m, 0, 0)
      BY <2>2 DEF ServerStrays
    <3>2. m \in Words \ (Ends \cup {"reply", "error"})
      BY DEF Words, Strays, Ends
    <3> QED
      BY <3>1, <3>2
  <2>3. CASE ServerWorks
    <3>1. Say("note", srv.turn, srv'.used) /\ srv' = [srv EXCEPT !.used = @ + 1]
      BY <2>3 DEF ServerWorks
    <3>2. srv'.used \in Nat /\ srv.turn \in Nat
      BY <3>1, Fields DEF Servers
    <3>3. "note" \in Words \ (Ends \cup {"reply", "error"})
      BY DEF Words, Ends
    <3> QED
      BY <3>1, <3>2, <3>3
  <2> QED
    BY <2>1, <2>2, <2>3
<1>3. TurnState'
  BY <1>0, <1>1 DEF TurnState, Unsent, InTurns, Begun
<1>4. Begun' <=> Begun
  BY <1>0, <1>1 DEF Begun
<1>5. TurnWire'
  BY <1>0, <1>1, <1>2, <1>4, SaidWire
<1> QED
  BY <1>0, <1>3, <1>5, ServerCount DEF TurnInv

(* The server ends the turn it is in.                                      *)
LEMMA EndsTurns == ASSUME TypeOK, TokenInv, TurnInv, ServerEndsTurn PROVE TurnInv'
<1>0. /\ cl.at # "over" /\ srv.turn > 0 /\ UNCHANGED <<cl, acc>> /\ TurnState /\ TurnWire /\ TurnCount
  BY DEF ServerEndsTurn, CanSpeak, TurnInv
<1>1. srv' = [srv EXCEPT !.ended = srv.turn, !.turn = 0, !.before = srv.used]
  BY DEF ServerEndsTurn
<1>2. srv'.owes = srv.owes /\ srv'.turn = 0 /\ srv'.ended = srv.turn
  BY <1>1, Fields DEF Servers
<1>3. srv.turn = cl.turn /\ srv.ended < srv.turn /\ InTurns /\ ~ Unsent
  BY <1>0, Fields DEF TurnState
<1>4. PICK m \in Ends : Say(m, srv.turn, srv.used - srv.before)
  BY DEF ServerEndsTurn
<1> DEFINE k == srv.used - srv.before
<1>5. k \in Nat /\ m \in Words /\ m \notin {"reply", "error"}
  <2>1. srv.used \in Nat /\ srv.before \in Nat /\ srv.before <= srv.used
    BY Fields DEF Servers, TokenInv
  <2> QED
    BY <2>1 DEF Words, Ends
<1>6. Say(m, srv.turn, k)
  BY <1>4
<1> HIDE DEF k
<1>7. TurnState'
  BY <1>0, <1>2, <1>3, Fields DEF TurnState, Unsent, InTurns, Begun
<1>8. Begun' /\ srv'.ended = cl.turn
  BY <1>0, <1>2, <1>3 DEF Begun
<1>9. TurnWire'
  BY <1>0, <1>2, <1>3, <1>5, <1>6, <1>8, Fields, SaidWire
<1> QED
  BY <1>0, <1>7, <1>9, ServerCount DEF TurnInv

(* A repeated end names a turn that has ended.                             *)
LEMMA RepeatsTurns == ASSUME TypeOK, TurnInv, ServerRepeatsEnd PROVE TurnInv'
<1>0. /\ cl.at # "over" /\ srv.turn = 0 /\ srv.ended > 0 /\ UNCHANGED <<cl, acc>>
      /\ TurnState /\ TurnWire /\ TurnCount
  BY DEF ServerRepeatsEnd, CanSpeak, TurnInv
<1>1. srv'.owes = srv.owes /\ srv'.turn = srv.turn /\ srv'.ended = srv.ended
  BY Fields DEF ServerRepeatsEnd, Servers
<1>2. PICK m \in Ends : Say(m, srv.ended, 0)
  BY DEF ServerRepeatsEnd
<1>3. m \in Words /\ m \notin {"reply", "error"}
  BY DEF Words, Ends
<1>4. TurnState'
  BY <1>0, <1>1 DEF TurnState, Unsent, InTurns, Begun
<1>5. Begun' <=> Begun
  BY <1>0, <1>1 DEF Begun
<1>6. Fresh(Len(wire) + 1) => srv.ended = cl.turn
  <2> SUFFICES ASSUME Fresh(Len(wire) + 1) PROVE srv.ended = cl.turn
    OBVIOUS
  <2>1. Begun /\ InTurns
    BY <1>0 DEF Fresh, TurnState, TurnWire
  <2> QED
    BY <1>0, <2>1 DEF Begun, TurnState
<1>7. TurnWire'
  BY <1>0, <1>1, <1>2, <1>3, <1>5, <1>6, Fields, SaidWire
<1> QED
  BY <1>0, <1>4, <1>7, ServerCount DEF TurnInv

(* A server that exits writes nothing more.                                *)
LEMMA ExitsTurns == ASSUME TypeOK, TurnInv, ServerExits PROVE TurnInv'
<1>1. /\ cl.at # "over" /\ UNCHANGED <<cl, acc, wire>> /\ TurnState /\ TurnWire /\ TurnCount
  BY DEF ServerExits, TurnInv
<1>2. srv'.owes = srv.owes /\ srv'.turn = srv.turn /\ srv'.ended = srv.ended
  BY Fields DEF ServerExits, Servers
<1>3. TurnState'
  BY <1>1, <1>2 DEF TurnState, Unsent, InTurns, Begun
<1>4. TurnWire'
  BY <1>1, <1>2 DEF TurnWire, Fresh, Response, InTurns, Begun
<1> QED
  BY <1>1, <1>3, <1>4, ServerCount DEF TurnInv

(* The end of a session other than a clean one.                            *)
LEMMA OverTurns ==
  ASSUME TypeOK, TurnInv, cl.at # "over",
         NEW r \in Results \ {"clean", "inactive"}, cl' = Over(r)
  PROVE  TurnInv'
<1>1. cl'.at = "over" /\ cl'.result = r
  BY Fields DEF Over, Clients
<1> QED
  BY <1>1 DEF TurnInv, TurnCount

(* A request is sent for the next turn.                                    *)
LEMMA SendTurns == ASSUME TypeOK, TurnInv, SendRequest PROVE TurnInv'
<1>0. cl.at = "send" /\ TurnState /\ TurnWire /\ TurnCount /\ UNCHANGED <<wire, acc>>
  BY DEF SendRequest, TurnInv
<1>1. CASE cl' = Over("write")
  BY <1>0, <1>1, OverTurns DEF Results
<1>2. CASE cl' = [cl EXCEPT !.at = "wait"] /\ srv' = [srv EXCEPT !.owes = cl.asked]
  <2>1. /\ cl'.at = "wait" /\ cl'.asked = cl.asked /\ cl'.turn = cl.turn
        /\ cl'.result = cl.result /\ cl'.ctx = cl.ctx
        /\ srv'.owes = cl.asked /\ srv'.turn = srv.turn /\ srv'.ended = srv.ended
    BY <1>2, Fields DEF Clients, Servers
  <2>2. \A n \in 1..Len(wire) : wire[n].m \notin {"reply", "error"}
    BY <1>0 DEF TurnWire, Response
  <2>3. TurnState'
    BY <1>0, <2>1 DEF TurnState, Unsent, InTurns, Begun
  <2>4. TurnWire'
    BY <1>0, <2>1, <2>2 DEF TurnWire, Fresh, Response
  <2>5. TurnCount'
    BY <1>0, <2>1 DEF TurnCount, TurnState, InTurns
  <2> QED
    BY <2>3, <2>4, <2>5 DEF TurnInv
<1> QED
  BY <1>1, <1>2 DEF SendRequest

(* A message read that leaves the client where it was in its turn.         *)
LEMMA KeepsTurns ==
  ASSUME TypeOK, TurnInv, cl.at # "over", wire # <<>>, wire' = Tail(wire),
         srv'.owes = srv.owes, srv'.turn = srv.turn, srv'.ended = srv.ended,
         cl'.at = cl.at, cl'.asked = cl.asked, cl'.turn = cl.turn, cl'.heard = cl.heard,
         cl'.result = cl.result, cl'.ctx = "live" => cl.ctx = "live" /\ acc'.turns = acc.turns
  PROVE  TurnInv'
<1>1. TurnState'
  BY DEF TurnInv, TurnState, Unsent, InTurns, Begun
<1>2. TurnWire'
  BY TookWire DEF TurnInv
<1>3. TurnCount'
  BY DEF TurnInv, TurnState, TurnCount, InTurns
<1> QED
  BY <1>1, <1>2, <1>3 DEF TurnInv

(* A request of the server ends no turn cleanly.                           *)
LEMMA HandlesTurns ==
  ASSUME TypeOK, TurnInv, cl.at # "over", wire # <<>>, wire' = Tail(wire), UNCHANGED acc,
         NEW ask, HandleServerRequest(ask)
  PROVE  TurnInv'
<1>1. CASE cl' = Over("input") \/ cl' = Over("write")
  BY <1>1, OverTurns DEF Results
<1>2. CASE cl' = cl
  <2>1. srv' = srv \/ srv' = [srv EXCEPT !.is = "free"]
    BY DEF HandleServerRequest
  <2>2. srv'.owes = srv.owes /\ srv'.turn = srv.turn /\ srv'.ended = srv.ended
    BY <2>1, Fields DEF Servers
  <2> QED
    BY <1>2, <2>2, KeepsTurns
<1> QED
  BY <1>1, <1>2 DEF HandleServerRequest

(* The response the client waits for is the one it gets.                   *)
LEMMA RespondsTurns ==
  ASSUME TypeOK, TurnInv, cl.at = "wait", wire # <<>>, wire' = Tail(wire), UNCHANGED <<srv, acc>>,
         wire[1].m = "reply", cl' = Responded
  PROVE  TurnInv'
<1>0. TurnState /\ TurnWire /\ TurnCount /\ wire \in Seq(Messages)
  BY Fields DEF TurnInv
<1>1. /\ Len(wire') = Len(wire) - 1 /\ Len(wire) \in Nat
      /\ \A n \in 1..Len(wire') : wire'[n] = wire[n + 1]
      /\ 1 \in 1..Len(wire)
  BY <1>0, Taken
<1>2. Response(1)
  BY DEF Response
<1>3. srv.owes = "none" /\ \A j \in 1..Len(wire) : Response(j) => j = 1
  BY <1>0, <1>1, <1>2 DEF TurnWire
<1>4. \A n \in 1..Len(wire') : ~ Response(n)'
  <2>1. \A n \in 1..Len(wire') : n + 1 \in 1..Len(wire) /\ n + 1 # 1
    BY <1>1
  <2>2. \A n \in 1..Len(wire') : ~ Response(n + 1)
    BY <1>3, <2>1
  <2> QED
    BY <1>1, <2>2 DEF Response
<1>5. CASE cl.asked = "initialize"
  <2>1. cl' = [cl EXCEPT !.at = "send", !.asked = "thread"]
    BY <1>5 DEF Responded
  <2>2. /\ cl'.at = "send" /\ cl'.asked = "thread" /\ cl'.turn = cl.turn
        /\ cl'.result = cl.result /\ cl'.ctx = cl.ctx
    BY <2>1, Fields DEF Clients
  <2>3. TurnState'
    BY <1>0, <1>3, <1>5, <2>2 DEF TurnState, Unsent, InTurns, Begun
  <2>4. TurnWire'
    BY <1>4, <2>2, NoResponse
  <2>5. TurnCount'
    BY <1>0, <1>5, <2>2 DEF TurnCount, TurnState, InTurns
  <2> QED
    BY <2>3, <2>4, <2>5 DEF TurnInv
<1>6. CASE cl.asked = "thread"
  <2>1. cl' = [cl EXCEPT !.at = "send", !.asked = "turn", !.turn = 1]
    BY <1>6 DEF Responded
  <2>2. /\ cl'.at = "send" /\ cl'.asked = "turn" /\ cl'.turn = 1
        /\ cl'.result = cl.result /\ cl'.ctx = cl.ctx
    BY <2>1, Fields DEF Clients
  <2>3. cl.turn = 0 /\ srv.turn = 0 /\ srv.ended = 0
    BY <1>0, <1>6, Fields DEF TurnState, InTurns
  <2>4. TurnState'
    BY <1>0, <1>3, <2>2, <2>3 DEF TurnState, Unsent, InTurns, Begun
  <2>5. TurnWire'
    BY <1>4, <2>2, NoResponse
  <2>6. TurnCount'
    BY <1>0, <1>6, <2>2, <2>3 DEF TurnCount, TurnState, InTurns
  <2> QED
    BY <2>4, <2>5, <2>6 DEF TurnInv
<1>7. CASE cl.asked = "turn"
  <2>1. cl' = [cl EXCEPT !.at = "turn"]
    BY <1>7 DEF Responded
  <2>2. /\ cl'.at = "turn" /\ cl'.asked = cl.asked /\ cl'.turn = cl.turn
        /\ cl'.result = cl.result /\ cl'.ctx = cl.ctx
    BY <2>1, Fields DEF Clients
  <2>3. Begun
    BY <1>0, <1>1, <1>7 DEF TurnWire, InTurns
  <2>4. TurnState'
    BY <1>0, <1>3, <1>7, <2>2, <2>3 DEF TurnState, Unsent, InTurns, Begun
  <2>5. TurnWire'
    BY <1>0, <1>7, <2>2, TookWire DEF InTurns
  <2>6. TurnCount'
    BY <1>0, <1>7, <2>2 DEF TurnCount, TurnState, InTurns
  <2> QED
    BY <2>4, <2>5, <2>6 DEF TurnInv
<1> QED
  BY <1>5, <1>6, <1>7, Fields DEF Clients, Pending

(* What is read while the client waits for a response.                     *)
LEMMA WaitTurns == ASSUME TypeOK, TurnInv, ReadWhileWaiting PROVE TurnInv'
<1>0. /\ cl.at = "wait" /\ wire # <<>> /\ wire' = Tail(wire) /\ UNCHANGED acc
      /\ Head(wire) = wire[1]
  BY Fields DEF ReadWhileWaiting, CanRead
<1>1. CASE cl' = ResponseForID(Head(wire)) /\ UNCHANGED srv
  <2>1. CASE wire[1].m = "reply"
    BY <1>0, <1>1, <2>1, RespondsTurns DEF ResponseForID
  <2>2. CASE wire[1].m # "reply"
    BY <1>0, <1>1, <2>2, OverTurns DEF ResponseForID, Results
  <2> QED
    BY <2>1, <2>2
<1>2. CASE cl' = Over("decode")
  BY <1>0, <1>2, OverTurns DEF Results
<1>3. CASE HandleServerRequest(Head(wire).m)
  BY <1>0, <1>3, HandlesTurns
<1>4. CASE UNCHANGED <<cl, srv>>
  BY <1>0, <1>4, KeepsTurns
<1> QED
  BY <1>1, <1>2, <1>3, <1>4 DEF ReadWhileWaiting, DispatchInterleavedMessage

(* The end the client reads in a turn is the end of this turn.             *)
LEMMA CompletesTurns ==
  ASSUME TypeOK, TurnInv, cl.at = "turn", CanRead, wire' = Tail(wire), UNCHANGED srv,
         wire[1].m = "completed",
         RecordRuntimeEvent(wire[1], [cl EXCEPT !.at = "refresh", !.heard = wire[1].turn])
  PROVE  TurnInv'
<1>0. /\ TurnState /\ TurnWire /\ TurnCount /\ wire \in Seq(Messages) /\ wire # <<>>
      /\ cl.ctx = "live"
  BY Fields DEF TurnInv, CanRead
<1>1. /\ Len(wire') = Len(wire) - 1 /\ Len(wire) \in Nat
      /\ \A n \in 1..Len(wire') : wire'[n] = wire[n + 1]
      /\ 1 \in 1..Len(wire)
  BY <1>0, Taken
<1>2. wire[1].turn = cl.turn /\ srv.ended = cl.turn
  BY <1>0, <1>1 DEF TurnWire, Fresh, Ends
<1>3. \A n \in 1..Len(wire') : ~ Response(n)'
  <2>1. \A n \in 1..Len(wire') : n + 1 \in 1..Len(wire)
    BY <1>1
  <2>2. \A n \in 1..Len(wire) : ~ Response(n)
    BY <1>0 DEF TurnWire
  <2> QED
    BY <1>1, <2>1, <2>2 DEF Response
<1>4. /\ cl'.at = "refresh" /\ cl'.heard = cl.turn /\ cl'.asked = cl.asked /\ cl'.turn = cl.turn
      /\ cl'.result = cl.result
      /\ cl'.ctx = "live" => acc'.turns = acc.turns + 1
  <2> DEFINE next == [cl EXCEPT !.at = "refresh", !.heard = wire[1].turn]
  <2>1. RecordRuntimeEvent(wire[1], next)
    OBVIOUS
  <2>2. /\ next \in Clients /\ next.at = "refresh" /\ next.heard = cl.turn
        /\ next.asked = cl.asked /\ next.turn = cl.turn /\ next.result = cl.result
    BY <1>2, Fields, Zenon DEF Clients
  <2> HIDE DEF next
  <2>3. CASE Fold(wire[1]) /\ \E x \in {"live", "done"} : cl' = [next EXCEPT !.ctx = x]
    <3>1. acc'.turns = acc.turns + 1
      <4> DEFINE b == IF wire[1].tokens > acc.tokens THEN wire[1].tokens ELSE acc.tokens
                 c == acc.totals + ReportedDelta(wire[1].tokens)
      <4>1. acc' = [acc EXCEPT !.turns = IF wire[1].m = "completed" THEN @ + 1 ELSE @,
                               !.tokens = b, !.totals = c]
        BY <2>3 DEF Fold
      <4> HIDE DEF b, c
      <4> QED
        BY <4>1, Fields DEF Actors
    <3> QED
      BY <2>2, <2>3, <3>1 DEF Clients
  <2>4. CASE cl' = [next EXCEPT !.ctx = "done"]
    BY <2>2, <2>4 DEF Clients
  <2> QED
    BY <2>1, <2>3, <2>4 DEF RecordRuntimeEvent
<1>5. TurnState'
  BY <1>0, <1>2, <1>4 DEF TurnState, Unsent, InTurns, Begun
<1>6. TurnWire'
  BY <1>3, <1>4, NoResponse
<1>7. TurnCount'
  BY <1>0, <1>4, Fields DEF TurnCount, TurnState, InTurns
<1> QED
  BY <1>5, <1>6, <1>7 DEF TurnInv

(* A message that does not end the turn is noted.                          *)
LEMMA NotesTurns ==
  ASSUME TypeOK, TurnInv, cl.at = "turn", CanRead, wire' = Tail(wire), UNCHANGED srv,
         wire[1].m = "note", RecordRuntimeEvent(wire[1], cl)
  PROVE  TurnInv'
<1>1. CASE cl' = [cl EXCEPT !.ctx = "done"]
  <2>1. /\ cl'.at = cl.at /\ cl'.asked = cl.asked /\ cl'.turn = cl.turn /\ cl'.heard = cl.heard
        /\ cl'.result = cl.result /\ cl'.ctx = "done"
    BY <1>1, Fields DEF Clients
  <2> QED
    BY <2>1, KeepsTurns DEF CanRead
<1>2. CASE Fold(wire[1]) /\ \E x \in {"live", "done"} : cl' = [cl EXCEPT !.ctx = x]
  <2>1. /\ cl'.at = cl.at /\ cl'.asked = cl.asked /\ cl'.turn = cl.turn /\ cl'.heard = cl.heard
        /\ cl'.result = cl.result
    BY <1>2, Fields DEF Clients
  <2>2. acc'.turns = acc.turns
    <3> DEFINE b == IF wire[1].tokens > acc.tokens THEN wire[1].tokens ELSE acc.tokens
               c == acc.totals + ReportedDelta(wire[1].tokens)
    <3>1. acc' = [acc EXCEPT !.turns = IF wire[1].m = "completed" THEN @ + 1 ELSE @,
                             !.tokens = b, !.totals = c]
      BY <1>2 DEF Fold
    <3> HIDE DEF b, c
    <3> QED
      BY <3>1, Fields DEF Actors
  <2> QED
    BY <2>1, <2>2, KeepsTurns DEF CanRead
<1> QED
  BY <1>1, <1>2 DEF RecordRuntimeEvent

(* What is read while the turn streams.                                    *)
LEMMA StreamTurns == ASSUME TypeOK, TurnInv, ReadInTurn PROVE TurnInv'
<1>0. /\ cl.at = "turn" /\ CanRead /\ wire # <<>> /\ wire' = Tail(wire) /\ Head(wire) = wire[1]
  BY Fields DEF ReadInTurn, CanRead
<1> DEFINE msg == wire[1]
<1>1. CASE /\ msg.m = "completed" /\ UNCHANGED srv
           /\ RecordRuntimeEvent(msg, [cl EXCEPT !.at = "refresh", !.heard = msg.turn])
  BY <1>0, <1>1, CompletesTurns
<1>2. CASE msg.m = "note" /\ RecordRuntimeEvent(msg, cl) /\ UNCHANGED srv
  BY <1>0, <1>2, NotesTurns
<1>3. CASE cl' \in {Over("turn"), Over("input"), Over("decode")}
  BY <1>0, <1>3, OverTurns DEF Results
<1>4. CASE HandleServerRequest(msg.m) /\ UNCHANGED acc
  BY <1>0, <1>4, HandlesTurns
<1>5. CASE UNCHANGED <<cl, srv, acc>>
  BY <1>0, <1>5, KeepsTurns
<1> QED
  BY <1>0, <1>1, <1>2, <1>3, <1>4, <1>5, Zenon DEF ReadInTurn

(* Between two turns the issue is read again.                              *)
LEMMA RefreshTurns == ASSUME TypeOK, TurnInv, RefreshIssue PROVE TurnInv'
<1>0. /\ cl.at = "refresh" /\ TurnState /\ TurnWire /\ TurnCount
      /\ UNCHANGED <<srv, wire, acc>>
  BY DEF RefreshIssue, TurnInv
<1>1. CASE cl' = Over("clean") \/ cl' = Over("inactive")
  <2>1. cl'.at = "over" /\ cl'.turn = cl.turn /\ cl'.ctx = cl.ctx
    BY <1>1, Fields, Zenon DEF Over, Clients
  <2> QED
    BY <1>0, <2>1 DEF TurnInv, TurnCount
<1>2. CASE cl' = Over("refresh")
  BY <1>0, <1>2, OverTurns DEF Results
<1>3. CASE cl' = [cl EXCEPT !.at = "send", !.asked = "turn", !.turn = @ + 1]
  <2>1. /\ cl'.at = "send" /\ cl'.asked = "turn" /\ cl'.turn = cl.turn + 1
        /\ cl'.result = cl.result /\ cl'.ctx = cl.ctx
    BY <1>3, Fields DEF Clients
  <2>2. srv.turn = 0 /\ srv.ended = cl.turn /\ srv.owes = "none"
    BY <1>0, Fields DEF TurnState
  <2>3. TurnState'
    BY <1>0, <2>1, <2>2, Fields DEF TurnState, Unsent, InTurns, Begun
  <2>4. TurnWire'
    <3>1. \A n \in 1..Len(wire') : ~ Response(n)'
      BY <1>0 DEF TurnWire, Response
    <3> QED
      BY <2>1, <3>1, NoResponse
  <2>5. TurnCount'
    BY <1>0, <2>1, Fields DEF TurnCount, TurnState, InTurns
  <2> QED
    BY <2>3, <2>4, <2>5 DEF TurnInv
<1> QED
  BY <1>1, <1>2, <1>3 DEF RefreshIssue

(* A read that ends, and a cancellation, never end a turn cleanly.         *)
LEMMA CancelTurns == ASSUME TypeOK, TurnInv, ReadEnds \/ Cancel \/ SeesCancel PROVE TurnInv'
<1>1. CASE ReadEnds \/ SeesCancel
  <2>1. cl.at # "over" /\ \E r \in {"exit", "timeout", "cancelled"} : cl' = Over(r)
    BY <1>1 DEF ReadEnds, SeesCancel
  <2> QED
    BY <2>1, OverTurns DEF Results
<1>2. CASE Cancel
  <2>1. cl.at # "over" /\ UNCHANGED <<srv, wire, acc>> /\ cl' = [cl EXCEPT !.ctx = "done"]
    BY <1>2 DEF Cancel
  <2>2. /\ cl'.at = cl.at /\ cl'.asked = cl.asked /\ cl'.turn = cl.turn /\ cl'.heard = cl.heard
        /\ cl'.result = cl.result /\ cl'.ctx = "done"
    BY <2>1, Fields DEF Clients
  <2>3. TurnState'
    BY <2>1, <2>2 DEF TurnInv, TurnState, Unsent, InTurns, Begun
  <2>4. TurnWire'
    BY <2>1, <2>2 DEF TurnInv, TurnWire, Fresh, Response, InTurns, Begun
  <2>5. TurnCount'
    BY <2>1, <2>2 DEF TurnInv, TurnCount
  <2> QED
    BY <2>3, <2>4, <2>5 DEF TurnInv
<1> QED
  BY <1>1, <1>2

(* A session starts with nothing asked, in whatever state the last ended.  *)
LEMMA FreshTurns ==
  ASSUME srv' = NewServer, cl' = NewClient, wire' = <<>>, acc'.turns = 0 PROVE TurnInv'
BY DEF NewServer, NewClient, TurnInv, TurnState, TurnWire, TurnCount, Unsent, InTurns, Begun

(* A new run starts with no turn.                                          *)
LEMMA NextRunTurns == ASSUME TypeOK, NextRun PROVE TurnInv'
<1>1. acc'.turns = 0
  BY Fields DEF NextRun, Actors
<1> QED
  BY <1>1, FreshTurns DEF NextRun

(* There is no turn at first.                                              *)
LEMMA InitTurns == Init => TurnInv
BY DEF Init, NewServer, NewClient, TurnInv, TurnState, TurnWire, TurnCount, Unsent, InTurns, Begun

(* However ends of turns are repeated and delayed, the client goes on only *)
(* after the end of its own turn, and a clean exit has counted each turn   *)
(* once (request, awaitTurnCompletion, recordSessionFields).               *)
THEOREM OwnWord == Spec => []TurnEndsByItsOwnWord
<1>1. TypeOK /\ TokenInv /\ TurnInv /\ [Next]_vars => TypeOK' /\ TokenInv' /\ TurnInv'
  <2> SUFFICES ASSUME TypeOK, TokenInv, TurnInv, [Next]_vars PROVE TypeOK' /\ TokenInv' /\ TurnInv'
    OBVIOUS
  <2>1. CASE UNCHANGED vars
    <3>1. TurnInv'
      BY <2>1 DEF vars, TurnInv, TurnState, TurnWire, TurnCount, Unsent, InTurns, Begun, Fresh,
         Response
    <3> QED
      BY <2>1, <3>1 DEF vars, TypeOK, TokenInv
  <2>2. CASE Client \/ ReadEnds \/ Cancel
    BY <2>2, ClientTokens, SendTurns, WaitTurns, StreamTurns, RefreshTurns, CancelTurns DEF Client
  <2>3. CASE NextRun
    BY <2>3, NextRunTokens, NextRunTurns
  <2>4. CASE ServerAnswers \/ ServerAsks \/ ServerStrays \/ ServerWorks \/ ServerEndsTurn
             \/ ServerRepeatsEnd \/ ServerExits
    BY <2>4, ServerTokens, AnswersTurns, SpeaksTurns, EndsTurns, RepeatsTurns, ExitsTurns
  <2> QED
    BY <2>1, <2>2, <2>3, <2>4 DEF Next
<1>2. TurnInv => TurnEndsByItsOwnWord
  BY DEF TurnInv, TurnState, TurnCount, TurnEndsByItsOwnWord
<1> QED
  BY <1>1, <1>2, InitTokens, InitTurns, PTL DEF Spec
-----------------------------------------------------------------------------
(* A server that waits for an answer, in a session that is not over, has   *)
(* its request as the last message the client has still to read: no read,  *)
(* before a response or in a turn, drops a request, so the client that     *)
(* finds nothing to read never leaves a server waiting for it.             *)
RequestIsKept ==
  srv.is = "waiting" /\ cl.at # "over" => wire # <<>> /\ wire[Len(wire)].m \in Asks

(* A request taken off the wire is answered, or ends the session.          *)
LEMMA HandledRequest ==
  ASSUME TypeOK, NEW ask \in Asks, HandleServerRequest(ask), srv'.is = "waiting"
  PROVE  cl'.at = "over"
<1>1. srv.is = "waiting" /\ (srv' = srv \/ srv' = [srv EXCEPT !.is = "free"])
  BY DEF HandleServerRequest, TypeOK, Servers
<1>2. \A r \in Results : Over(r).at = "over"
  BY DEF Over, TypeOK, Clients
<1>3. CASE cl' = Over("write")
  BY <1>2, <1>3 DEF Results
<1>4. CASE ~ Answered(ask) /\ cl' = IF GoesOn(ask) THEN cl ELSE Over("input")
  BY <1>2, <1>4 DEF Answered, Results
<1>5. CASE Answered(ask) /\ srv' = [srv EXCEPT !.is = "free"]
  BY <1>5 DEF TypeOK, Servers
<1> QED
  BY <1>3, <1>4, <1>5, Zenon DEF HandleServerRequest

(* A message read leaves a later request where it is.                      *)
LEMMA ReadRequest ==
  ASSUME TypeOK, RequestIsKept, wire # <<>>, wire' = Tail(wire), cl.at # "over",
         srv'.is = "waiting" => srv.is = "waiting",
         Head(wire).m \in Asks => HandleServerRequest(Head(wire).m)
  PROVE  RequestIsKept'
<1> SUFFICES ASSUME srv'.is = "waiting", cl'.at # "over"
             PROVE  wire' # <<>> /\ wire'[Len(wire')].m \in Asks
  BY DEF RequestIsKept
<1>1. wire[Len(wire)].m \in Asks
  BY DEF RequestIsKept
<1>2. Head(wire).m \notin Asks
  BY HandledRequest
<1>3. wire \in Seq(Messages)
  BY DEF TypeOK
<1>4. /\ wire' \in Seq(Messages)
      /\ Len(wire') = Len(wire) - 1
      /\ \A n \in 1..Len(wire') : wire'[n] = wire[n + 1]
      /\ Head(wire) = wire[1] /\ 1 \in 1..Len(wire)
  BY <1>3, Taken, Zenon
<1>5. Len(wire) # 1
  BY <1>1, <1>2, <1>4
<1>6. Len(wire') \in 1..Len(wire') /\ Len(wire') + 1 = Len(wire)
  BY <1>3, <1>4, <1>5
<1>7. wire'[Len(wire')] = wire[Len(wire)]
  BY <1>4, <1>6
<1> QED
  BY <1>1, <1>4, <1>6, <1>7

(* Every step keeps a waiting server's request.                            *)
LEMMA NextRequest ==
  ASSUME TypeOK, RequestIsKept, [Next]_vars
  PROVE  RequestIsKept'
<1>0. srv \in Servers /\ cl \in Clients /\ wire \in Seq(Messages)
  BY DEF TypeOK
<1>1. CASE UNCHANGED <<srv, wire>> /\ cl.at # "over"
  BY <1>1 DEF RequestIsKept
<1>2. CASE UNCHANGED vars
  BY <1>2 DEF RequestIsKept, vars
<1>3. CASE srv'.is # "waiting"
  BY <1>3 DEF RequestIsKept
<1>4. CASE ServerAsks
  <2>1. PICK a \in Asks : Say(a, 0, 0)
    BY <1>4 DEF ServerAsks
  <2>2. Len(wire') = Len(wire) + 1 /\ wire'[Len(wire')] = [m |-> a, turn |-> 0, tokens |-> 0]
    BY <1>0, <2>1, Said DEF Words
  <2>3. wire' # <<>>
    BY <1>0, <2>2
  <2> QED
    BY <2>2, <2>3 DEF RequestIsKept
<1>5. CASE ServerAnswers \/ ServerStrays
  <2>1. srv'.is = "free"
    BY <1>0, <1>5 DEF ServerAnswers, ServerStrays, CanSpeak, Servers
  <2> QED
    BY <1>3, <2>1
<1>6. CASE ServerWorks \/ ServerEndsTurn \/ ServerRepeatsEnd
  <2>1. srv'.is = "free"
    BY <1>0, <1>6 DEF ServerWorks, ServerEndsTurn, ServerRepeatsEnd, CanSpeak, Servers
  <2> QED
    BY <1>3, <2>1
<1>7. CASE ServerExits
  <2>1. srv'.is = "gone"
    BY <1>0, <1>7 DEF ServerExits, Servers
  <2> QED
    BY <1>3, <2>1
<1>8. CASE SendRequest
  <2>1. srv'.is = srv.is /\ wire' = wire /\ cl.at # "over"
    BY <1>0, <1>8 DEF SendRequest, Servers
  <2> QED
    BY <2>1 DEF RequestIsKept
<1>9. CASE ReadWhileWaiting
  <2>1. wire # <<>> /\ wire' = Tail(wire) /\ cl.at # "over"
    BY <1>9 DEF ReadWhileWaiting, CanRead
  <2>2. \/ UNCHANGED srv /\ Head(wire).m \notin Asks
        \/ Head(wire).m \in Asks /\ HandleServerRequest(Head(wire).m)
    <3>1. CASE Head(wire).m \in {"reply", "error", "malformed", "noise"}
      BY <1>9, <3>1 DEF ReadWhileWaiting, Asks
    <3>2. CASE Head(wire).m \notin {"reply", "error", "malformed", "noise"}
      <4>1. DispatchInterleavedMessage(Head(wire))
        BY <1>9, <3>2 DEF ReadWhileWaiting
      <4> QED
        BY <4>1, Zenon DEF DispatchInterleavedMessage
    <3> QED
      BY <3>1, <3>2
  <2>3. srv'.is = "waiting" => srv.is = "waiting"
    BY <1>0, <2>2, Handled DEF Servers
  <2> QED
    BY <2>1, <2>2, <2>3, ReadRequest
<1>10. CASE ReadInTurn
  <2>1. wire # <<>> /\ wire' = Tail(wire) /\ cl.at # "over"
    BY <1>10 DEF ReadInTurn, CanRead
  <2>2. \/ UNCHANGED srv /\ Head(wire).m \notin Asks
        \/ Head(wire).m \in Asks /\ HandleServerRequest(Head(wire).m)
    <3>1. CASE Head(wire).m \in Asks
      BY <1>10, <3>1 DEF ReadInTurn, Asks
    <3>2. CASE Head(wire).m \notin Asks
      BY <1>10, <3>2, Zenon DEF ReadInTurn
    <3> QED
      BY <3>1, <3>2
  <2>3. srv'.is = "waiting" => srv.is = "waiting"
    BY <1>0, <2>2, Handled DEF Servers
  <2> QED
    BY <2>1, <2>2, <2>3, ReadRequest
<1>11. CASE ReadEnds \/ Cancel \/ SeesCancel \/ RefreshIssue
  <2>1. UNCHANGED <<srv, wire>> /\ cl.at # "over"
    BY <1>11 DEF ReadEnds, Cancel, SeesCancel, RefreshIssue
  <2> QED
    BY <1>1, <2>1
<1>12. CASE NextRun
  <2>1. srv'.is = "free"
    BY <1>12 DEF NextRun, NewServer
  <2> QED
    BY <1>3, <2>1
<1> QED
  BY <1>2, <1>4, <1>5, <1>6, <1>7, <1>8, <1>9, <1>10, <1>11, <1>12, Zenon DEF Next, Client

(* The client never waits for a server that waits for it, whatever the     *)
(* policy and the interleaving (request, dispatchInterleavedMessage,       *)
(* awaitTurnCompletion, handleServerRequest): a request that is not        *)
(* answered is still to be read, or the session is over.                   *)
THEOREM NoMutualWait == Spec => []RequestIsKept
<1>1. Init => RequestIsKept
  BY DEF Init, NewServer, RequestIsKept
<1>2. Spec => []TypeOK
  BY TokensCountedOnce, PTL
<1>3. TypeOK /\ RequestIsKept /\ [Next]_vars => RequestIsKept'
  BY NextRequest
<1> QED
  BY <1>1, <1>2, <1>3, PTL DEF Spec
=============================================================================
