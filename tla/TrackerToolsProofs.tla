------------------------- MODULE TrackerToolsProofs -------------------------
(***************************************************************************)
(* The agent's tools on its own issue, for every workflow (states, labels, *)
(* their order), every number of comments and pages, and whatever requests *)
(* fail, lose their answers or are overtaken by an operator:               *)
(*                                                                         *)
(*   Audited       an undisturbed label call audits what it did            *)
(*   NoSecondPad   the issue never gets a second workpad                   *)
(*   LateIsNoHandoff   a write after a recorded stop is no handoff         *)
(*   MaskIsOwn     a closed issue escapes the latch only by the run's own  *)
(*                 write                                                   *)
(***************************************************************************)
EXTENDS TrackerTools, TLAPS, FiniteSetTheorems, SequenceTheorems, WellFoundedInduction

LabelSteps == {"add", "delete", "close", "restore", "audit"}
UpdateSteps == {"guard", "send", "lookup"}

(* A call that writes the issue asks for a state.                          *)
Asks ==
  /\ call.step \in {"read"} \cup LabelSteps \cup UpdateSteps => call.wants # <<>>
  /\ call.step = "guard" => call.left # <<>>

(* A call that nobody has disturbed knows the labels of the issue: before  *)
(* its first write they are what it read, after that what it made of them. *)
Tracks ==
  /\ call.step \in LabelSteps => call.gone \subseteq call.read
  /\ call.step \in {"read", "add"} => call.gone = {} /\ ~ Is("wrote")
  /\ call.step = "add" /\ Is("calm") => labels = call.read
  /\ call.step \in LabelSteps \ {"add"} /\ Is("calm") =>
       labels = (call.read \ call.gone) \cup {Desired}

(* What a call may be recorded with is what it asked for or found, once it *)
(* has written the issue; only a live run has a call.                      *)
Claim == Terminal \cap (ToSet(call.wants) \cup call.read)
Credits ==
  /\ call.step # "idle" => Live
  /\ call.step \in LabelSteps /\ (Is("wrote") \/ call.gone # {}) => Claim \subseteq written
  /\ call.step \in UpdateSteps =>
       /\ ToSet(call.left) \subseteq ToSet(call.wants)
       /\ call.owned \in {None} \cup (Terminal \cap ToSet(call.wants))
  /\ call.step \in {"lookup", "record"} => call.owned \in written \cup {None}
  /\ run.owned \in written \cup {None}

(* A call that wrote after the stop is still looking for it, or runs under *)
(* a cancelled context.                                                    *)
Belated ==
  Is("late") => latch /\ (call.step = "lookup" \/ (call.step = "record" /\ Cancelled))

(* There is one workpad at most, and the lookup has not passed it.         *)
Single ==
  /\ \A m, n \in DOMAIN comments : comments[m] = "workpad" /\ comments[n] = "workpad" => m = n
  /\ call.step = "find" =>
       \A n \in DOMAIN comments : n <= call.page * PageSize => comments[n] # "workpad"
  /\ call.step = "write" /\ ~ Is("found") => \A n \in DOMAIN comments : comments[n] # "workpad"

(* The inductive invariant.                                                *)
TInv == TypeOK /\ Asks /\ Tracks /\ Credits /\ Belated /\ Single

-----------------------------------------------------------------------------
(* States.                                                                 *)

(* A set of natural numbers has a least element.                           *)
LEMMA Least ==
  ASSUME NEW S, S \subseteq Nat, S # {}
  PROVE  Min(S) \in S
<1>1. PICK m \in S : \A n \in S : ~ (<<n, m>> \in OpToRel(<, Nat))
  BY NatLessThanWellFounded, WFMin, Zenon
<1>2. \A n \in S : ~ (n < m)
  BY <1>1, Zenon DEF OpToRel
<1>3. \A n \in S : m <= n
  BY <1>2
<1> QED
  BY <1>3 DEF Min

(* The state that labels stand for is one of them.                         *)
LEMMA StateIsLabel ==
  ASSUME NEW L
  PROVE  IssueStateFromLabels(L) \in L \cup {None}
<1> DEFINE hits == {n \in DOMAIN Priority : Priority[n] \in L}
<1>1. CASE hits = {}
  BY <1>1 DEF IssueStateFromLabels
<1>2. CASE hits # {}
  <2>1. Min(hits) \in hits
    BY <1>2, Least, StateSets
  <2> QED
    BY <1>2, <2>1 DEF IssueStateFromLabels
<1> QED
  BY <1>1, <1>2

-----------------------------------------------------------------------------
(* Types.                                                                  *)

(* The constant records.                                                   *)
LEMMA Constants == NoCall \in Calls /\ NoRun \in Runs /\ NewRun \in Runs
<1>1. NoCall \in Calls
  BY DEF NoCall, Calls
<1>2. NoRun \in Runs
  BY DEF NoRun, Runs
<1> QED
  BY <1>1, <1>2 DEF NewRun, NoRun, Runs, RunMarks

(* Bounded sequences are sequences.                                        *)
LEMMA SeqOfIsSeq == ASSUME NEW S, NEW n PROVE SeqOf(S, n) \subseteq Seq(S)
<1>1. ASSUME NEW m \in 0..n, NEW s \in [1..m -> S]
      PROVE  s \in Seq(S)
  OBVIOUS
<1> QED
  BY <1>1 DEF SeqOf

(* The initial states are typed.                                           *)
LEMMA InitTypes == Init => TypeOK
<1> SUFFICES ASSUME Init PROVE TypeOK
  OBVIOUS
<1>1. labels \subseteq States
  BY StateSets, Zenon DEF Init
<1>2. comments \in Seq({"workpad", "other"})
  <2>1. SeqOf({"other"}, MaxComments) \subseteq Seq({"other"})
    BY SeqOfIsSeq
  <2>2. Seq({"other"}) \subseteq Seq({"workpad", "other"}) /\ <<>> \in Seq({"workpad", "other"})
    OBVIOUS
  <2> QED
    BY <2>1, <2>2, Zenon DEF Init
<1> QED
  BY <1>1, <1>2, Constants DEF Init, TypeOK

(* The state of an issue is one of the workflow's, or none.                *)
LEMMA StateType == ASSUME TypeOK PROVE State \in States \cup {None}
BY StateIsLabel DEF State, TypeOK

-----------------------------------------------------------------------------
(* The steps of a call.                                                    *)

(* What a call leaves alone.                                               *)
Apart == UNCHANGED <<kind, run, latch, seen, handed>>

(* A call that is over leaves an issue that has its types and credits.     *)
LEMMA Ended ==
  ASSUME TInv, Apart, UNCHANGED comments, call' = NoCall, labels' \subseteq States,
         written \subseteq written', written' \subseteq Terminal
  PROVE  TInv'
<1>1. TypeOK'
  BY Constants DEF TInv, TypeOK, Apart
<1>2. call'.step = "idle" /\ call'.marks = {}
  BY DEF NoCall
<1>3. Asks' /\ Tracks'
  BY <1>2 DEF Asks, Tracks, LabelSteps, UpdateSteps
<1>4. Credits'
  BY <1>2 DEF TInv, Credits, LabelSteps, UpdateSteps, Apart
<1>5. Belated'
  BY <1>2 DEF Belated, Is
<1>6. Single'
  BY <1>2 DEF TInv, Single
<1> QED
  BY <1>1, <1>3, <1>4, <1>5, <1>6 DEF TInv

(* A write lands on labels of the workflow, and what it may be recorded    *)
(* with grows.                                                             *)
LEMMA Landed ==
  ASSUME TInv, NEW L, L \subseteq States, Lands(L)
  PROVE  /\ labels' = L /\ written \subseteq written' /\ written' \subseteq Terminal
         /\ Claim \subseteq written'
BY DEF TInv, TypeOK, Lands, Claim

(* A label call begins, with the state it asks for.                        *)
LEMMA CallLabelsKeeps ==
  ASSUME TInv, Apart, NEW want \in LabelsUsed, NEW close \in BOOLEAN, CallLabels(want, close)
  PROVE  TInv'
<1> DEFINE m == IF close THEN {"close"} ELSE {}
           w == <<want>>
<1>1. w \in Seq(States) /\ w # <<>> /\ m \in SUBSET {"close"}
  BY StateSets
<1>2. call' = [NoCall EXCEPT !.step = "read", !.wants = w, !.marks = m]
  BY DEF CallLabels
<1> HIDE DEF m, w
<1>3. UNCHANGED <<labels, comments, written>> /\ Live
  BY DEF CallLabels, Idle
<1>4. ASSUME UNCHANGED <<labels, comments, written>>
      PROVE  TInv'
  <2>1. call' \in Calls
    BY <1>4, Constants, <1>1, <1>2 DEF TInv, TypeOK, Calls, CallMarks
  <2>2. /\ call'.step = "read" /\ call'.wants = w /\ call'.left = <<>>
        /\ call'.read = {} /\ call'.gone = {} /\ call'.owned = None
        /\ call'.page = 0 /\ call'.marks = m
    BY <1>4, <1>2 DEF TInv, TypeOK, Calls, NoCall
  <2>3. TypeOK'
    BY <1>4, <2>1, <1>3 DEF TInv, TypeOK, Apart
  <2>4. Asks'
    BY <1>4, <2>2, <1>1 DEF TInv, Asks, LabelSteps, UpdateSteps
  <2>5. Tracks'
    BY <1>4, <2>2, <1>1 DEF TInv, Tracks, LabelSteps, Desired, Is
  <2>6. Credits'
    BY <1>4, <2>2, <1>3 DEF TInv, Credits, LabelSteps, UpdateSteps, Claim, Is, Apart, Live
  <2>7. Belated'
    BY <1>4, <2>2, <1>1 DEF TInv, Belated, Is, Apart, Cancelled
  <2>8. Single'
    BY <1>4, <2>2, <1>3 DEF TInv, Single, Is
  <2> QED
    BY <2>3, <2>4, <2>5, <2>6, <2>7, <2>8 DEF TInv
<1> QED
  BY <1>3, <1>4

(* The labels are read.                                                    *)
LEMMA ReadLabelsKeeps == ASSUME TInv, Apart, ReadLabels PROVE TInv'
<1>1. ASSUME call.step = "read", UNCHANGED <<labels, comments, written>>,
             call' = [call EXCEPT !.step = "add", !.read = labels, !.marks = @ \cup {"calm"}]
      PROVE  TInv'
  <2>1. call' \in Calls
    BY <1>1 DEF TInv, TypeOK, Calls, CallMarks
  <2>2. /\ call'.step = "add" /\ call'.wants = call.wants /\ call'.left = call.left
        /\ call'.read = labels /\ call'.gone = call.gone /\ call'.owned = call.owned
        /\ call'.page = call.page /\ call'.marks = call.marks \cup {"calm"}
    BY <1>1 DEF TInv, TypeOK, Calls
  <2>3. TypeOK'
    BY <1>1, <2>1 DEF TInv, TypeOK, Apart
  <2>4. Asks'
    BY <1>1, <2>2 DEF TInv, Asks, LabelSteps, UpdateSteps
  <2>5. Tracks'
    BY <1>1, <2>2 DEF TInv, Tracks, LabelSteps, Desired, Is
  <2>6. Credits'
    BY <1>1, <2>2 DEF TInv, Credits, LabelSteps, UpdateSteps, Claim, Is, Apart, Live, Tracks
  <2>7. Belated'
    BY <1>1, <2>2 DEF TInv, Belated, Is, Apart, Cancelled
  <2>8. Single'
    BY <1>1, <2>2 DEF TInv, Single, Is
  <2> QED
    BY <2>3, <2>4, <2>5, <2>6, <2>7, <2>8 DEF TInv
<1> QED
  BY <1>1, Ended DEF ReadLabels, End, TInv, TypeOK

(* The wanted label is added.                                              *)
LEMMA AddDesiredKeeps == ASSUME TInv, Apart, AddDesired PROVE TInv'
<1>1. call.step = "add" /\ UNCHANGED comments /\ call \in Calls /\ labels \subseteq States
  BY DEF AddDesired, TInv, TypeOK
<1>2. Desired \in States /\ labels \cup {Desired} \subseteq States
  BY <1>1 DEF Desired, TInv, Asks, LabelSteps, Calls
<1>3. ASSUME Desired \in call.read, UNCHANGED <<labels, comments, written>>,
             call' = [call EXCEPT !.step = "delete"]
      PROVE  TInv'
  <2>1. call' \in Calls
    BY <1>3 DEF TInv, TypeOK, Calls, CallMarks
  <2>2. /\ call'.step = "delete" /\ call'.wants = call.wants /\ call'.left = call.left
        /\ call'.read = call.read /\ call'.gone = call.gone /\ call'.owned = call.owned
        /\ call'.page = call.page /\ call'.marks = call.marks
    BY <1>3 DEF TInv, TypeOK, Calls
  <2>3. TypeOK'
    BY <1>3, <2>1 DEF TInv, TypeOK, Apart
  <2>4. Asks'
    BY <1>3, <2>2, <1>1 DEF TInv, Asks, LabelSteps, UpdateSteps
  <2>5. Tracks'
    BY <1>3, <2>2, <1>1 DEF TInv, Tracks, LabelSteps, Desired, Is
  <2>6. Credits'
    BY <1>3, <2>2, <1>1 DEF TInv, Credits, LabelSteps, UpdateSteps, Claim, Is, Apart, Live
  <2>7. Belated'
    BY <1>3, <2>2, <1>1 DEF TInv, Belated, Is, Apart, Cancelled
  <2>8. Single'
    BY <1>3, <2>2, <1>1 DEF TInv, Single, Is
  <2> QED
    BY <2>3, <2>4, <2>5, <2>6, <2>7, <2>8 DEF TInv
<1>4. ASSUME labels' = labels \cup {Desired}, written \subseteq written', written' \subseteq Terminal, Claim \subseteq written',
             call' = [call EXCEPT !.step = "delete", !.marks = @ \cup {"wrote"}]
      PROVE  TInv'
  <2>1. call' \in Calls
    BY <1>4 DEF TInv, TypeOK, Calls, CallMarks
  <2>2. /\ call'.step = "delete" /\ call'.wants = call.wants /\ call'.left = call.left
        /\ call'.read = call.read /\ call'.gone = call.gone /\ call'.owned = call.owned
        /\ call'.page = call.page /\ call'.marks = call.marks \cup {"wrote"}
    BY <1>4 DEF TInv, TypeOK, Calls
  <2>3. TypeOK'
    BY <1>4, <2>1, <1>1, <1>2 DEF TInv, TypeOK, Apart
  <2>4. Asks'
    BY <1>4, <2>2, <1>1 DEF TInv, Asks, LabelSteps, UpdateSteps
  <2>5. Tracks'
    BY <1>4, <2>2, <1>1 DEF TInv, Tracks, LabelSteps, Desired, Is
  <2>6. Credits'
    BY <1>4, <2>2, <1>1 DEF TInv, Credits, LabelSteps, UpdateSteps, Claim, Is, Apart, Live
  <2>7. Belated'
    BY <1>4, <2>2, <1>1 DEF TInv, Belated, Is, Apart, Cancelled
  <2>8. Single'
    BY <1>4, <2>2, <1>1 DEF TInv, Single, Is
  <2> QED
    BY <2>3, <2>4, <2>5, <2>6, <2>7, <2>8 DEF TInv
<1>5. ASSUME Lands(labels \cup {Desired})
      PROVE  labels' = labels \cup {Desired} /\ written \subseteq written' /\ written' \subseteq Terminal
             /\ Claim \subseteq written'
  BY <1>2, <1>5, Landed
<1>6. CASE Desired \in call.read /\ Goto("delete") /\ UNCHANGED <<labels, written>>
  BY <1>1, <1>3, <1>6 DEF Goto
<1>7. CASE /\ call' = [call EXCEPT !.step = "delete", !.marks = @ \cup {"wrote"}]
           /\ Lands(labels \cup {Desired})
  BY <1>4, <1>5, <1>7
<1>8. CASE End /\ UNCHANGED <<labels, written>>
  BY <1>1, <1>8, Ended DEF End, TInv, TypeOK
<1>9. CASE End /\ Lands(labels \cup {Desired})
  BY <1>1, <1>2, <1>5, <1>9, Ended DEF End
<1> QED
  BY <1>6, <1>7, <1>8, <1>9 DEF AddDesired

(* Stale labels are deleted.                                               *)
LEMMA DeleteStaleKeeps == ASSUME TInv, Apart, DeleteStale PROVE TInv'
<1>1. call.step = "delete" /\ UNCHANGED comments /\ call \in Calls /\ labels \subseteq States
  BY DEF DeleteStale, TInv, TypeOK
<1>2. ASSUME NEW st \in {"close", "audit"}, UNCHANGED <<labels, written>>,
             call' = [call EXCEPT !.step = st, !.marks = @ \cup {"replaced"}]
      PROVE  TInv'
  <2>1. call' \in Calls
    BY <1>2 DEF TInv, TypeOK, Calls, CallMarks
  <2>2. /\ call'.step = st /\ call'.wants = call.wants /\ call'.left = call.left
        /\ call'.read = call.read /\ call'.gone = call.gone /\ call'.owned = call.owned
        /\ call'.page = call.page /\ call'.marks = call.marks \cup {"replaced"}
    BY <1>2 DEF TInv, TypeOK, Calls
  <2>3. TypeOK'
    BY <1>2, <2>1, <1>1 DEF TInv, TypeOK, Apart
  <2>4. Asks'
    BY <1>2, <2>2, <1>1 DEF TInv, Asks, LabelSteps, UpdateSteps
  <2>5. Tracks'
    BY <1>2, <2>2, <1>1 DEF TInv, Tracks, LabelSteps, Desired, Is
  <2>6. Credits'
    BY <1>2, <2>2, <1>1 DEF TInv, Credits, LabelSteps, UpdateSteps, Claim, Is, Apart, Live
  <2>7. Belated'
    BY <1>2, <2>2, <1>1 DEF TInv, Belated, Is, Apart, Cancelled
  <2>8. Single'
    BY <1>2, <2>2, <1>1 DEF TInv, Single, Is
  <2> QED
    BY <2>3, <2>4, <2>5, <2>6, <2>7, <2>8 DEF TInv
<1>3. ASSUME NEW l \in Stale, labels' = labels \ {l}, written \subseteq written', written' \subseteq Terminal, Claim \subseteq written',
             call' = [call EXCEPT !.gone = @ \cup {l}]
      PROVE  TInv'
  <2>1. call' \in Calls
    BY <1>3 DEF TInv, TypeOK, Calls, CallMarks, Stale
  <2>2. /\ call'.step = call.step /\ call'.wants = call.wants /\ call'.left = call.left
        /\ call'.read = call.read /\ call'.gone = call.gone \cup {l} /\ call'.owned = call.owned
        /\ call'.page = call.page /\ call'.marks = call.marks
    BY <1>3 DEF TInv, TypeOK, Calls
  <2>3. TypeOK'
    BY <1>3, <2>1, <1>1 DEF TInv, TypeOK, Apart
  <2>4. Asks'
    BY <1>3, <2>2, <1>1 DEF TInv, Asks, LabelSteps, UpdateSteps
  <2>5. Tracks'
    BY <1>3, <2>2, <1>1 DEF TInv, Tracks, LabelSteps, Desired, Is, Stale
  <2>6. Credits'
    BY <1>3, <2>2, <1>1 DEF TInv, Credits, LabelSteps, UpdateSteps, Claim, Is, Apart, Live
  <2>7. Belated'
    BY <1>3, <2>2, <1>1 DEF TInv, Belated, Is, Apart, Cancelled
  <2>8. Single'
    BY <1>3, <2>2, <1>1 DEF TInv, Single, Is
  <2> QED
    BY <2>3, <2>4, <2>5, <2>6, <2>7, <2>8 DEF TInv
<1>4. ASSUME UNCHANGED <<labels, written>>, call' = [call EXCEPT !.step = "audit"]
      PROVE  TInv'
  <2>1. call' \in Calls
    BY <1>4 DEF TInv, TypeOK, Calls, CallMarks
  <2>2. /\ call'.step = "audit" /\ call'.wants = call.wants /\ call'.left = call.left
        /\ call'.read = call.read /\ call'.gone = call.gone /\ call'.owned = call.owned
        /\ call'.page = call.page /\ call'.marks = call.marks
    BY <1>4 DEF TInv, TypeOK, Calls
  <2>3. TypeOK'
    BY <1>4, <2>1, <1>1 DEF TInv, TypeOK, Apart
  <2>4. Asks'
    BY <1>4, <2>2, <1>1 DEF TInv, Asks, LabelSteps, UpdateSteps
  <2>5. Tracks'
    BY <1>4, <2>2, <1>1 DEF TInv, Tracks, LabelSteps, Desired, Is
  <2>6. Credits'
    BY <1>4, <2>2, <1>1 DEF TInv, Credits, LabelSteps, UpdateSteps, Claim, Is, Apart, Live
  <2>7. Belated'
    BY <1>4, <2>2, <1>1 DEF TInv, Belated, Is, Apart, Cancelled
  <2>8. Single'
    BY <1>4, <2>2, <1>1 DEF TInv, Single, Is
  <2> QED
    BY <2>3, <2>4, <2>5, <2>6, <2>7, <2>8 DEF TInv
<1>5. ASSUME NEW l \in Stale, labels' = labels \ {l}, written \subseteq written', written' \subseteq Terminal, Claim \subseteq written',
             call' = [call EXCEPT !.step = "audit", !.marks = @ \ {"calm"}]
      PROVE  TInv'
  <2>1. call' \in Calls
    BY <1>5 DEF TInv, TypeOK, Calls, CallMarks
  <2>2. /\ call'.step = "audit" /\ call'.wants = call.wants /\ call'.left = call.left
        /\ call'.read = call.read /\ call'.gone = call.gone /\ call'.owned = call.owned
        /\ call'.page = call.page /\ call'.marks = call.marks \ {"calm"}
    BY <1>5 DEF TInv, TypeOK, Calls
  <2>3. TypeOK'
    BY <1>5, <2>1, <1>1 DEF TInv, TypeOK, Apart
  <2>4. Asks'
    BY <1>5, <2>2, <1>1 DEF TInv, Asks, LabelSteps, UpdateSteps
  <2>5. Tracks'
    BY <1>5, <2>2, <1>1 DEF TInv, Tracks, LabelSteps, Desired, Is
  <2>6. Credits'
    BY <1>5, <2>2, <1>1 DEF TInv, Credits, LabelSteps, UpdateSteps, Claim, Is, Apart, Live
  <2>7. Belated'
    BY <1>5, <2>2, <1>1 DEF TInv, Belated, Is, Apart, Cancelled
  <2>8. Single'
    BY <1>5, <2>2, <1>1 DEF TInv, Single, Is
  <2> QED
    BY <2>3, <2>4, <2>5, <2>6, <2>7, <2>8 DEF TInv
<1>6. ASSUME NEW l, Lands(labels \ {l})
      PROVE  labels' = labels \ {l} /\ written \subseteq written' /\ written' \subseteq Terminal
             /\ Claim \subseteq written'
  BY <1>1, <1>6, Landed
<1>7. CASE /\ call' = [call EXCEPT !.step = IF Is("close") THEN "close" ELSE "audit",
                                   !.marks = @ \cup {"replaced"}]
           /\ UNCHANGED <<labels, written>>
  BY <1>2, <1>7
<1>8. CASE \E l \in Stale : Lands(labels \ {l}) /\ call' = [call EXCEPT !.gone = @ \cup {l}]
  BY <1>3, <1>6, <1>8
<1>9. CASE Goto("audit") /\ UNCHANGED <<labels, written>>
  BY <1>4, <1>9 DEF Goto
<1>10. CASE \E l \in Stale : /\ Lands(labels \ {l})
                             /\ call' = [call EXCEPT !.step = "audit", !.marks = @ \ {"calm"}]
  BY <1>5, <1>6, <1>10
<1> QED
  BY <1>7, <1>8, <1>9, <1>10 DEF DeleteStale

(* The issue is closed, or not.                                            *)
LEMMA CloseIssueKeeps == ASSUME TInv, Apart, CloseIssue PROVE TInv'
<1>1. ASSUME NEW st \in {"audit", "restore"}, call.step = "close", UNCHANGED <<labels, comments, written>>,
             call' = [call EXCEPT !.step = st]
      PROVE  TInv'
  <2>1. call' \in Calls
    BY <1>1 DEF TInv, TypeOK, Calls, CallMarks
  <2>2. /\ call'.step = st /\ call'.wants = call.wants /\ call'.left = call.left
        /\ call'.read = call.read /\ call'.gone = call.gone /\ call'.owned = call.owned
        /\ call'.page = call.page /\ call'.marks = call.marks
    BY <1>1 DEF TInv, TypeOK, Calls
  <2>3. TypeOK'
    BY <1>1, <2>1 DEF TInv, TypeOK, Apart
  <2>4. Asks'
    BY <1>1, <2>2 DEF TInv, Asks, LabelSteps, UpdateSteps
  <2>5. Tracks'
    BY <1>1, <2>2 DEF TInv, Tracks, LabelSteps, Desired, Is
  <2>6. Credits'
    BY <1>1, <2>2 DEF TInv, Credits, LabelSteps, UpdateSteps, Claim, Is, Apart, Live
  <2>7. Belated'
    BY <1>1, <2>2 DEF TInv, Belated, Is, Apart, Cancelled
  <2>8. Single'
    BY <1>1, <2>2 DEF TInv, Single, Is
  <2> QED
    BY <2>3, <2>4, <2>5, <2>6, <2>7, <2>8 DEF TInv
<1> QED
  BY <1>1 DEF CloseIssue, Goto

(* The deleted labels are put back.                                        *)
LEMMA RestoreLabelsKeeps == ASSUME TInv, Apart, RestoreLabels PROVE TInv'
<1>1. call.step = "restore" /\ UNCHANGED <<comments, written>> /\ call \in Calls /\ labels \subseteq States
  BY DEF RestoreLabels, TInv, TypeOK
<1>2. labels \cup call.gone \subseteq States
  BY <1>1 DEF Calls
<1>3. ASSUME labels' = labels \cup call.gone, call' = [Restored(call) EXCEPT !.step = "audit"]
      PROVE  TInv'
  <2>1. call' \in Calls
    BY <1>3 DEF TInv, TypeOK, Calls, CallMarks, Restored
  <2>2. /\ call'.step = "audit" /\ call'.wants = call.wants /\ call'.left = call.left
        /\ call'.read = call.read /\ call'.gone = {} /\ call'.owned = call.owned
        /\ call'.page = call.page /\ call'.marks = call.marks \ {"replaced"}
    BY <1>3 DEF TInv, TypeOK, Calls, Restored
  <2>3. TypeOK'
    BY <1>3, <2>1, <1>1, <1>2 DEF TInv, TypeOK, Apart
  <2>4. Asks'
    BY <1>3, <2>2, <1>1 DEF TInv, Asks, LabelSteps, UpdateSteps
  <2>5. Tracks'
    BY <1>3, <2>2, <1>1 DEF TInv, Tracks, LabelSteps, Desired, Is
  <2>6. Credits'
    BY <1>3, <2>2, <1>1 DEF TInv, Credits, LabelSteps, UpdateSteps, Claim, Is, Apart, Live
  <2>7. Belated'
    BY <1>3, <2>2, <1>1 DEF TInv, Belated, Is, Apart, Cancelled
  <2>8. Single'
    BY <1>3, <2>2, <1>1 DEF TInv, Single, Is
  <2> QED
    BY <2>3, <2>4, <2>5, <2>6, <2>7, <2>8 DEF TInv
<1>4. ASSUME UNCHANGED labels, call' = [call EXCEPT !.step = "audit"]
      PROVE  TInv'
  <2>1. call' \in Calls
    BY <1>4 DEF TInv, TypeOK, Calls, CallMarks
  <2>2. /\ call'.step = "audit" /\ call'.wants = call.wants /\ call'.left = call.left
        /\ call'.read = call.read /\ call'.gone = call.gone /\ call'.owned = call.owned
        /\ call'.page = call.page /\ call'.marks = call.marks
    BY <1>4 DEF TInv, TypeOK, Calls
  <2>3. TypeOK'
    BY <1>4, <2>1, <1>1, <1>2 DEF TInv, TypeOK, Apart
  <2>4. Asks'
    BY <1>4, <2>2, <1>1 DEF TInv, Asks, LabelSteps, UpdateSteps
  <2>5. Tracks'
    BY <1>4, <2>2, <1>1 DEF TInv, Tracks, LabelSteps, Desired, Is
  <2>6. Credits'
    BY <1>4, <2>2, <1>1 DEF TInv, Credits, LabelSteps, UpdateSteps, Claim, Is, Apart, Live
  <2>7. Belated'
    BY <1>4, <2>2, <1>1 DEF TInv, Belated, Is, Apart, Cancelled
  <2>8. Single'
    BY <1>4, <2>2, <1>1 DEF TInv, Single, Is
  <2> QED
    BY <2>3, <2>4, <2>5, <2>6, <2>7, <2>8 DEF TInv
<1>5. ASSUME labels' = labels \cup call.gone,
             call' = [call EXCEPT !.step = "audit", !.marks = @ \ {"calm"}]
      PROVE  TInv'
  <2>1. call' \in Calls
    BY <1>5 DEF TInv, TypeOK, Calls, CallMarks
  <2>2. /\ call'.step = "audit" /\ call'.wants = call.wants /\ call'.left = call.left
        /\ call'.read = call.read /\ call'.gone = call.gone /\ call'.owned = call.owned
        /\ call'.page = call.page /\ call'.marks = call.marks \ {"calm"}
    BY <1>5 DEF TInv, TypeOK, Calls
  <2>3. TypeOK'
    BY <1>5, <2>1, <1>1, <1>2 DEF TInv, TypeOK, Apart
  <2>4. Asks'
    BY <1>5, <2>2, <1>1 DEF TInv, Asks, LabelSteps, UpdateSteps
  <2>5. Tracks'
    BY <1>5, <2>2, <1>1 DEF TInv, Tracks, LabelSteps, Desired, Is
  <2>6. Credits'
    BY <1>5, <2>2, <1>1 DEF TInv, Credits, LabelSteps, UpdateSteps, Claim, Is, Apart, Live
  <2>7. Belated'
    BY <1>5, <2>2, <1>1 DEF TInv, Belated, Is, Apart, Cancelled
  <2>8. Single'
    BY <1>5, <2>2, <1>1 DEF TInv, Single, Is
  <2> QED
    BY <2>3, <2>4, <2>5, <2>6, <2>7, <2>8 DEF TInv
<1> QED
  BY <1>3, <1>4, <1>5 DEF RestoreLabels, Goto

(* What an audit records was asked for or found.                           *)
LEMMA FireMutationAuditKeeps == ASSUME TInv, Apart, FireMutationAudit PROVE TInv'
<1>1. call.step = "audit" /\ UNCHANGED <<labels, comments, written>> /\ call \in Calls
  BY DEF FireMutationAudit, TInv, TypeOK
<1>2. call.wants # <<>> /\ call.step # "idle" /\ call.step \in LabelSteps
  BY <1>1 DEF TInv, Asks, LabelSteps
<1>3. Live
  BY <1>2 DEF TInv, Credits
<1>4. ASSUME Is("wrote") \/ call.gone # {}, PostWriteState(call) \in Terminal
      PROVE  PostWriteState(call) \in written
  <2>1. PostWriteState(call) # None
    BY <1>4, StateSets
  <2>2. PostWriteState(call) \in call.read \cup {call.wants[1]}
    BY <2>1, StateIsLabel DEF PostWriteState
  <2>3. call.wants[1] \in ToSet(call.wants)
    BY <1>1, <1>2 DEF Calls, ToSet
  <2>4. PostWriteState(call) \in Claim
    BY <1>4, <2>2, <2>3 DEF Claim
  <2> QED
    BY <1>2, <1>4, <2>4 DEF TInv, Credits
<1>5. written \subseteq Terminal
  BY DEF TInv, TypeOK
<1>6. ASSUME NEW m \in SUBSET {"handoff"}, NEW o \in written \cup {None},
             call' = [NoCall EXCEPT !.step = "record", !.marks = m, !.owned = o]
      PROVE  TInv'
  <2>1. call' \in Calls
    BY <1>6, Constants, <1>5 DEF TInv, TypeOK, Calls, CallMarks
  <2>2. /\ call'.step = "record" /\ call'.wants = <<>> /\ call'.left = <<>>
        /\ call'.read = {} /\ call'.gone = {} /\ call'.owned = o
        /\ call'.page = 0 /\ call'.marks = m
    BY <1>6 DEF TInv, TypeOK, Calls, NoCall
  <2>3. TypeOK'
    BY <1>6, <2>1, <1>1, <1>3 DEF TInv, TypeOK, Apart
  <2>4. Asks'
    BY <1>6, <2>2, <1>1, <1>3 DEF TInv, Asks, LabelSteps, UpdateSteps
  <2>5. Tracks'
    BY <1>6, <2>2, <1>1, <1>3 DEF TInv, Tracks, LabelSteps, Desired, Is
  <2>6. Credits'
    BY <1>6, <2>2, <1>1, <1>3 DEF TInv, Credits, LabelSteps, UpdateSteps, Claim, Is, Apart, Live
  <2>7. Belated'
    BY <1>6, <2>2, <1>1, <1>3 DEF TInv, Belated, Is, Apart, Cancelled
  <2>8. Single'
    BY <1>6, <2>2, <1>1, <1>3 DEF TInv, Single, Is
  <2> QED
    BY <2>3, <2>4, <2>5, <2>6, <2>7, <2>8 DEF TInv
<1>7. CASE call' = NoCall
  BY <1>1, <1>5, <1>7, Ended DEF TInv, TypeOK
<1> DEFINE handoff == ClassifyLabelMutation(call)
           m == IF handoff THEN {"handoff"} ELSE {}
           o == IF handoff /\ PostWriteState(call) \in Terminal THEN PostWriteState(call) ELSE None
<1>8. CASE (Is("wrote") \/ call.gone # {}) /\ call' = [NoCall EXCEPT !.step = "record", !.marks = m, !.owned = o]
  <2>1. m \in SUBSET {"handoff"} /\ o \in written \cup {None}
    BY <1>4, <1>8
  <2> HIDE DEF m, o
  <2> QED
    BY <1>6, <1>8, <2>1
<1> QED
  BY <1>7, <1>8 DEF FireMutationAudit

-----------------------------------------------------------------------------
(* The steps of an update.                                                 *)

(* The rest of a sequence.                                                 *)
LEMMA TailOf ==
  ASSUME NEW s \in Seq(States), s # <<>>
  PROVE  /\ Tail(s) \in Seq(States) /\ s[1] \in ToSet(s)
         /\ Len(s) # 1 => Tail(s) # <<>>
         /\ ToSet(Tail(s)) \subseteq ToSet(s)
<1>1. /\ Len(s) \in Nat \ {0} /\ DOMAIN s = 1..Len(s) /\ Tail(s) \in Seq(States)
      /\ DOMAIN Tail(s) = 1..(Len(s) - 1) /\ Len(Tail(s)) = Len(s) - 1
      /\ \A i \in 1..(Len(s) - 1) : Tail(s)[i] = s[i + 1]
  OBVIOUS
<1>2. s[1] \in ToSet(s) /\ (Len(s) # 1 => Tail(s) # <<>>)
  BY <1>1 DEF ToSet
<1>3. \A i \in DOMAIN Tail(s) : Tail(s)[i] \in ToSet(s)
  BY <1>1 DEF ToSet
<1> QED
  BY <1>1, <1>2, <1>3 DEF ToSet

LEMMA CallUpdateKeeps ==
  ASSUME TInv, Apart, NEW wants \in Seq(States), wants # <<>>, CallUpdate(wants)
  PROVE  TInv'
<1>1. UNCHANGED <<labels, comments, written>> /\ Live
  BY DEF CallUpdate, Idle
<1>2. ASSUME call' = [NoCall EXCEPT !.step = "guard", !.wants = wants, !.left = wants]
      PROVE  TInv'
  <2>1. call' \in Calls
    BY <1>2, Constants DEF TInv, TypeOK, Calls, CallMarks
  <2>2. /\ call'.step = "guard" /\ call'.wants = wants /\ call'.left = wants
        /\ call'.read = {} /\ call'.gone = {} /\ call'.owned = None
        /\ call'.page = 0 /\ call'.marks = {}
    BY <1>2 DEF TInv, TypeOK, Calls, NoCall
  <2>3. TypeOK'
    BY <1>2, <2>1, <1>1 DEF TInv, TypeOK, Apart
  <2>4. Asks'
    BY <1>2, <2>2, <1>1 DEF TInv, Asks, LabelSteps, UpdateSteps
  <2>5. Tracks'
    BY <1>2, <2>2, <1>1 DEF TInv, Tracks, LabelSteps, Desired, Is
  <2>6. Credits'
    BY <1>2, <2>2, <1>1 DEF TInv, Credits, LabelSteps, UpdateSteps, Claim, Is, Apart, Live
  <2>7. Belated'
    BY <1>2, <2>2, <1>1 DEF TInv, Belated, Is, Apart, Cancelled
  <2>8. Single'
    BY <1>2, <2>2, <1>1 DEF TInv, Single, Is
  <2> QED
    BY <2>3, <2>4, <2>5, <2>6, <2>7, <2>8 DEF TInv
<1> QED
  BY <1>2 DEF CallUpdate

(* The guard of one update.                                                *)
LEMMA CheckKeeps == ASSUME TInv, Apart, CheckCurrentIssueUpdate PROVE TInv'
<1>1. call.step = "guard" /\ UNCHANGED <<labels, comments, written>> /\ call \in Calls
  BY DEF CheckCurrentIssueUpdate, TInv, TypeOK
<1>2. call.left \in Seq(States) /\ call.left # <<>>
  BY <1>1 DEF TInv, Asks, Calls
<1>3. /\ Tail(call.left) \in Seq(States) /\ call.left[1] \in ToSet(call.left)
      /\ Len(call.left) # 1 => Tail(call.left) # <<>>
      /\ ToSet(Tail(call.left)) \subseteq ToSet(call.left)
  BY <1>2, TailOf
<1>4. /\ ToSet(call.left) \subseteq ToSet(call.wants)
      /\ call.owned \in {None} \cup (Terminal \cap ToSet(call.wants))
  BY <1>1 DEF TInv, Credits, UpdateSteps
<1>5. ASSUME NEW o \in TerminalState(call.left[1])
      PROVE  o \in {None} \cup (Terminal \cap ToSet(call.wants))
  BY <1>3, <1>4, <1>5 DEF TerminalState
<1>6. ASSUME NEW o \in {None} \cup (Terminal \cap ToSet(call.wants)), NEW t \in Seq(States),
             NEW st \in {"guard", "send"}, st = "guard" => t # <<>>,
             ToSet(t) \subseteq ToSet(call.left),
             call' = [call EXCEPT !.left = t, !.owned = o, !.marks = @ \cup {"handoff"}, !.step = st]
      PROVE  TInv'
  <2>1. call' \in Calls
    BY <1>6 DEF TInv, TypeOK, Calls, CallMarks
  <2>2. /\ call'.step = st /\ call'.wants = call.wants /\ call'.left = t
        /\ call'.read = call.read /\ call'.gone = call.gone /\ call'.owned = o
        /\ call'.page = call.page /\ call'.marks = call.marks \cup {"handoff"}
    BY <1>6 DEF TInv, TypeOK, Calls
  <2>3. TypeOK'
    BY <1>6, <2>1, <1>1 DEF TInv, TypeOK, Apart
  <2>4. Asks'
    BY <1>6, <2>2, <1>1 DEF TInv, Asks, LabelSteps, UpdateSteps
  <2>5. Tracks'
    BY <1>6, <2>2, <1>1 DEF TInv, Tracks, LabelSteps, Desired, Is
  <2>6. Credits'
    BY <1>6, <2>2, <1>1, <1>4 DEF TInv, Credits, LabelSteps, UpdateSteps, Claim, Is, Apart, Live
  <2>7. Belated'
    BY <1>6, <2>2, <1>1 DEF TInv, Belated, Is, Apart, Cancelled
  <2>8. Single'
    BY <1>6, <2>2, <1>1 DEF TInv, Single, Is
  <2> QED
    BY <2>3, <2>4, <2>5, <2>6, <2>7, <2>8 DEF TInv
<1>7. CASE call' = NoCall
  BY <1>1, <1>7, Ended DEF TInv, TypeOK
<1>8. CASE \E o \in TerminalState(call.left[1]) :
             call' = [call EXCEPT !.left = Tail(@), !.owned = o, !.marks = @ \cup {"handoff"},
                                  !.step = IF Len(call.left) = 1 THEN "send" ELSE @]
  <2>1. PICK o \in TerminalState(call.left[1]) :
             call' = [call EXCEPT !.left = Tail(@), !.owned = o, !.marks = @ \cup {"handoff"},
                                  !.step = IF Len(call.left) = 1 THEN "send" ELSE @]
    BY <1>8
  <2> DEFINE st == IF Len(call.left) = 1 THEN "send" ELSE "guard"
  <2>2. call' = [call EXCEPT !.left = Tail(call.left), !.owned = o, !.marks = @ \cup {"handoff"}, !.step = st]
    BY <1>1, <2>1
  <2>3. st \in {"guard", "send"} /\ (st = "guard" => Tail(call.left) # <<>>)
    BY <1>3
  <2> HIDE DEF st
  <2> QED
    BY <1>3, <1>5, <1>6, <2>2, <2>3
<1> QED
  BY <1>7, <1>8 DEF CheckCurrentIssueUpdate, End

(* The update is sent.                                                     *)
LEMMA SendUpdateKeeps == ASSUME TInv, Apart, SendUpdate PROVE TInv'
<1>1. call.step = "send" /\ UNCHANGED comments /\ call \in Calls
  BY DEF SendUpdate, TInv, TypeOK
<1>2. call.wants \in Seq(States) /\ call.wants # <<>>
  BY <1>1 DEF TInv, Asks, Calls, UpdateSteps
<1>3. Last(call.wants) \in States /\ ToSet(call.wants) \subseteq States
  BY <1>2 DEF Last, ToSet
<1>4. ASSUME NEW s \in States, Lands({s})
      PROVE  /\ labels' = {s} /\ written \subseteq written' /\ written' \subseteq Terminal
             /\ Claim \subseteq written'
  <2>1. {s} \subseteq States
    OBVIOUS
  <2> QED
    BY <1>4, <2>1, Landed
<1>5. ASSUME NEW m, m = (IF latch THEN {"late"} ELSE {}), labels' \subseteq States, written \subseteq written', written' \subseteq Terminal, Claim \subseteq written',
             call' = [call EXCEPT !.step = "lookup", !.marks = @ \cup m]
      PROVE  TInv'
  <2>1. call' \in Calls
    BY <1>5 DEF TInv, TypeOK, Calls, CallMarks
  <2>2. /\ call'.step = "lookup" /\ call'.wants = call.wants /\ call'.left = call.left
        /\ call'.read = call.read /\ call'.gone = call.gone /\ call'.owned = call.owned
        /\ call'.page = call.page /\ call'.marks = call.marks \cup m
    BY <1>5 DEF TInv, TypeOK, Calls
  <2>3. TypeOK'
    BY <1>5, <2>1, <1>1 DEF TInv, TypeOK, Apart
  <2>4. Asks'
    BY <1>5, <2>2, <1>1 DEF TInv, Asks, LabelSteps, UpdateSteps
  <2>5. Tracks'
    BY <1>5, <2>2, <1>1 DEF TInv, Tracks, LabelSteps, Desired, Is
  <2>6. Credits'
    BY <1>5, <2>2, <1>1 DEF TInv, Credits, LabelSteps, UpdateSteps, Claim, Is, Apart, Live
  <2>7. Belated'
    BY <1>5, <2>2, <1>1 DEF TInv, Belated, Is, Apart, Cancelled
  <2>8. Single'
    BY <1>5, <2>2, <1>1 DEF TInv, Single, Is
  <2> QED
    BY <2>3, <2>4, <2>5, <2>6, <2>7, <2>8 DEF TInv
<1>6. CASE Lands({Last(call.wants)})
           /\ call' = [call EXCEPT !.step = "lookup", !.marks = @ \cup (IF latch THEN {"late"} ELSE {})]
  <2>1. labels' \subseteq States
    BY <1>3, <1>4, <1>6
  <2> QED
    BY <1>3, <1>4, <1>5, <1>6, <2>1
<1>7. CASE End /\ UNCHANGED <<labels, written>>
  BY <1>1, <1>7, Ended DEF End, TInv, TypeOK
<1>8. CASE End /\ \E v \in ToSet(call.wants) : Lands({v})
  <2>1. PICK v \in States : Lands({v})
    BY <1>3, <1>8
  <2>2. labels' \subseteq States
    BY <1>4, <2>1
  <2> QED
    BY <1>1, <1>4, <1>8, <2>1, <2>2, Ended DEF End
<1> QED
  BY <1>6, <1>7, <1>8 DEF SendUpdate

(* A recorded stop is looked up.                                           *)
LEMMA LookupStopKeeps == ASSUME TInv, Apart, LookupStop PROVE TInv'
<1>1. call.step = "lookup" /\ UNCHANGED <<labels, comments, written>> /\ call \in Calls
  BY DEF LookupStop, TInv, TypeOK
<1>2. ASSUME ~ latch \/ Cancelled, call' = [call EXCEPT !.step = "record"]
      PROVE  TInv'
  <2>1. call' \in Calls
    BY <1>2 DEF TInv, TypeOK, Calls, CallMarks
  <2>2. /\ call'.step = "record" /\ call'.wants = call.wants /\ call'.left = call.left
        /\ call'.read = call.read /\ call'.gone = call.gone /\ call'.owned = call.owned
        /\ call'.page = call.page /\ call'.marks = call.marks
    BY <1>2 DEF TInv, TypeOK, Calls
  <2>3. TypeOK'
    BY <1>2, <2>1, <1>1 DEF TInv, TypeOK, Apart
  <2>4. Asks'
    BY <1>2, <2>2, <1>1 DEF TInv, Asks, LabelSteps, UpdateSteps
  <2>5. Tracks'
    BY <1>2, <2>2, <1>1 DEF TInv, Tracks, LabelSteps, Desired, Is
  <2>6. Credits'
    BY <1>2, <2>2, <1>1 DEF TInv, Credits, LabelSteps, UpdateSteps, Claim, Is, Apart, Live
  <2>7. Belated'
    BY <1>2, <2>2, <1>1 DEF TInv, Belated, Is, Apart, Cancelled
  <2>8. Single'
    BY <1>2, <2>2, <1>1 DEF TInv, Single, Is
  <2> QED
    BY <2>3, <2>4, <2>5, <2>6, <2>7, <2>8 DEF TInv
<1>3. CASE End
  BY <1>1, <1>3, Ended DEF End, TInv, TypeOK
<1> QED
  BY <1>2, <1>3 DEF LookupStop, PostOperatorTerminalStop, Goto

(* The event reaches the actor.                                            *)
LEMMA RecordHandoffKeeps ==
  ASSUME TInv, RecordHandoff, UNCHANGED <<kind, latch, seen>>
  PROVE  TInv'
<1>1. call.step = "record" /\ UNCHANGED <<labels, comments, written>> /\ call' = NoCall /\ call \in Calls /\ run \in Runs
  BY DEF RecordHandoff, End, TInv, TypeOK
<1>2. call.owned \in written \cup {None} /\ written \subseteq Terminal /\ call.marks \subseteq CallMarks
  BY <1>1 DEF TInv, TypeOK, Credits, Calls
<1>3. run' \in Runs /\ run'.owned \in written \cup {None}
  <2>1. CASE run' = run
    BY <1>1, <2>1 DEF TInv, Credits
  <2>2. CASE run' = [run EXCEPT !.marks = @ \cup ({"handoff"} \cap call.marks),
                                !.owned = IF call.owned = None THEN @ ELSE call.owned]
    BY <1>1, <1>2, <2>2 DEF Runs, RunMarks, TInv, Credits
  <2> QED
    BY <2>1, <2>2 DEF RecordHandoff
<1>4. handed' \in Terminal \cup {None}
  BY <1>2 DEF RecordHandoff, TInv, TypeOK
<1>5. TypeOK'
  BY <1>1, <1>3, <1>4, Constants DEF TInv, TypeOK
<1>6. call'.step = "idle" /\ call'.marks = {}
  BY <1>1 DEF NoCall
<1>7. Asks' /\ Tracks'
  BY <1>6 DEF Asks, Tracks, LabelSteps, UpdateSteps
<1>8. Credits'
  BY <1>1, <1>3, <1>6 DEF Credits, LabelSteps, UpdateSteps
<1>9. Belated'
  BY <1>6 DEF Belated, Is
<1>10. Single'
  BY <1>1, <1>6 DEF TInv, Single
<1> QED
  BY <1>5, <1>7, <1>8, <1>9, <1>10 DEF TInv

-----------------------------------------------------------------------------
(* The steps of the workpad tool.                                          *)

LEMMA CallWorkpadKeeps == ASSUME TInv, Apart, CallWorkpad PROVE TInv'
<1>1. UNCHANGED <<labels, comments, written>> /\ Live
  BY DEF CallWorkpad, Idle
<1>2. ASSUME call' = [NoCall EXCEPT !.step = "find"]
      PROVE  TInv'
  <2>1. call' \in Calls
    BY <1>2, Constants DEF TInv, TypeOK, Calls, CallMarks
  <2>2. /\ call'.step = "find" /\ call'.wants = <<>> /\ call'.left = <<>>
        /\ call'.read = {} /\ call'.gone = {} /\ call'.owned = None
        /\ call'.page = 0 /\ call'.marks = {}
    BY <1>2 DEF TInv, TypeOK, Calls, NoCall
  <2>3. TypeOK'
    BY <1>2, <2>1, <1>1 DEF TInv, TypeOK, Apart
  <2>4. Asks'
    BY <1>2, <2>2, <1>1 DEF TInv, Asks, LabelSteps, UpdateSteps
  <2>5. Tracks'
    BY <1>2, <2>2, <1>1 DEF TInv, Tracks, LabelSteps, Desired, Is
  <2>6. Credits'
    BY <1>2, <2>2, <1>1 DEF TInv, Credits, LabelSteps, UpdateSteps, Claim, Is, Apart, Live
  <2>7. Belated'
    BY <1>2, <2>2, <1>1 DEF TInv, Belated, Is, Apart, Cancelled
  <2>8. Single'
    BY <1>2, <2>2, <1>1, PageBounds DEF TInv, Single, Is, TypeOK
  <2> QED
    BY <2>3, <2>4, <2>5, <2>6, <2>7, <2>8 DEF TInv
<1> QED
  BY <1>2 DEF CallWorkpad

(* A page is searched.                                                     *)
LEMMA FindCommentKeeps == ASSUME TInv, Apart, FindComment PROVE TInv'
<1>1. /\ call.step = "find" /\ UNCHANGED <<labels, comments, written>> /\ call \in Calls /\ call.page \in Nat
      /\ comments \in Seq({"workpad", "other"})
  BY DEF FindComment, TInv, TypeOK, Calls
<1> DEFINE p == call.page * PageSize
           here == \E c \in PageOf(call.page) : comments[c] = "workpad"
<1>2. p \in Nat /\ (call.page + 1) * PageSize = p + PageSize /\ PageSize \in Nat
  BY <1>1, PageBounds
<1>3. \A n \in DOMAIN comments : n <= p => comments[n] # "workpad"
  BY <1>1 DEF TInv, Single
<1>4. ASSUME ~ here
      PROVE  \A n \in DOMAIN comments : n <= p + PageSize => comments[n] # "workpad"
  BY <1>1, <1>2, <1>3, <1>4 DEF PageOf
<1>5. ASSUME ~ here, LastPage(call.page)
      PROVE  \A n \in DOMAIN comments : comments[n] # "workpad"
  <2>1. \A n \in DOMAIN comments : n <= p + PageSize
    BY <1>1, <1>2, <1>5 DEF LastPage
  <2> QED
    BY <1>4, <1>5, <2>1
<1>6. call.step # "idle" /\ Live
  BY <1>1 DEF TInv, Credits
<1> HIDE DEF p, here
<1>7. ASSUME NEW m \in {{}, {"found"}}, m = {} => ~ here /\ LastPage(call.page),
             call' = [call EXCEPT !.step = "write", !.marks = m]
      PROVE  TInv'
  <2>1. call' \in Calls
    BY <1>7 DEF TInv, TypeOK, Calls, CallMarks
  <2>2. /\ call'.step = "write" /\ call'.wants = call.wants /\ call'.left = call.left
        /\ call'.read = call.read /\ call'.gone = call.gone /\ call'.owned = call.owned
        /\ call'.page = call.page /\ call'.marks = m
    BY <1>7 DEF TInv, TypeOK, Calls
  <2>3. TypeOK'
    BY <1>7, <2>1, <1>1 DEF TInv, TypeOK, Apart
  <2>4. Asks'
    BY <1>7, <2>2, <1>1 DEF TInv, Asks, LabelSteps, UpdateSteps
  <2>5. Tracks'
    BY <1>7, <2>2, <1>1 DEF TInv, Tracks, LabelSteps, Desired, Is
  <2>6. Credits'
    BY <1>7, <2>2, <1>1, <1>6 DEF TInv, Credits, LabelSteps, UpdateSteps, Claim, Is, Apart, Live
  <2>7. Belated'
    BY <1>7, <2>2, <1>1 DEF TInv, Belated, Is, Apart, Cancelled
  <2>8. Single'
    BY <1>7, <2>2, <1>1, <1>5 DEF TInv, Single, Is
  <2> QED
    BY <2>3, <2>4, <2>5, <2>6, <2>7, <2>8 DEF TInv
<1>8. ASSUME ~ here, NEW q \in Nat, q = call.page + 1, call' = [call EXCEPT !.page = q]
      PROVE  TInv'
  <2>1. call' \in Calls
    BY <1>8 DEF TInv, TypeOK, Calls, CallMarks
  <2>2. /\ call'.step = call.step /\ call'.wants = call.wants /\ call'.left = call.left
        /\ call'.read = call.read /\ call'.gone = call.gone /\ call'.owned = call.owned
        /\ call'.page = q /\ call'.marks = call.marks
    BY <1>8 DEF TInv, TypeOK, Calls
  <2>3. TypeOK'
    BY <1>8, <2>1, <1>1 DEF TInv, TypeOK, Apart
  <2>4. Asks'
    BY <1>8, <2>2, <1>1 DEF TInv, Asks, LabelSteps, UpdateSteps
  <2>5. Tracks'
    BY <1>8, <2>2, <1>1 DEF TInv, Tracks, LabelSteps, Desired, Is
  <2>6. Credits'
    BY <1>8, <2>2, <1>1 DEF TInv, Credits, LabelSteps, UpdateSteps, Claim, Is, Apart, Live
  <2>7. Belated'
    BY <1>8, <2>2, <1>1 DEF TInv, Belated, Is, Apart, Cancelled
  <2>8. Single'
    BY <1>8, <2>2, <1>1, <1>2, <1>4 DEF TInv, Single, Is
  <2> QED
    BY <2>3, <2>4, <2>5, <2>6, <2>7, <2>8 DEF TInv
<1>9. CASE End
  BY <1>1, <1>9, Ended DEF End, TInv, TypeOK
<1>10. CASE /\ here \/ LastPage(call.page)
            /\ call' = [call EXCEPT !.step = "write", !.marks = IF here THEN {"found"} ELSE {}]
  BY <1>7, <1>10
<1>11. CASE ~ here /\ call' = [call EXCEPT !.page = @ + 1]
  BY <1>1, <1>8, <1>11
<1> QED
  BY <1>9, <1>10, <1>11 DEF FindComment, here

(* The workpad is written: a new one only if the lookup found none.        *)
LEMMA WriteCommentKeeps == ASSUME TInv, Apart, WriteComment PROVE TInv'
<1>1. call.step = "write" /\ UNCHANGED <<labels, written>> /\ call' = NoCall
  BY DEF WriteComment, End
<1>2. comments \in Seq({"workpad", "other"})
  BY DEF TInv, TypeOK
<1>3. CASE comments' = comments
  BY <1>1, <1>3, Ended DEF TInv, TypeOK
<1>4. CASE ~ Is("found") /\ comments' = Append(comments, "workpad")
  <2>1. \A n \in DOMAIN comments : comments[n] # "workpad"
    BY <1>1, <1>4 DEF TInv, Single
  <2>2. comments' \in Seq({"workpad", "other"})
    BY <1>2, <1>4
  <2>3. \A n \in DOMAIN comments' : comments'[n] = "workpad" => n = Len(comments) + 1
    BY <1>2, <1>4, <2>1
  <2>4. TypeOK'
    BY <1>1, <2>2, Constants DEF TInv, TypeOK, Apart
  <2>5. call'.step = "idle" /\ call'.marks = {}
    BY <1>1 DEF NoCall
  <2>6. Asks' /\ Tracks'
    BY <2>5 DEF Asks, Tracks, LabelSteps, UpdateSteps
  <2>7. Credits'
    BY <1>1, <2>5 DEF TInv, Credits, LabelSteps, UpdateSteps, Apart
  <2>8. Belated'
    BY <2>5 DEF Belated, Is
  <2>9. Single'
    BY <2>3, <2>5 DEF Single
  <2> QED
    BY <2>4, <2>6, <2>7, <2>8, <2>9 DEF TInv
<1> QED
  BY <1>3, <1>4 DEF WriteComment

-----------------------------------------------------------------------------
(* The operator and the worker.                                            *)

(* An operator changes the labels.                                         *)
LEMMA EditKeeps ==
  ASSUME TInv, NEW L, L \subseteq States, Edit(L)
  PROVE  TInv'
<1>1. labels' = L /\ handed' = None /\ UNCHANGED <<kind, comments, run, latch, seen, written>>
      /\ call' = [call EXCEPT !.marks = @ \ {"calm"}]
  BY DEF Edit
<1>2. call' \in Calls
  BY <1>1 DEF TInv, TypeOK, Calls, CallMarks
<1>3. /\ call'.step = call.step /\ call'.wants = call.wants /\ call'.left = call.left
      /\ call'.read = call.read /\ call'.gone = call.gone /\ call'.owned = call.owned
      /\ call'.page = call.page /\ call'.marks = call.marks \ {"calm"}
  BY <1>1 DEF TInv, TypeOK, Calls
<1>4. TypeOK'
  BY <1>1, <1>2 DEF TInv, TypeOK
<1>5. Asks'
  BY <1>3 DEF TInv, Asks
<1>6. Tracks'
  BY <1>3 DEF TInv, Tracks, Is, LabelSteps
<1>7. Credits'
  BY <1>1, <1>3 DEF TInv, Credits, Claim, Is, Live
<1>8. Belated'
  BY <1>1, <1>3 DEF TInv, Belated, Is, Cancelled
<1>9. Single'
  BY <1>1, <1>3 DEF TInv, Single, Is
<1> QED
  BY <1>4, <1>5, <1>6, <1>7, <1>8, <1>9 DEF TInv

(* A sequence without one of its elements.                                 *)
LEMMA RemovedAt ==
  ASSUME NEW S, NEW s \in Seq(S), NEW n \in DOMAIN s
  PROVE  /\ RemoveAt(s, n) \in Seq(S) /\ Len(RemoveAt(s, n)) = Len(s) - 1
         /\ \A k \in 1..(Len(s) - 1) : RemoveAt(s, n)[k] = s[IF k < n THEN k ELSE k + 1]
<1> DEFINE a == SubSeq(s, 1, n - 1)
           b == SubSeq(s, n + 1, Len(s))
<1>1. n \in 1..Len(s) /\ Len(s) \in Nat /\ \A i \in 1..Len(s) : s[i] \in S
  OBVIOUS
<1>2. a \in Seq(S) /\ Len(a) = n - 1 /\ \A i \in 1..(n - 1) : a[i] = s[i]
  <2>1. \A i \in 1..(n - 1) : s[i] \in S
    BY <1>1
  <2> QED
    BY <1>1, <2>1, SubSeqProperties
<1>3. b \in Seq(S) /\ Len(b) = Len(s) - n /\ \A i \in 1..(Len(s) - n) : b[i] = s[n + i]
  <2>1. \A i \in (n + 1)..Len(s) : s[i] \in S
    BY <1>1
  <2> QED
    BY <1>1, <2>1, SubSeqProperties
<1> HIDE DEF a, b
<1>4. /\ a \o b \in Seq(S) /\ Len(a \o b) = Len(s) - 1
      /\ \A i \in 1..(Len(s) - 1) : (a \o b)[i] = IF i <= n - 1 THEN a[i] ELSE b[i - (n - 1)]
  <2>1. /\ a \o b \in Seq(S) /\ Len(a \o b) = Len(a) + Len(b)
        /\ \A i \in 1..(Len(a) + Len(b)) : (a \o b)[i] = IF i <= Len(a) THEN a[i] ELSE b[i - Len(a)]
    BY <1>2, <1>3, ConcatProperties
  <2>2. Len(a) + Len(b) = Len(s) - 1 /\ Len(a) = n - 1
    BY <1>1, <1>2, <1>3
  <2> HIDE <1>2, <1>3
  <2> QED
    BY <2>1, <2>2
<1>5. \A i \in 1..(Len(s) - 1) : (a \o b)[i] = s[IF i < n THEN i ELSE i + 1]
  <2> SUFFICES ASSUME NEW i \in 1..(Len(s) - 1)
               PROVE  (a \o b)[i] = s[IF i < n THEN i ELSE i + 1]
    OBVIOUS
  <2>1. CASE i < n
    <3>1. i \in 1..(n - 1) /\ i <= n - 1
      BY <1>1, <2>1
    <3> QED
      BY <1>2, <1>4, <2>1, <3>1
  <2>2. CASE ~ (i < n)
    <3>1. i - (n - 1) \in 1..(Len(s) - n) /\ ~ (i <= n - 1) /\ n + (i - (n - 1)) = i + 1
      BY <1>1, <2>2
    <3>2. b[i - (n - 1)] = s[i + 1]
      BY <1>3, <3>1
    <3> QED
      BY <1>4, <2>2, <3>1, <3>2
  <2> QED
    BY <2>1, <2>2
<1> QED
  BY <1>4, <1>5 DEF RemoveAt, a, b

(* An operator writes a comment or deletes the workpad: then there is none.*)
LEMMA OperatorCommentsKeeps == ASSUME TInv, OperatorComments PROVE TInv'
<1>1. UNCHANGED <<kind, labels, call, run, latch, seen, written, handed>>
  BY DEF OperatorComments, ghosts
<1>2. comments \in Seq({"workpad", "other"})
  BY DEF TInv, TypeOK
<1>3. ASSUME comments' \in Seq({"workpad", "other"}), Single'
      PROVE  TInv'
  <2>1. TypeOK'
    BY <1>1, <1>3 DEF TInv, TypeOK
  <2>2. Asks' /\ Tracks'
    BY <1>1 DEF TInv, Asks, Tracks, Is, Desired
  <2>3. Credits'
    BY <1>1 DEF TInv, Credits, Claim, Is, Live
  <2>4. Belated'
    BY <1>1 DEF TInv, Belated, Is, Cancelled
  <2> QED
    BY <1>3, <2>1, <2>2, <2>3, <2>4 DEF TInv
<1>4. CASE comments' = Append(comments, "other")
  <2>1. comments' \in Seq({"workpad", "other"})
    BY <1>2, <1>4
  <2>2. \A n \in DOMAIN comments' :
          comments'[n] = "workpad" => n \in DOMAIN comments /\ comments[n] = "workpad"
    BY <1>2, <1>4
  <2>3. Single'
    BY <1>1, <2>2 DEF TInv, Single, Is
  <2> QED
    BY <1>3, <2>1, <2>3
<1>5. ASSUME NEW n \in DOMAIN comments, comments[n] = "workpad", comments' = RemoveAt(comments, n)
      PROVE  TInv'
  <2>1. /\ comments' \in Seq({"workpad", "other"}) /\ Len(comments') = Len(comments) - 1
        /\ \A k \in 1..(Len(comments) - 1) : comments'[k] = comments[IF k < n THEN k ELSE k + 1]
    BY <1>2, <1>5, RemovedAt
  <2>2. \A k \in DOMAIN comments' : comments'[k] # "workpad"
    <3> SUFFICES ASSUME NEW k \in DOMAIN comments' PROVE comments'[k] # "workpad"
      OBVIOUS
    <3>1. k \in 1..(Len(comments) - 1) /\ n \in 1..Len(comments) /\ Len(comments) \in Nat
      BY <1>2, <2>1
    <3>2. \A m \in DOMAIN comments : m # n => comments[m] # "workpad"
      BY <1>5 DEF TInv, Single
    <3>3. CASE k < n
      BY <1>2, <2>1, <3>1, <3>2, <3>3
    <3>4. CASE ~ (k < n)
      BY <1>2, <2>1, <3>1, <3>2, <3>4
    <3> QED
      BY <3>3, <3>4
  <2>3. Single'
    BY <1>1, <2>2 DEF Single
  <2> QED
    BY <1>3, <2>1, <2>3
<1> QED
  BY <1>4, <1>5 DEF OperatorComments

(* A step that leaves the call and the issue alone and changes the run.    *)
LEMMA WorkerKeeps ==
  ASSUME TInv, UNCHANGED <<kind, toolVars>>, run' \in Runs, latch' \in BOOLEAN,
         seen' \in States \cup {Nothing, Missing}, written' \subseteq Terminal,
         handed' \in Terminal \cup {None}, run'.owned \in written' \cup {None},
         \/ call.step = "idle"
         \/ written' = written /\ Live' /\ (latch => latch') /\ (Cancelled => Cancelled')
  PROVE  TInv'
<1>1. UNCHANGED <<kind, labels, comments, call>>
  BY DEF toolVars
<1>2. TypeOK'
  BY <1>1 DEF TInv, TypeOK
<1>3. Asks' /\ Tracks' /\ Single'
  BY <1>1 DEF TInv, Asks, Tracks, Single, Is, Desired
<1>4. Credits'
  BY <1>1 DEF TInv, Credits, Claim, Is, LabelSteps, UpdateSteps
<1>5. Belated'
  BY <1>1 DEF TInv, Belated, Is
<1> QED
  BY <1>2, <1>3, <1>4, <1>5 DEF TInv

(* The steps of the worker.                                                *)
LEMMA WorkerSteps ==
  ASSUME TInv, Observe \/ Reconcile \/ CancelWorker \/ SelfStop \/ Finalize \/ Dispatch
  PROVE  TInv'
<1>1. /\ run \in Runs /\ latch \in BOOLEAN /\ seen \in States \cup {Nothing, Missing}
      /\ written \subseteq Terminal /\ handed \in Terminal \cup {None}
      /\ run.owned \in written \cup {None} /\ (call.step # "idle" => Live)
  BY DEF TInv, TypeOK, Credits
<1>2. CASE Observe
  <2>1. seen' \in States \cup {Nothing, Missing}
    BY <1>2, StateType DEF Observe, TInv
  <2> QED
    BY <1>1, <1>2, <2>1, WorkerKeeps DEF Observe, ghosts, Live, Cancelled
<1>3. CASE Reconcile
  <2>1. UNCHANGED <<kind, toolVars, written, handed>> /\ seen' = Nothing
    BY <1>3 DEF Reconcile, ghosts
  <2>2. latch' \in BOOLEAN /\ (latch => latch')
    BY <1>1, <1>3 DEF Reconcile
  <2>3. /\ run' \in Runs /\ run'.owned \in {run.owned, None}
        /\ (Live => Live') /\ (Cancelled => Cancelled')
    <3>1. ASSUME NEW m \in SUBSET RunMarks, NEW o \in {run.owned, None},
                 run' = [run EXCEPT !.marks = m, !.owned = o],
                 "live" \in m, "cancelled" \in run.marks => "cancelled" \in m
          PROVE  /\ run' \in Runs /\ run'.owned \in {run.owned, None}
                 /\ (Live => Live') /\ (Cancelled => Cancelled')
      BY <1>1, <3>1 DEF Runs, Live, Cancelled
    <3>2. CASE run' = run
      BY <1>1, <3>2 DEF Live, Cancelled
    <3>3. run.marks \subseteq RunMarks /\ run = [run EXCEPT !.owned = run.owned]
      BY <1>1 DEF Runs
    <3>4. CASE Live /\ run' = [run EXCEPT !.marks = @ \ {"handoff"}, !.owned = None]
      <4>1. (run.marks \ {"handoff"}) \in SUBSET RunMarks /\ "live" \in (run.marks \ {"handoff"})
            /\ ("cancelled" \in run.marks => "cancelled" \in (run.marks \ {"handoff"}))
        BY <3>3, <3>4 DEF Live, RunMarks
      <4> QED
        BY <3>1, <3>4, <4>1
    <3>5. CASE Live /\ run' = [run EXCEPT !.marks = @ \cup {"stopped"}]
      <4>1. run' = [run EXCEPT !.marks = @ \cup {"stopped"}, !.owned = run.owned]
        BY <1>1, <3>5 DEF Runs
      <4>2. (run.marks \cup {"stopped"}) \in SUBSET RunMarks /\ "live" \in (run.marks \cup {"stopped"})
            /\ ("cancelled" \in run.marks => "cancelled" \in (run.marks \cup {"stopped"}))
        BY <3>3, <3>5 DEF Live, RunMarks
      <4> QED
        BY <3>1, <4>1, <4>2
    <3>6. CASE Live /\ run' = [run EXCEPT !.marks = @ \cup {"stopped"}, !.owned = None]
      <4>1. (run.marks \cup {"stopped"}) \in SUBSET RunMarks /\ "live" \in (run.marks \cup {"stopped"})
            /\ ("cancelled" \in run.marks => "cancelled" \in (run.marks \cup {"stopped"}))
        BY <3>3, <3>6 DEF Live, RunMarks
      <4> QED
        BY <3>1, <3>6, <4>1
    <3>7. CASE Live /\ run' = [run EXCEPT !.marks = (@ \ {"handoff"}) \cup {"stopped"}, !.owned = None]
      <4>1. ((run.marks \ {"handoff"}) \cup {"stopped"}) \in SUBSET RunMarks /\ "live" \in ((run.marks \ {"handoff"}) \cup {"stopped"})
            /\ ("cancelled" \in run.marks => "cancelled" \in ((run.marks \ {"handoff"}) \cup {"stopped"}))
        BY <3>3, <3>7 DEF Live, RunMarks
      <4> QED
        BY <3>1, <3>7, <4>1
    <3> QED
      BY <1>3, <3>2, <3>4, <3>5, <3>6, <3>7 DEF Reconcile
  <2>4. call.step = "idle" \/ Live'
    BY <1>1, <2>3
  <2> QED
    BY <1>1, <2>1, <2>2, <2>3, <2>4, WorkerKeeps
<1>4. CASE CancelWorker
  <2>1. run' \in Runs /\ run'.owned = run.owned /\ run'.marks = run.marks \cup {"cancelled"}
    BY <1>1, <1>4 DEF CancelWorker, Runs, RunMarks
  <2> QED
    BY <1>1, <1>4, <2>1, WorkerKeeps DEF CancelWorker, ghosts, Live, Cancelled
<1>5. CASE SelfStop
  <2>1. PICK s \in IF latch THEN Terminal ELSE {State} \ (Active \cup {None}) :
          run' = [run EXCEPT !.exit = s]
    BY <1>5 DEF SelfStop
  <2>2. s \in States
    BY <2>1, StateSets, StateType DEF TInv
  <2>3. run' \in Runs /\ run'.owned = run.owned
    BY <1>1, <2>1, <2>2 DEF Runs
  <2> QED
    BY <1>1, <1>5, <2>3, WorkerKeeps DEF SelfStop, Idle, ghosts
<1>6. CASE Finalize
  <2>1. run' \in Runs /\ run'.owned = None
    BY <1>6, Constants DEF Finalize, NoRun
  <2>2. latch' \in BOOLEAN
    BY <1>6 DEF Finalize
  <2> QED
    BY <1>1, <1>6, <2>1, <2>2, WorkerKeeps DEF Finalize, ghosts
<1>7. CASE Dispatch
  <2>1. run' \in Runs /\ run'.owned = None
    BY <1>7, Constants DEF Dispatch, NewRun, NoRun
  <2>2. call.step = "idle" /\ written' = {} /\ handed' = None /\ UNCHANGED <<kind, toolVars, latch, seen>>
    BY <1>1, <1>7 DEF Dispatch
  <2> QED
    BY <1>1, <2>1, <2>2, WorkerKeeps
<1> QED
  BY <1>2, <1>3, <1>4, <1>5, <1>6, <1>7

-----------------------------------------------------------------------------
(* The theorems.                                                           *)

(* Every step keeps the invariant.                                         *)
LEMMA StepKeeps == TInv /\ [Next]_vars => TInv'
<1> SUFFICES ASSUME TInv, [Next]_vars PROVE TInv'
  OBVIOUS
<1>1. CASE Tool
  <2>1. Apart
    BY <1>1 DEF Tool, Apart
  <2>2. ASSUME NEW wants \in SeqOf(States, 2) \ {<<>>}, CallUpdate(wants)
        PROVE  TInv'
    <3>1. SeqOf(States, 2) \subseteq Seq(States)
      BY SeqOfIsSeq
    <3> QED
      BY <2>1, <2>2, <3>1, CallUpdateKeeps
  <2> QED
    BY <1>1, <2>1, <2>2, CallLabelsKeeps, ReadLabelsKeeps, AddDesiredKeeps, DeleteStaleKeeps,
       CloseIssueKeeps, RestoreLabelsKeeps, FireMutationAuditKeeps, CheckKeeps, SendUpdateKeeps,
       LookupStopKeeps, CallWorkpadKeeps, FindCommentKeeps, WriteCommentKeeps DEF Tool
<1>2. CASE RecordHandoff /\ UNCHANGED <<kind, latch, seen>>
  BY <1>2, RecordHandoffKeeps
<1>3. CASE OperatorEdits
  <2>1. labels \subseteq States
    BY DEF TInv, TypeOK
  <2>2. ASSUME NEW l \in LabelsUsed
        PROVE  labels \cup {l} \subseteq States /\ labels \ {l} \subseteq States
    BY <2>1, StateSets
  <2>3. ASSUME NEW s \in States
        PROVE  {s} \subseteq States
    OBVIOUS
  <2> QED
    BY <1>3, <2>2, <2>3, EditKeeps DEF OperatorEdits
<1>4. CASE OperatorComments
  BY <1>4, OperatorCommentsKeeps
<1>5. CASE Observe \/ Reconcile \/ CancelWorker \/ SelfStop \/ Finalize \/ Dispatch
  BY <1>5, WorkerSteps
<1>6. CASE UNCHANGED vars
  <2>1. UNCHANGED <<kind, labels, comments, call, run, latch, seen, written, handed>>
    BY <1>6 DEF vars, toolVars, ghosts
  <2>2. TypeOK' /\ Asks' /\ Tracks'
    BY <2>1 DEF TInv, TypeOK, Asks, Tracks, Is, Desired
  <2>3. Credits' /\ Belated' /\ Single'
    BY <2>1 DEF TInv, Credits, Belated, Single, Is, Claim, Live, Cancelled
  <2> QED
    BY <2>2, <2>3 DEF TInv
<1> QED
  BY <1>1, <1>2, <1>3, <1>4, <1>5, <1>6 DEF Next

(* The invariant holds at the start.                                       *)
LEMMA InitKeeps == Init => TInv
<1> SUFFICES ASSUME Init PROVE TInv
  OBVIOUS
<1>1. call.step = "idle" /\ call.marks = {} /\ run.owned = None
  BY DEF Init, NoCall, NewRun, NoRun
<1>2. \A n \in DOMAIN comments : comments[n] # "workpad"
  <2>1. SeqOf({"other"}, MaxComments) \subseteq Seq({"other"})
    BY SeqOfIsSeq
  <2>2. <<>> \in Seq({"other"})
    OBVIOUS
  <2>3. comments \in Seq({"other"})
    BY <2>1, <2>2, Zenon DEF Init
  <2> QED
    BY <2>3
<1>3. Asks /\ Tracks /\ Credits /\ Belated /\ Single
  BY <1>1, <1>2 DEF Asks, Tracks, Credits, Belated, Single, LabelSteps, UpdateSteps, Is
<1> QED
  BY <1>3, InitTypes DEF TInv

(* The invariant holds throughout.                                         *)
LEMMA Inductive == Spec => []TInv
BY InitKeeps, StepKeeps, PTL DEF Spec

(* Every variable keeps its type.                                          *)
THEOREM ToolTypes == Spec => []TypeOK
<1>1. TInv => TypeOK
  BY DEF TInv
<1> QED
  BY <1>1, Inductive, PTL

(* An undisturbed label call audits what it did to the issue, whichever of *)
(* its requests failed (classifyLabelMutation).                            *)
THEOREM Audited == Spec => []AuditMatchesServer
<1>1. TInv => AuditMatchesServer
  <2> SUFFICES ASSUME TInv, call.step = "audit", Is("calm")
               PROVE  /\ ClassifyLabelMutation(call) <=>
                           IssueStateFromLabels(call.read) \in Active /\ State \notin Active
                      /\ PostWriteState(call) = State
    BY DEF AuditMatchesServer
  <2>1. labels = (call.read \ call.gone) \cup {call.wants[1]}
    BY DEF TInv, Tracks, LabelSteps, Desired
  <2>2. PostWriteState(call) = State
    BY <2>1 DEF PostWriteState, State
  <2> QED
    BY <2>2 DEF ClassifyLabelMutation
<1> QED
  BY <1>1, Inductive, PTL

(* However often the tool is called and whichever answers are lost, there  *)
(* is one workpad at most (findLinearWorkpadCommentID).                    *)
THEOREM NoSecondPad == Spec => []OneWorkpad
<1>1. TInv => OneWorkpad
  <2> SUFFICES ASSUME TInv PROVE OneWorkpad
    OBVIOUS
  <2> DEFINE pads == {n \in DOMAIN comments : comments[n] = "workpad"}
  <2>1. \A m, n \in pads : m = n
    BY DEF TInv, Single
  <2>2. CASE pads = {}
    BY <2>2, FS_EmptySet DEF OneWorkpad
  <2>3. CASE pads # {}
    <3>1. PICK n : n \in pads
      BY <2>3
    <3>2. pads = {n}
      BY <2>1, <3>1
    <3> HIDE DEF pads
    <3>3. Cardinality(pads) = 1
      BY <3>2, FS_Singleton
    <3> QED
      BY <3>3 DEF OneWorkpad, pads
  <2> QED
    BY <2>2, <2>3
<1> QED
  BY <1>1, Inductive, PTL

(* An update that landed after the operator's stop was recorded does not   *)
(* count as a handoff while the run's context is alive                     *)
(* (postOperatorTerminalStop).                                             *)
THEOREM LateIsNoHandoff == Spec => PostStopWritesDontCount
<1> DEFINE Step == Is("late") /\ ~ Cancelled =>
                     /\ "handoff" \in run'.marks => "handoff" \in run.marks
                     /\ run'.owned \in {run.owned, None}
<1>1. TInv /\ [Next]_vars => [Step]_vars
  <2> SUFFICES ASSUME TInv, Next, Is("late"), ~ Cancelled
               PROVE  /\ "handoff" \in run'.marks => "handoff" \in run.marks
                      /\ run'.owned \in {run.owned, None}
    OBVIOUS
  <2>1. run \in Runs /\ call.step = "lookup"
    BY DEF TInv, TypeOK, Belated
  <2>2. CASE run' = run
    BY <2>2
  <2>3. CASE Reconcile
    <3>1. \/ run' = run
          \/ run' = [run EXCEPT !.marks = @ \ {"handoff"}, !.owned = None]
          \/ run' = [run EXCEPT !.marks = @ \cup {"stopped"}]
          \/ run' = [run EXCEPT !.marks = @ \cup {"stopped"}, !.owned = None]
          \/ run' = [run EXCEPT !.marks = (@ \ {"handoff"}) \cup {"stopped"}, !.owned = None]
      BY <2>3, Zenon DEF Reconcile
    <3>2. run'.owned \in {run.owned, None}
      BY <2>1, <3>1 DEF Runs
    <3>3. run'.marks \subseteq run.marks \cup {"stopped"}
      BY <2>1, <3>1 DEF Runs
    <3> QED
      BY <3>2, <3>3
  <2>4. CASE CancelWorker
    BY <2>1, <2>4 DEF CancelWorker, Runs
  <2>5. CASE SelfStop
    BY <2>1, <2>5 DEF SelfStop, Idle
  <2>6. CASE Finalize
    BY <2>6 DEF Finalize, NoRun
  <2>7. CASE Dispatch
    BY <2>7 DEF Dispatch, NewRun, NoRun
  <2>8. CASE RecordHandoff
    BY <2>1, <2>8 DEF RecordHandoff
  <2> QED
    BY <2>2, <2>3, <2>4, <2>5, <2>6, <2>7, <2>8
    DEF Next, Tool, OperatorEdits, Edit, OperatorComments, Observe
<1> HIDE DEF Step
<1>2. Spec => [][Step]_vars
  BY <1>1, Inductive, PTL DEF Spec
<1> QED
  BY <1>2 DEF PostStopWritesDontCount, Step

(* A closed issue escapes the latch only by a write of this very run       *)
(* (agentOwnedTerminalStateMatches).                                       *)
THEOREM MaskIsOwn == Spec => MaskedStopWasAgents
<1> DEFINE Step == Live /\ seen \in Terminal /\ seen' = Nothing /\ ~ latch' => seen \in written
<1>1. TInv /\ [Next]_vars => [Step]_vars
  <2> SUFFICES ASSUME TInv, Next, Live, seen \in Terminal, seen' = Nothing, ~ latch'
               PROVE  seen \in written
    OBVIOUS
  <2>1. run.owned \in written \cup {None}
    BY DEF TInv, Credits
  <2>2. seen \in States /\ seen # Nothing /\ seen # Missing /\ seen # None /\ seen \notin Active
    BY StateSets
  <2>3. Reconcile
    BY <2>2 DEF Next, Tool, OperatorEdits, Edit, OperatorComments, Observe, CancelWorker, SelfStop,
       Finalize, Dispatch
  <2>4. latch' = (latch \/ ~ AgentOwnedTerminalStateMatches(seen))
    BY <2>2, <2>3 DEF Reconcile
  <2> QED
    BY <2>1, <2>2, <2>4 DEF AgentOwnedTerminalStateMatches
<1> HIDE DEF Step
<1>2. Spec => [][Step]_vars
  BY <1>1, Inductive, PTL DEF Spec
<1> QED
  BY <1>2 DEF MaskedStopWasAgents, Step

====
