----------------------------- MODULE Candidates -----------------------------
(***************************************************************************)
(* What the poll loop decides about the issues it lists                    *)
(* (poller_candidates.go): which of them may be dispatched, in which order *)
(* they are tried, and what becomes of the ones left over by the tick      *)
(* before.  A row is what the tracker says of an issue.                    *)
(***************************************************************************)
EXTENDS Integers, Sequences, FiniteSets, Functions

CONSTANT Issues     \* the issues of the tracker

ASSUME IssuesAreFinite == IsFiniteSet(Issues)

(* "todo" stands for the states in which blockers count, "doing" for the   *)
(* other active ones; "odd" is a state the workflow does not mention.      *)
ActiveStates == {"todo", "doing"}
TerminalStates == {"closed"}
InactiveStates == {"parked"}
States == ActiveStates \cup TerminalStates \cup InactiveStates \cup {"odd"}

(* labelled: it has every required label.  blocked: an issue it depends on *)
(* is not in a terminal state.                                             *)
Row == [state : States, labelled : BOOLEAN, blocked : BOOLEAN]

isActiveTrackerState(row) == row.state \in ActiveStates

todoIssueBlockedByOpenDependency(row) == row.state = "todo" /\ row.blocked

(* Mutant: blockers count in every state.                                  *)
EligibleUnblocked(row) == ~ row.blocked /\ row.labelled

(* The eligibility filter of the poll loop, which a retry also passes.     *)
Eligible(row) ==
    /\ ~ todoIssueBlockedByOpenDependency(row)
    /\ row.labelled

(* What the refresh before a dispatch leaves of a listed issue.  Blockers  *)
(* the refresh says nothing about are taken from the listing.              *)
Revalidated(listed, fresh, blockersKnown) ==
    [fresh EXCEPT !.blocked = IF blockersKnown THEN @ ELSE listed.blocked]

(* Mutant: blockers are not looked at again.                               *)
RevalidatedKeepsNoBlockers(row) == isActiveTrackerState(row) /\ row.labelled

RevalidatedEligible(row) == isActiveTrackerState(row) /\ Eligible(row)
-----------------------------------------------------------------------------
(* The order of dispatch.  A key holds what an issue is sorted by: its     *)
(* priority, its creation time (0 when the tracker gives none) and its     *)
(* identifier, whose order is that of its number.                          *)
SortKey == [priority : Int, created : Nat, identifier : Nat]

(* Mutant: an issue without a priority comes first.                        *)
prioritySortKeyUnranked(priority) == IF priority <= 4 THEN priority ELSE 5

prioritySortKey(priority) == IF priority \in 1..4 THEN priority ELSE 5

(* An issue without a creation time counts as the youngest.                *)
createdBefore(left, right) ==
    left # right /\ (right = 0 \/ (left # 0 /\ left < right))

sortsBefore(left, right) ==
    LET p == prioritySortKey(left.priority)
        q == prioritySortKey(right.priority)
    IN  \/ p < q
        \/ p = q /\ createdBefore(left.created, right.created)
        \/ /\ p = q
           /\ left.created = right.created
           /\ left.identifier < right.identifier

(* The answers to a listing of S: some of its issues, in any order.        *)
Listings(S) == UNION {Injection(1..n, S) : n \in 0..Cardinality(S)}

(* The entries of s at the positions P, each at the place its rank gives   *)
(* it: as many before it as there are positions that come before its own.  *)
Arranged(s, P, before) ==
    [k \in 1..Cardinality(P) |->
        s[CHOOSE n \in P : Cardinality({m \in P : <<m, n>> \in before}) = k - 1]]

(* A stable sort: positions decide between issues that sort alike.         *)
sortCandidates(key, s) ==
    LET all == DOMAIN s
        before(a, b) == \/ sortsBefore(key[s[a]], key[s[b]])
                        \/ ~ sortsBefore(key[s[b]], key[s[a]]) /\ a < b
    IN  Arranged(s, all, {p \in all \X all : before(p[1], p[2])})

(* The filters of the poll loop: the entries of s that are in S, in the    *)
(* order they had.                                                         *)
Keep(s, S) ==
    LET kept == {n \in DOMAIN s : s[n] \in S}
    IN  Arranged(s, kept, {p \in kept \X kept : p[1] < p[2]})

(* Issues left over by the last tick come first if they are still listed.  *)
(* Mutant: they are kept even if they are not.                             *)
mergeOverflowKeepsUnlisted(overflow, fresh) ==
    overflow \o Keep(fresh, Range(fresh) \ Range(overflow))

mergeOverflowCandidates(overflow, fresh) ==
    Keep(overflow, Range(fresh)) \o Keep(fresh, Range(fresh) \ Range(overflow))
=============================================================================
