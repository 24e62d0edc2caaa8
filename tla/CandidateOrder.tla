--------------------------- MODULE CandidateOrder ---------------------------
(***************************************************************************)
(* The candidates of a tick on their own (Poller.PollOnce): any listing is *)
(* merged with any overflow and sorted, and compared with the order that   *)
(* SPEC 8.2 asks for.                                                      *)
(***************************************************************************)
EXTENDS Candidates

CONSTANTS Priorities, Created

ASSUME SortKeys == Priorities \subseteq Int /\ Created \subseteq Nat

VARIABLES
    sortKey,    \* what each issue is sorted by
    fetched,    \* the listing
    leftover,   \* the overflow of the last tick
    joined,     \* both merged
    ordered     \* the candidates in the order of dispatch

orderVars == <<sortKey, fetched, leftover, joined, ordered>>

(* Identifiers are distinct within a tracker.                              *)
Keys == {k \in [Issues -> [priority : Priorities, created : Created,
                           identifier : 1..Cardinality(Issues)]] :
             \A i, j \in Issues : i # j => k[i].identifier # k[j].identifier}

OrderInit ==
    /\ sortKey \in Keys
    /\ fetched \in Listings(Issues)
    /\ leftover \in Listings(Issues)
    /\ joined = <<>>
    /\ ordered = <<>>

Merge ==
    /\ joined = <<>>
    /\ joined' = mergeOverflowCandidates(leftover, fetched)
    /\ UNCHANGED <<sortKey, fetched, leftover, ordered>>

Sort ==
    /\ joined # <<>>
    /\ ordered' = sortCandidates(sortKey, joined)
    /\ UNCHANGED <<sortKey, fetched, leftover, joined>>

OrderNext == Merge \/ Sort

OrderSpec == OrderInit /\ [][OrderNext]_orderVars
-----------------------------------------------------------------------------
(* SPEC 8.2: ranked priorities 1 to 4 in order, then everything else;      *)
(* older first, undated last; then by identifier.                          *)
Ranked(i) == sortKey[i].priority \in 1..4
Better(i, j) ==
    \/ Ranked(i) /\ ~ Ranked(j)
    \/ Ranked(i) /\ Ranked(j) /\ sortKey[i].priority < sortKey[j].priority
    \/ /\ Ranked(i) = Ranked(j)
       /\ Ranked(i) => sortKey[i].priority = sortKey[j].priority
       /\ \/ sortKey[i].created # 0 /\ sortKey[j].created = 0
          \/ sortKey[i].created # 0 /\ sortKey[i].created < sortKey[j].created
          \/ /\ sortKey[i].created = sortKey[j].created
             /\ sortKey[i].identifier < sortKey[j].identifier

(* The place of an issue is decided by the listed issues that are better   *)
(* than it is (sortCandidates).                                            *)
PlacedByRank ==
    \A n \in DOMAIN ordered :
        n = 1 + Cardinality({i \in Range(fetched) : Better(i, ordered[n])})

(* What the last tick left over changes neither which issues are tried nor *)
(* their order: a poller that is rebuilt on a reload and loses its         *)
(* overflow dispatches the same (mergeOverflowCandidates, sortCandidates). *)
OverflowIsRedundant ==
    ordered # <<>> => ordered = sortCandidates(sortKey, fetched)
=============================================================================
