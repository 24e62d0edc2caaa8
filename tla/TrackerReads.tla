------------------------------ MODULE TrackerReads ------------------------------
(***************************************************************************)
(* How the tracker adapters (Linear, Gitea, GitHub) read: the listing of   *)
(* the issues in some states and the narrow refresh of the issues the      *)
(* worker has claimed.                                                     *)
(*                                                                         *)
(* A read is many requests: pages, one query per state label, one per      *)
(* issue, one per blocker.  Issues change between two requests and every   *)
(* request may fail, either on its own or in a way that stops the whole    *)
(* read (rate limit, spent context, oversized answer).  What the read      *)
(* returns must not say more than the answers did: the poll loop cancels   *)
(* runs on it and starts them.                                             *)
(*                                                                         *)
(* One read at a time, by one adapter: a workflow has one tracker, and a   *)
(* read shares nothing with another but the cache of issue numbers.        *)
(***************************************************************************)
EXTENDS Naturals, Sequences, FiniteSetsExt

CONSTANTS Kinds,      \* adapters: "linear", "gitea", "github"
          Issues,     \* issues, by number, the order in which they are listed
          Values,     \* Values[i]: what issue i can be in the tracker
          Wanted,     \* states the listing asks for, in order
          Terminal,   \* terminal_states of the workflow
          Native,     \* Native[i]: issues that block i by a tracker relation
          Body,       \* Body[i]: issues that i's text says it depends on
          Foreign,    \* issues that may be of a repository no longer polled
          Claimable,  \* issues that an open pull request may claim
          PageSize,   \* issues per page, and per query of a refresh
          MaxPages,   \* tracker.pagination_max_pages
          MaxEdits    \* bound on the changes to issues during one read

(* "todo" is the state in which blockers count.  "odd" is an aiops label,  *)
(* or a state, the workflow does not know; "none" an issue without a state *)
(* label; "gone" a deleted issue.                                          *)
ASSUME Setting ==
  /\ Kinds \subseteq {"linear", "gitea", "github"}
  /\ IsFiniteSet(Issues) /\ Issues \subseteq Nat \ {0}
  /\ Claimable \subseteq Issues /\ Foreign \subseteq Issues
  /\ \A i \in Issues : Values[i] \cap {"unknown", "absent"} = {}
  /\ Wanted \in Seq(STRING) /\ Wanted # <<>>
  /\ Terminal \cap {"todo", "odd", "none", "gone", "unknown"} = {}
  /\ Native \in [Issues -> SUBSET Issues] /\ Body \in [Issues -> SUBSET Issues]
  /\ PageSize \in Nat \ {0} /\ MaxPages \in Nat \ {0} /\ MaxEdits \in Nat

VARIABLES
  kind, now,    \* now[i]: issue i in the tracker
  foreign,      \* tracked issues of another repository: unknown to this one
  numbers,      \* issues whose number the client has cached
  pulls,        \* issues claimed by open pull requests
  read,         \* the read in progress or just finished
  was,          \* was[i]: what issue i has been since the read began
  edits

vars == <<kind, now, foreign, numbers, pulls, read, was, edits>>
world == <<kind, now, foreign, pulls, was, edits>>

(* What the read knows of an issue: "unknown" (not listed), "absent", or   *)
(* its state; and of its blockers: "none" looked at, "clear", "blocked".   *)
Blank ==
  [op |-> "idle", step |-> "start", scope |-> 1, page |-> 1, after |-> 0, marks |-> {},
   claimed |-> {}, todo |-> {}, deps |-> {},
   found |-> [i \in Issues |-> "unknown"], blk |-> [i \in Issues |-> "none"],
   cache |-> [i \in Issues |-> "unknown"]]

Told == {"unknown", "absent", "gone", "open"} \cup UNION {Values[i] : i \in Issues}

(* marks: "last" on the last page of a label or listing, "capped" when the *)
(* page limit cut one short.                                               *)
Reads ==
  [op : {"idle", "list", "refresh"},
   step : {"start", "claims", "page", "next", "blockers", "native", "lookup", "fetch",
           "ok", "failed"},
   scope : Nat \ {0}, page : Nat \ {0}, after : Nat, marks : SUBSET {"last", "capped"},
   claimed : SUBSET Issues, todo : SUBSET Issues, deps : SUBSET Issues,
   found : [Issues -> Told], blk : [Issues -> {"none", "clear", "blocked"}],
   cache : [Issues -> Told]]

Finished == read.step \in {"ok", "failed"}
Go(step) == [read EXCEPT !.step = step]
Step(s) == read.step = s
Listing == read.op = "list"
Refreshing == read.op = "refresh"

(* Linear has no issue without a state.                                    *)
Possible(i) == IF kind = "linear" THEN Values[i] \ {"none"} ELSE Values[i]

TypeOK ==
  /\ kind \in Kinds
  /\ \A i \in Issues : now[i] \in Possible(i) /\ was[i] \subseteq Possible(i)
  /\ foreign \subseteq Foreign /\ numbers \subseteq Issues \ foreign
  /\ pulls \subseteq Claimable
  /\ read \in Reads
  /\ edits \in 0..MaxEdits

Init ==
  /\ kind \in Kinds
  /\ now \in [Issues -> UNION {Values[i] : i \in Issues}]
  /\ \A i \in Issues : now[i] \in Possible(i)
  /\ foreign \in IF kind = "linear" THEN {{}} ELSE SUBSET Foreign
  /\ numbers \in IF kind = "linear" THEN {{}} ELSE {{}, Issues \ foreign}
  /\ pulls \in IF kind = "github" THEN SUBSET Claimable ELSE {{}}
  /\ read = Blank
  /\ was = [i \in Issues |-> {now[i]}]
  /\ edits = 0
-----------------------------------------------------------------------------
(* The tracker.                                                            *)

Edit ==
  /\ ~ Step("start") /\ ~ Finished /\ edits < MaxEdits
  /\ \E i \in Issues : \E s \in Possible(i) \ {now[i]} :
       /\ now' = [now EXCEPT ![i] = s]
       /\ was' = [was EXCEPT ![i] = @ \cup {s}]
  /\ edits' = edits + 1
  /\ UNCHANGED <<kind, foreign, numbers, pulls, read>>

(* A request fails on its own, or in a way that stops the read.            *)
Failures == {"other", "stop"}

(* Requests of one issue by number.                                        *)
Answer(i) == IF i \in foreign THEN "gone" ELSE now[i]

(* The states an adapter makes of an issue it has got.  GitHub falls back  *)
(* to the issue's own state.                                               *)
Derived(s) == IF kind = "github" /\ s \in {"odd", "none"} THEN "open" ELSE s

(* A blocker that is not in a terminal state, or whose state is unknown,   *)
(* blocks; a deleted one does not.                                         *)
Open(s) == s \notin Terminal \cup {"gone"}

Judge(b, s) == IF Open(s) THEN "blocked" ELSE b

Blocked(f, S) == [i \in Issues |-> IF i \in S THEN "blocked" ELSE f[i]]
Todo(f) == {i \in Issues : f[i] = "todo"}
-----------------------------------------------------------------------------
(* Start a read.  GitHub asks for the open pull requests first.            *)

Start ==
  /\ Step("start")
  /\ \/ read' = [Blank EXCEPT !.op = "list",
                              !.step = IF kind = "github" THEN "claims" ELSE "page"]
     \/ read' = [Blank EXCEPT !.op = "refresh", !.step = "fetch"]
  /\ UNCHANGED <<world, numbers>>

(* More open pull requests than the page limit: their claims are not known,*)
(* no state can be listed and the listing fails.                           *)
ReadClaims ==
  /\ Step("claims")
  /\ \/ read' = [Go("page") EXCEPT !.claimed = pulls]
     \/ read' = Go("failed")
  /\ UNCHANGED <<world, numbers>>
-----------------------------------------------------------------------------
(* The listing, page by page.                                              *)

FirstOf(S, n) == {i \in S : Cardinality({j \in S : j < i}) < n}

(* Linear: every wanted state in one query, after a cursor.                *)
CursorPage ==
  LET rest == {i \in Issues : now[i] \in Range(Wanted) /\ i > read.after}
      batch == FirstOf(rest, PageSize)
  IN  read' = [read EXCEPT
                 !.step = "blockers",
                 !.found = [i \in Issues |-> IF i \in batch THEN now[i] ELSE @[i]],
                 !.todo = {i \in batch : now[i] = "todo"},
                 !.after = IF batch = {} THEN @ ELSE Max(batch),
                 !.marks = IF rest = batch THEN {"last"} ELSE {}]

(* Mutant: a full last page is not probed for more.                        *)
CapProbeAccepts(batch, more) == ~ more

(* The page after the last allowed one must be empty.                      *)
CapProbe(batch, more) == ~ more /\ batch = {}

(* Gitea and GitHub: one query per state label, by page number, so a page  *)
(* shifts when an earlier issue leaves the label.                          *)
Matching == {i \in Issues \ foreign : now[i] = Wanted[read.scope]}
PageOf(n) == FirstOf(Matching, n * PageSize) \ FirstOf(Matching, (n - 1) * PageSize)
HasNext(n) == Matching # FirstOf(Matching, n * PageSize)

(* The issues of a page that are kept: not claimed by a pull request, and  *)
(* not listed before.                                                      *)
Collected(batch) == {i \in batch \ read.claimed : read.found[i] = "unknown"}

OffsetPage ==
  LET batch == PageOf(read.page)
      more == HasNext(read.page)
      new == Collected(batch)
  IN  IF read.page > MaxPages
      THEN /\ read' = [read EXCEPT !.step = "next",
                                   !.marks = @ \cup {"last"} \cup
                                     (IF CapProbe(batch, more) THEN {} ELSE {"capped"})]
           /\ UNCHANGED numbers
      ELSE /\ read' = [read EXCEPT
                         !.step = IF kind = "gitea" THEN "lookup" ELSE "next",
                         !.found = [i \in Issues |-> IF i \in new THEN now[i] ELSE @[i]],
                         !.blk = [i \in Issues |-> IF i \in new THEN "clear" ELSE @[i]],
                         !.todo = IF kind = "gitea" THEN new ELSE {},
                         !.deps = IF kind = "gitea" /\ new # {} THEN Body[Min(new)] ELSE {},
                         !.marks = (@ \ {"last"}) \cup
                           (IF ~ more /\ Cardinality(batch) < PageSize THEN {"last"} ELSE {})]
           /\ numbers' = numbers \cup (batch \ read.claimed)

ListPage ==
  /\ Step("page")
  /\ \/ kind = "linear" /\ CursorPage /\ UNCHANGED numbers
     \/ kind # "linear" /\ OffsetPage
     \/ read' = Go("failed") /\ UNCHANGED numbers
  /\ UNCHANGED world

(* After a page: the next one, the next label, or the end.                 *)
NextPage ==
  /\ Step("next")
  /\ read' = IF "last" \notin read.marks
             THEN IF kind = "linear" /\ read.page >= MaxPages
                  THEN Go("failed")
                  ELSE [Go("page") EXCEPT !.page = @ + 1]
             ELSE IF kind = "linear" THEN Go("ok")
             ELSE IF read.scope < Len(Wanted)
             THEN [Go("page") EXCEPT !.scope = @ + 1, !.page = 1]
             ELSE IF "capped" \in read.marks THEN Go("failed")
             ELSE IF kind = "gitea" THEN Go("ok")
             ELSE Go("native")
  /\ UNCHANGED <<world, numbers>>
-----------------------------------------------------------------------------
(* Blockers.                                                               *)

(* An answer that lacks one of the issues asked about counts as a failure. *)
AllThere(S) == \A i \in S : now[i] # "gone"

Related(S) ==
  [i \in Issues |-> IF i \notin S THEN read.blk[i]
                    ELSE IF \E d \in Native[i] : Open(now[d]) THEN "blocked" ELSE "clear"]

(* Mutant: a query that failed leaves the issues without blockers.         *)
FailClosedNot(f, S) == [i \in Issues |-> IF i \in S THEN "clear" ELSE f[i]]

FailClosed(f, S) == Blocked(f, S)

(* Linear: one query for the Todo issues of the page or of the refresh.    *)
LinearBlockers ==
  /\ Step("blockers")
  /\ LET end == IF Listing THEN "next" ELSE "ok"
     IN  \/ /\ read.todo = {} \/ AllThere(read.todo)
            /\ read' = [Go(end) EXCEPT !.blk = Related(read.todo), !.todo = {}]
         \/ /\ read.todo # {}
            /\ \E failure \in Failures :
                 read' = IF Listing /\ failure = "stop" THEN Go("failed")
                         ELSE [Go(end) EXCEPT !.blk = FailClosed(@, read.todo), !.todo = {}]
  /\ UNCHANGED <<world, numbers>>

(* GitHub: the tracker's own relations, for all Todo issues of the read.   *)
(* When they cannot be had, a listing fails and a refresh says nothing of  *)
(* its Todo issues.  An answer may be cut off after some of the blockers.  *)
Withdraw(f, S) == [i \in Issues |-> IF i \in S THEN "unknown" ELSE f[i]]

NoBlockers ==
  IF Listing THEN Go("failed")
  ELSE [Go("ok") EXCEPT !.found = Withdraw(@, Todo(@))]

GitHubNative ==
  /\ Step("native")
  /\ LET S == Todo(read.found)
     IN  \/ /\ AllThere(S)
            /\ \E cut \in SUBSET {i \in S : Native[i] # {}} :
                 read' = [Go("lookup") EXCEPT
                            !.blk = Blocked(Related(S), cut),
                            !.todo = S,
                            !.deps = IF S = {} THEN {}
                                     ELSE Body[Min(S)] \ Native[Min(S)]]
         \/ S # {} /\ read' = NoBlockers
  /\ UNCHANGED <<world, numbers>>

(* Gitea and GitHub: one request for each issue named in the text of the   *)
(* first issue in todo.  Gitea asks once per read for each; GitHub keeps   *)
(* the number of the issue it got.                                         *)
Lookup(i, d) ==
  LET s == IF kind = "gitea" /\ read.cache[d] # "unknown" THEN read.cache[d] ELSE Answer(d)
  IN  /\ read' = [read EXCEPT
                    !.blk[i] = Judge(@, s),
                    !.cache[d] = IF kind = "gitea" THEN s ELSE @,
                    !.deps = @ \ {d}]
      /\ numbers' = IF kind = "github" /\ s # "gone" THEN numbers \cup {d} ELSE numbers

(* GitHub's listing leaves a blocker out that it could not look up; the    *)
(* refresh before the dispatch does not.                                   *)
LookupFails(i, d) ==
  read' = [read EXCEPT !.deps = @ \ {d},
                       !.blk[i] = IF kind = "github" /\ Listing THEN @ ELSE "blocked"]

(* A refresh stops: Gitea keeps the rows it has, GitHub the ones that need *)
(* no blockers.                                                            *)
LookupStops(i) ==
  read' = IF kind = "gitea" THEN [Go("ok") EXCEPT !.found[i] = "unknown"] ELSE NoBlockers

BodyLookup ==
  /\ Step("lookup") /\ read.todo # {} /\ read.deps # {}
  /\ LET i == Min(read.todo)
         d == Min(read.deps)
     IN  \/ Lookup(i, d)
         \/ /\ kind = "gitea" => read.cache[d] = "unknown"
            /\ LookupFails(i, d) \/ (Refreshing /\ LookupStops(i))
            /\ UNCHANGED numbers
  /\ UNCHANGED world

(* The next issue of the batch; a refresh by Gitea goes on to the next     *)
(* issue to fetch.                                                         *)
LookedUp ==
  /\ Step("lookup") /\ (read.todo = {} \/ read.deps = {})
  /\ LET rest == IF read.todo = {} THEN {} ELSE read.todo \ {Min(read.todo)}
         text == IF rest = {} THEN {}
                 ELSE IF kind = "github" THEN Body[Min(rest)] \ Native[Min(rest)]
                 ELSE Body[Min(rest)]
     IN  read' = IF rest # {} THEN [read EXCEPT !.todo = rest, !.deps = text]
                 ELSE [Go(IF kind = "github" THEN "ok"
                          ELSE IF Listing THEN "next" ELSE "fetch") EXCEPT !.todo = {}]
  /\ UNCHANGED <<world, numbers>>
-----------------------------------------------------------------------------
(* The refresh: read.after is the last issue asked for.                    *)

Rest == {i \in Issues : i > read.after}

(* Linear: a chunk per query.  An issue the answer does not have is absent.*)
FetchChunk ==
  LET chunk == FirstOf(Rest, PageSize)
  IN  \/ read' = [read EXCEPT !.after = Max(chunk),
                    !.found = [i \in Issues |->
                       IF i \notin chunk THEN @[i]
                       ELSE IF now[i] = "gone" THEN "absent" ELSE now[i]]]
      \/ read' = [read EXCEPT !.after = Max(chunk)]
      \/ read' = [Go("ok") EXCEPT !.blk = FailClosed(@, Todo(read.found))]

(* Mutant: a missing issue is absent, whether or not its number was known  *)
(* to belong to this repository.                                           *)
AbsentIfMissing(i) == "absent"

(* An issue that does not exist: evidence only if the number was cached.   *)
WhenMissing(i) == IF i \in numbers THEN "absent" ELSE "unknown"

(* An issue without a state label is not in Gitea's workflow; one with a   *)
(* label the workflow does not know may be.                                *)
Classify(i) ==
  LET s == Answer(i)
  IN  IF s = "gone" THEN WhenMissing(i)
      ELSE IF kind = "gitea" /\ s = "none" THEN "absent"
      ELSE IF kind = "gitea" /\ s = "odd" THEN "unknown"
      ELSE Derived(s)

FetchOne ==
  LET i == Min(Rest)
      c == Classify(i)
      look == kind = "gitea" /\ c = "todo"
  IN  \/ /\ read' = [read EXCEPT !.after = i, !.found[i] = c,
                       !.blk[i] = IF look THEN "clear" ELSE @,
                       !.step = IF look THEN "lookup" ELSE @,
                       !.todo = IF look THEN {i} ELSE {},
                       !.deps = IF look THEN Body[i] ELSE {}]
         /\ numbers' = IF Answer(i) = "gone" THEN numbers ELSE numbers \cup {i}
      \/ read' = [read EXCEPT !.after = i] /\ UNCHANGED numbers
      \/ /\ read' = IF kind = "gitea" THEN Go("ok") ELSE NoBlockers
         /\ UNCHANGED numbers

Fetch ==
  /\ Step("fetch") /\ Rest # {}
  /\ \/ kind = "linear" /\ FetchChunk /\ UNCHANGED numbers
     \/ kind # "linear" /\ FetchOne
  /\ UNCHANGED world

Fetched ==
  /\ Step("fetch") /\ Rest = {}
  /\ read' = CASE kind = "linear" -> [Go("blockers") EXCEPT !.todo = Todo(read.found)]
               [] kind = "gitea" -> Go("ok")
               [] kind = "github" -> Go("native")
  /\ UNCHANGED <<world, numbers>>

(* The next read; a reload may have made a new client.                     *)
Again ==
  /\ Finished
  /\ read' = Blank
  /\ was' = [i \in Issues |-> {now[i]}]
  /\ edits' = 0
  /\ numbers' \in {numbers, {}}
  /\ UNCHANGED <<kind, now, foreign, pulls>>

Next ==
  \/ Edit \/ Start \/ ReadClaims
  \/ ListPage \/ NextPage
  \/ LinearBlockers \/ GitHubNative \/ BodyLookup \/ LookedUp
  \/ Fetch \/ Fetched \/ Again

Spec == Init /\ [][Next]_vars
-----------------------------------------------------------------------------
Listed == {i \in Issues : read.found[i] # "unknown"}

(* A refresh calls an issue absent only if, during the refresh, it was     *)
(* deleted from the repository it belongs to or carried no state label at  *)
(* all: never because a request failed, and never because the number was   *)
(* looked up in another repository (FetchIssueStatesByRefs,                *)
(* lookupGitHubIssueState, classifyLinearIssueStateChunk).                 *)
AbsentHasEvidence ==
  \A i \in Issues : read.found[i] = "absent" =>
     i \notin foreign /\ was[i] \cap {"gone", "none"} # {}

(* If nothing changed meanwhile, a listing that succeeds has every issue   *)
(* in a wanted state, and no other: pages and labels are all read, a page  *)
(* limit never cuts it short silently (listIssuesByStateLabel,             *)
(* listIssuesForState, finishCapProbe, nextLinearIssueCursor).             *)
QuietListingIsExact ==
  Listing /\ Step("ok") /\ edits = 0 =>
    Listed = {i \in Issues \ (foreign \cup pulls) : now[i] \in Range(Wanted)}

(* A Todo issue passes for unblocked only if each issue it depends on was  *)
(* seen closed, or deleted, during the read: no failed, cut off or skipped *)
(* lookup lets it through.  GitHub's listing does not look at the text     *)
(* that strictly; the refresh before a dispatch does                       *)
(* (attachRefreshedTodoBlockers, buildBlockedBy, blockersForGitHubSource). *)
UnblockedHasEvidence ==
  Step("ok") =>
    \A i \in Todo(read.found) : read.blk[i] # "blocked" =>
      \A d \in (IF kind = "gitea" THEN {} ELSE Native[i])
               \cup (IF kind = "gitea" \/ (kind = "github" /\ Refreshing)
                     THEN Body[i] ELSE {}) :
        d \in foreign \/ was[d] \cap (Terminal \cup {"gone"}) # {}
=============================================================================
