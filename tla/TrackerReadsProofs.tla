------------------------- MODULE TrackerReadsProofs -------------------------
(***************************************************************************)
(* The tracker adapters' reads, for every set of issues and states, every  *)
(* relation between issues, every page size and page limit, whatever       *)
(* requests fail and however issues change between two requests:           *)
(*                                                                         *)
(*   AbsentIsSeen     an issue is called absent on evidence only           *)
(*   UnblockedIsSeen  a Todo issue passes for unblocked on evidence only   *)
(*   ListingIsExact   a listing of an unchanged tracker is exact           *)
(***************************************************************************)
EXTENDS TrackerReads, TLAPS, FiniteSetTheorems, WellFoundedInduction

(* The tracker: an issue has been what it is now, and the client caches    *)
(* only numbers of its repository.                                         *)
World ==
  /\ kind \in Kinds /\ edits \in Nat
  /\ DOMAIN now = Issues /\ DOMAIN was = Issues
  /\ \A i \in Issues : now[i] \in Values[i] /\ now[i] \in was[i]
  /\ foreign \subseteq Issues /\ numbers \subseteq Issues \ foreign /\ pulls \subseteq Issues
  /\ kind = "linear" => foreign = {} /\ pulls = {}
  /\ kind = "gitea" => pulls = {}

(* Which adapter and which read take which steps.                          *)
Control ==
  /\ read \in Reads
  /\ Step("claims") => kind = "github"
  /\ Step("blockers") => kind = "linear"
  /\ Step("native") => kind = "github"
  /\ Step("lookup") => kind # "linear"
  /\ read.step \in {"claims", "page", "next"} => Listing
  /\ Step("fetch") => Refreshing
  /\ Step("start") => read = Blank
  /\ ~ Step("start") => Listing \/ Refreshing
  /\ kind = "gitea" /\ Refreshing /\ Step("lookup") => \A i, j \in read.todo : i = j

(* An issue that does not block any more.                                  *)
Clear(d) == d \in foreign \/ was[d] \cap (Terminal \cup {"gone"}) # {}

(* What an issue must not be blocked by.                                   *)
Needs(i) ==
  (IF kind = "gitea" THEN {} ELSE Native[i])
    \cup (IF kind = "gitea" \/ (kind = "github" /\ Refreshing) THEN Body[i] ELSE {})

Vetted(i) == read.blk[i] = "blocked" \/ \A d \in Needs(i) : Clear(d)

(* The blockers of a page or a refresh are asked for when it is complete.  *)
Early ==
  \/ kind = "linear" /\ Step("fetch")
  \/ kind = "github" /\ read.step \in {"claims", "page", "next", "native", "fetch"}

(* Every Todo issue has been vetted, or is about to be; the one whose text *)
(* is being looked up has been vetted for all but what is left in deps;    *)
(* what Gitea remembers of a blocker was seen during this read.            *)
Vetting ==
  /\ ~ Early /\ ~ Step("failed") =>
       \A i \in Todo(read.found) :
         Vetted(i) \/ (read.step \in {"blockers", "lookup"} /\ i \in read.todo)
  /\ Step("lookup") =>
       \A i \in read.todo : (\A j \in read.todo : i <= j) =>
         read.blk[i] = "blocked" \/ \A d \in Needs(i) \ read.deps : Clear(d)
  /\ Step("lookup") /\ kind = "github" =>
       \A i \in read.todo : read.blk[i] = "blocked" \/ \A d \in Native[i] : Clear(d)
  /\ \A d \in Issues : read.cache[d] \in Terminal \cup {"gone"} => Clear(d)

(* What a quiet listing has got: all of the labels before the current one, *)
(* and of that as much as its pages hold.                                  *)
Through(p) == p * PageSize
Match(k) == {i \in Issues \ foreign : now[i] = Wanted[k]}
Got(k, n) ==
  {i \in Issues \ pulls : (\E j \in 1..(k - 1) : i \in Match(j)) \/ i \in FirstOf(Match(k), n)}
All == {i \in Issues \ (foreign \cup pulls) : now[i] \in Range(Wanted)}

ByCursor ==
  kind = "linear" /\ Listing /\ edits = 0 /\ ~ Step("failed") =>
    /\ Listed = {i \in Issues : now[i] \in Range(Wanted) /\ i <= read.after}
    /\ Step("ok") => "last" \in read.marks
    /\ "last" \in read.marks /\ ~ Step("page") =>
         \A i \in Issues : now[i] \in Range(Wanted) => i <= read.after

ByLabel ==
  kind # "linear" /\ Listing /\ edits = 0 /\ ~ Step("failed") =>
    /\ read.scope \in 1..Len(Wanted)
    /\ ~ Step("claims") => read.claimed = pulls
    /\ Step("claims") => read.scope = 1 /\ read.page = 1 /\ Listed = {}
    /\ "capped" \notin read.marks => \A k \in {read.scope}, p \in {read.page} :
         /\ Step("page") => Listed = Got(k, Through(p - 1))
         /\ Step("next") \/ (kind = "gitea" /\ Step("lookup")) =>
              /\ Listed = Got(k, Through(p))
              /\ "last" \in read.marks => FirstOf(Match(k), Through(p)) = Match(k)
    /\ Step("native") \/ Step("ok") \/ (kind = "github" /\ Step("lookup")) => Listed = All

(* The evidence for absence.                                               *)
Absence ==
  \A i \in Issues : read.found[i] = "absent" =>
    i \notin foreign /\ was[i] \cap {"gone", "none"} # {}

(* The inductive invariant.                                                *)
RInv == World /\ Control /\ Vetting /\ ByCursor /\ ByLabel /\ Absence

-----------------------------------------------------------------------------
(* Numbers and finite sets.                                                *)

(* A set of natural numbers has a least element.                           *)
LEMMA Least ==
  ASSUME NEW S, S \subseteq Nat, S # {}
  PROVE  Min(S) \in S /\ \A n \in S : Min(S) <= n
<1>1. PICK m \in S : \A n \in S : ~ (<<n, m>> \in OpToRel(<, Nat))
  BY NatLessThanWellFounded, WFMin, Zenon
<1>2. \A n \in S : ~ (n < m)
  BY <1>1, Zenon DEF OpToRel
<1>3. \A n \in S : m <= n
  BY <1>2
<1> QED
  BY <1>3 DEF Min

(* A set with zero and with every successor has all natural numbers.       *)
LEMMA Induct ==
  ASSUME NEW S, 0 \in S, \A n \in Nat : n \in S => n + 1 \in S
  PROVE  \A n \in Nat : n \in S
<1> SUFFICES ASSUME Nat \ S # {} PROVE FALSE
  OBVIOUS
<1> DEFINE m == Min(Nat \ S)
<1>1. m \in Nat \ S /\ \A n \in Nat \ S : m <= n
  BY Least
<1> HIDE DEF m
<1>2. m - 1 \in Nat /\ ~ (m <= m - 1)
  BY <1>1
<1> QED
  BY <1>1, <1>2

(* A finite set of natural numbers is bounded.                             *)
LEMMA Bounded ==
  ASSUME NEW S, S \subseteq Nat, IsFiniteSet(S)
  PROVE  \E n \in Nat : \A i \in S : i <= n
<1> DEFINE Good == {c \in Nat : \A T \in SUBSET S : Cardinality(T) = c =>
                                  \E n \in Nat : \A i \in T : i <= n}
<1>1. 0 \in Good
  <2>1. ASSUME NEW T \in SUBSET S, Cardinality(T) = 0
        PROVE  \E n \in Nat : \A i \in T : i <= n
    <3>1. T = {}
      BY <2>1, FS_Subset, FS_EmptySet
    <3> QED
      BY <3>1
  <2> QED
    BY <2>1
<1>2. ASSUME NEW c \in Nat, c \in Good
      PROVE  c + 1 \in Good
  <2>1. ASSUME NEW T \in SUBSET S, Cardinality(T) = c + 1
        PROVE  \E n \in Nat : \A i \in T : i <= n
    <3>1. IsFiniteSet(T)
      BY FS_Subset
    <3>2. T # {}
      BY <2>1, FS_EmptySet
    <3>3. PICK t : t \in T
      BY <3>2
    <3>4. Cardinality(T \ {t}) = c
      <4>1. Cardinality(T \ {t}) = Cardinality(T) - 1
        BY <3>1, <3>3, FS_RemoveElement
      <4> QED
        BY <2>1, <4>1
    <3>5. PICK n \in Nat : \A i \in T \ {t} : i <= n
      BY <1>2, <3>4
    <3>6. t \in Nat
      BY <3>3
    <3>7. CASE t <= n
      BY <3>5, <3>7
    <3>8. CASE n <= t
      <4>1. \A i \in T : i \in Nat
        OBVIOUS
      <4>2. \A i \in T : i <= t
        BY <3>5, <3>6, <3>8, <4>1
      <4> QED
        BY <3>6, <4>2
    <3> QED
      BY <3>6, <3>7, <3>8
  <2> QED
    BY <2>1
<1> HIDE DEF Good
<1>3. \A n \in Nat : n \in Good
  BY <1>1, <1>2, Induct
<1>4. Cardinality(S) \in Nat
  BY FS_CardinalityType
<1> QED
  BY <1>3, <1>4 DEF Good

(* A finite set of natural numbers has a greatest element.                 *)
LEMMA Greatest ==
  ASSUME NEW S, S \subseteq Nat, IsFiniteSet(S), S # {}
  PROVE  Max(S) \in S /\ \A n \in S : n <= Max(S)
<1> DEFINE U == {n \in Nat : \A i \in S : i <= n}
           m == Min(U)
<1>1. U # {}
  BY Bounded
<1>2. m \in U /\ \A n \in U : m <= n
  BY <1>1, Least
<1> HIDE DEF m
<1>3. m \in S
  <2> SUFFICES ASSUME m \notin S PROVE FALSE
    OBVIOUS
  <2>1. \A i \in S : i \in Nat /\ i <= m /\ i # m
    BY <1>2
  <2>2. m \in Nat /\ m # 0
    <3>1. PICK s : s \in S
      OBVIOUS
    <3>2. s \in Nat /\ s <= m /\ s # m
      BY <2>1, <3>1
    <3> QED
      BY <1>2, <3>2
  <2>3. m - 1 \in Nat /\ \A i \in S : i <= m - 1
    BY <2>1, <2>2
  <2>4. m - 1 \in U /\ ~ (m <= m - 1)
    BY <2>2, <2>3
  <2> QED
    BY <1>2, <2>4
<1>4. \A i \in S : m >= i
  BY <1>2, <1>3
<1>5. \E x \in S : \A y \in S : x >= y
  BY <1>3, <1>4
<1>6. Max(S) \in S /\ \A y \in S : Max(S) >= y
  BY <1>5, Zenon DEF Max
<1> QED
  BY <1>6

(* The first issues of a set.                                              *)
LEMMA FirstOfIs ==
  ASSUME NEW S, S \subseteq Issues
  PROVE  /\ \A n : FirstOf(S, n) \subseteq S
         /\ FirstOf(S, 0) = {}
         /\ \A m, n \in Nat : m <= n => FirstOf(S, m) \subseteq FirstOf(S, n)
         /\ \A n \in Nat : \A i \in S : \A j \in FirstOf(S, n) : i <= j => i \in FirstOf(S, n)
         /\ S # {} => FirstOf(S, PageSize) # {}
<1> DEFINE Below(i) == {j \in S : j < i}
<1>1. \A i : IsFiniteSet(Below(i)) /\ Cardinality(Below(i)) \in Nat
  <2>1. IsFiniteSet(S)
    BY Setting, FS_Subset
  <2>2. \A i : Below(i) \subseteq S
    OBVIOUS
  <2> QED
    BY <2>1, <2>2, FS_Subset, FS_CardinalityType
<1>2. \A n : \A i : i \in FirstOf(S, n) <=> i \in S /\ Cardinality(Below(i)) < n
  BY DEF FirstOf
<1>3. ASSUME NEW i \in S, NEW j \in S, i <= j
      PROVE  Cardinality(Below(i)) <= Cardinality(Below(j))
  <2>1. Below(i) \subseteq Below(j)
    <3>1. \A k \in S : k \in Nat
      BY Setting
    <3> QED
      BY <1>3, <3>1
  <2> QED
    BY <1>1, <2>1, FS_Subset
<1> HIDE DEF Below
<1>4. FirstOf(S, 0) = {}
  BY <1>1, <1>2
<1>5. \A m, n \in Nat : m <= n => FirstOf(S, m) \subseteq FirstOf(S, n)
  BY <1>1, <1>2
<1>6. ASSUME NEW n \in Nat, NEW i \in S, NEW j \in FirstOf(S, n), i <= j
      PROVE  i \in FirstOf(S, n)
  BY <1>1, <1>2, <1>3, <1>6
<1>7. ASSUME S # {}
      PROVE  FirstOf(S, PageSize) # {}
  <2>1. S \subseteq Nat
    BY Setting
  <2>2. Min(S) \in S /\ \A j \in S : Min(S) <= j
    BY <1>7, <2>1, Least
  <2>3. Below(Min(S)) = {}
    <3>1. \A j \in S : j \in Nat /\ Min(S) \in Nat /\ Min(S) <= j
      BY <2>1, <2>2
    <3>2. \A j \in S : ~ (j < Min(S))
      BY <3>1
    <3> QED
      BY <3>2, Zenon DEF Below
  <2>4. Cardinality(Below(Min(S))) < PageSize
    BY <2>3, FS_EmptySet, Setting
  <2> QED
    BY <1>2, <2>2, <2>4
<1> QED
  BY <1>2, <1>4, <1>5, <1>6, <1>7

-----------------------------------------------------------------------------
(* What every step shares.                                                 *)

(* The empty read.                                                         *)
LEMMA BlankIs ==
  /\ Blank \in Reads
  /\ Blank.op = "idle" /\ Blank.step = "start" /\ Blank.scope = 1 /\ Blank.page = 1
  /\ Blank.after = 0 /\ Blank.marks = {} /\ Blank.claimed = {} /\ Blank.todo = {} /\ Blank.deps = {}
  /\ Blank.found = [i \in Issues |-> "unknown"] /\ Blank.blk = [i \in Issues |-> "none"]
  /\ Blank.cache = [i \in Issues |-> "unknown"]
<1>1. /\ [i \in Issues |-> "unknown"] \in [Issues -> Told]
      /\ [i \in Issues |-> "none"] \in [Issues -> {"none", "clear", "blocked"}]
  BY DEF Told
<1>2. Blank \in Reads
  BY <1>1 DEF Blank, Reads
<1> QED
  BY <1>2 DEF Blank

(* A step of the client changes nothing in the tracker.                    *)
LEMMA Same ==
  ASSUME UNCHANGED world
  PROVE  /\ \A d : Clear(d)' <=> Clear(d)
         /\ \A k, n : Match(k)' = Match(k) /\ Got(k, n)' = Got(k, n)
         /\ All' = All
         /\ read'.op = read.op => \A i : Needs(i)' = Needs(i)
<1>1. \A k : Match(k)' = Match(k)
  BY DEF world, Match
<1> QED
  BY <1>1 DEF world, Clear, Got, All, Needs, Refreshing

(* The constants.                                                          *)
LEMMA Numbers ==
  /\ PageSize \in Nat \ {0} /\ MaxPages \in Nat \ {0} /\ Len(Wanted) \in Nat \ {0}
  /\ \A i \in Issues : i \in Nat \ {0} /\ Native[i] \subseteq Issues /\ Body[i] \subseteq Issues
  /\ "unknown" \notin Terminal \cup {"gone"}
BY Setting

(* A read that has failed.                                                 *)
LEMMA Failed ==
  ASSUME RInv, ~ Step("start"), UNCHANGED <<world, numbers>>, read' = Go("failed")
  PROVE  RInv'
<1>1. ASSUME read' = [read EXCEPT !.step = "failed"]
      PROVE  RInv'
  <2>1. read' \in Reads
    BY <1>1 DEF RInv, Control, Reads
  <2>2. /\ read'.op = read.op /\ read'.step = "failed" /\ read'.scope = read.scope
        /\ read'.page = read.page /\ read'.after = read.after /\ read'.marks = read.marks
        /\ read'.claimed = read.claimed /\ read'.todo = read.todo /\ read'.deps = read.deps
        /\ read'.found = read.found /\ read'.blk = read.blk /\ read'.cache = read.cache
    BY <1>1 DEF RInv, Control, Reads
  <2> USE <2>1, <2>2
  <2>3. World'
    BY DEF RInv, World, world
  <2>4. Control'
    BY DEF RInv, Control, Step, Listing, Refreshing, world
  <2>5. Vetting'
    BY Same DEF RInv, Vetting, Vetted, Early, Todo, Step, world
  <2>6. ByCursor'
    BY Same DEF RInv, ByCursor, Listed, Listing, Step, world
  <2>7. ByLabel'
    BY Same DEF RInv, ByLabel, Listed, Listing, Step, world
  <2>8. Absence'
    BY DEF RInv, Absence, world
  <2> QED
    BY <2>3, <2>4, <2>5, <2>6, <2>7, <2>8 DEF RInv
<1> QED
  BY <1>1 DEF Go

(* What a listing by label has got.                                        *)
LEMMA GotIs ==
  /\ Got(1, 0) = {}
  /\ \A k \in 1..Len(Wanted), n \in Nat : FirstOf(Match(k), n) = Match(k) =>
       Got(k + 1, 0) = Got(k, n) /\ (k = Len(Wanted) => Got(k, n) = All)
<1>1. \A k : Match(k) \subseteq Issues /\ FirstOf(Match(k), 0) = {}
  <2>1. \A k : Match(k) \subseteq Issues
    BY DEF Match
  <2> QED
    BY <2>1, FirstOfIs
<1>2. Got(1, 0) = {}
  BY <1>1 DEF Got
<1>3. ASSUME NEW k \in 1..Len(Wanted), NEW n \in Nat, FirstOf(Match(k), n) = Match(k)
      PROVE  Got(k + 1, 0) = Got(k, n) /\ (k = Len(Wanted) => Got(k, n) = All)
  <2>1. Len(Wanted) \in Nat /\ k \in Nat /\ (k + 1) - 1 = k
    BY Numbers
  <2>2. \A i : (\E j \in 1..k : i \in Match(j)) <=> (\E j \in 1..(k - 1) : i \in Match(j)) \/ i \in Match(k)
    <3>1. \A j : j \in 1..k <=> j \in 1..(k - 1) \/ j = k
      BY <2>1
    <3> QED
      BY <3>1, Zenon
  <2>3. \A i : i \in Got(k, n) <=> i \in Issues \ pulls /\ \E j \in 1..k : i \in Match(j)
    BY <1>3, <2>2 DEF Got
  <2>4. \A i : i \in Got(k + 1, 0) <=> i \in Issues \ pulls /\ \E j \in 1..k : i \in Match(j)
    BY <1>1, <2>1 DEF Got
  <2>5. ASSUME k = Len(Wanted)
        PROVE  Got(k, n) = All
    <3>1. Range(Wanted) = {Wanted[j] : j \in 1..k}
      BY <2>5, Setting DEF Range
    <3>2. \A i : i \in All <=> i \in Issues \ pulls /\ \E j \in 1..k : i \in Match(j)
      BY <3>1 DEF All, Match
    <3> QED
      BY <2>3, <3>2
  <2>6. Got(k + 1, 0) = Got(k, n)
    BY <2>3, <2>4, Zenon
  <2> QED
    BY <2>5, <2>6
<1> QED
  BY <1>2, <1>3

-----------------------------------------------------------------------------
(* The listing.                                                            *)

(* A read starts.                                                          *)
LEMMA StartKeeps == ASSUME RInv, Start PROVE RInv'
<1>1. UNCHANGED <<world, numbers>> /\ Through(0) = 0 /\ Got(1, 0) = {}
      /\ kind \in {"linear", "gitea", "github"} /\ (kind = "gitea" => pulls = {})
  BY GotIs, Numbers, Setting DEF Start, RInv, World, Through
<1>2. ASSUME NEW st, st = (IF kind = "github" THEN "claims" ELSE "page"),
             read' = [Blank EXCEPT !.op = "list", !.step = st]
      PROVE  RInv'
  <2>1. read' \in Reads
    BY <1>2, BlankIs, <1>1 DEF RInv, Control, Reads
  <2>2. /\ read'.op = "list" /\ read'.step = st /\ read'.scope = 1
        /\ read'.page = 1 /\ read'.after = 0 /\ read'.marks = {}
        /\ read'.claimed = {} /\ read'.todo = {} /\ read'.deps = {}
        /\ read'.found = [i \in Issues |-> "unknown"] /\ read'.blk = [i \in Issues |-> "none"] /\ read'.cache = [i \in Issues |-> "unknown"]
    BY <1>2, BlankIs, <1>1 DEF RInv, Control, Reads
  <2>3. ByLabel'
    <3>1. Listed' = {}
      BY <2>2 DEF Listed
    <3>2. \A k \in {read'.scope}, p \in {read'.page} : Got(k, Through(p - 1))' = {}
      BY <2>2, <1>1, Same
    <3>3. read'.scope \in 1..Len(Wanted)
      BY <2>2, Numbers
    <3>4. read'.scope = 1 /\ read'.page = 1 /\ read'.claimed = {} /\ read'.step = st /\ UNCHANGED <<kind, pulls>>
      BY <2>2, <1>1 DEF world
    <3>5. CASE kind = "github"
      BY <1>2, <3>1, <3>3, <3>4, <3>5 DEF ByLabel, Listing, Step
    <3>6. CASE kind = "gitea"
      <4>1. read'.step = "page" /\ pulls = {}
        BY <1>2, <1>1, <3>4, <3>6
      <4> QED
        BY <3>1, <3>2, <3>3, <3>4, <3>6, <4>1 DEF ByLabel, Listing, Step
    <3>7. CASE kind = "linear"
      BY <3>4, <3>7 DEF ByLabel
    <3> QED
      BY <1>1, <3>5, <3>6, <3>7
  <2> USE <1>2, <2>1, <2>2, <1>1
  <2>4. World'
    BY DEF RInv, World, world
  <2>5. Control'
    BY DEF RInv, Control, Step, Listing, Refreshing, world
  <2>6. Vetting'
    BY Same, Numbers DEF RInv, Vetting, Vetted, Early, Todo, Step, world
  <2>7. ByCursor'
    BY Same, Numbers DEF RInv, ByCursor, Listed, Listing, Step, world
  <2>8. Absence'
    BY DEF RInv, Absence, world
  <2> QED
    BY <2>3, <2>4, <2>5, <2>6, <2>7, <2>8 DEF RInv
<1>3. ASSUME read' = [Blank EXCEPT !.op = "refresh", !.step = "fetch"]
      PROVE  RInv'
  <2>1. read' \in Reads
    BY <1>3, BlankIs, <1>1 DEF RInv, Control, Reads
  <2>2. /\ read'.op = "refresh" /\ read'.step = "fetch" /\ read'.scope = 1
        /\ read'.page = 1 /\ read'.after = 0 /\ read'.marks = {}
        /\ read'.claimed = {} /\ read'.todo = {} /\ read'.deps = {}
        /\ read'.found = [i \in Issues |-> "unknown"] /\ read'.blk = [i \in Issues |-> "none"] /\ read'.cache = [i \in Issues |-> "unknown"]
    BY <1>3, BlankIs, <1>1 DEF RInv, Control, Reads
  <2> USE <2>1, <2>2, <1>1
  <2>3. World'
    BY DEF RInv, World, world
  <2>4. Control'
    BY DEF RInv, Control, Step, Listing, Refreshing, world
  <2>5. Vetting'
    BY Same, Numbers DEF RInv, Vetting, Vetted, Early, Todo, Step, world
  <2>6. ByCursor'
    BY Same DEF RInv, ByCursor, Listed, Listing, Step, world
  <2>7. ByLabel'
    BY Same DEF RInv, ByLabel, Listed, Listing, Step, world
  <2>8. Absence'
    BY DEF RInv, Absence, world
  <2> QED
    BY <2>3, <2>4, <2>5, <2>6, <2>7, <2>8 DEF RInv
<1> QED
  BY <1>2, <1>3 DEF Start

(* The open pull requests are known.                                       *)
LEMMA ReadClaimsKeeps == ASSUME RInv, ReadClaims PROVE RInv'
<1>1. UNCHANGED <<world, numbers>> /\ Through(0) = 0 /\ Got(1, 0) = {} /\ read.step = "claims"
      /\ kind = "github" /\ read \in Reads
  BY GotIs, Numbers DEF Through, ReadClaims, Step, RInv, Control
<1>2. ASSUME read' = [read EXCEPT !.step = "page", !.claimed = pulls]
      PROVE  RInv'
  <2>1. read' \in Reads
    BY <1>2, <1>1 DEF RInv, Control, Reads, World
  <2>2. /\ read'.op = read.op /\ read'.step = "page" /\ read'.scope = read.scope
        /\ read'.page = read.page /\ read'.after = read.after /\ read'.marks = read.marks
        /\ read'.claimed = pulls /\ read'.todo = read.todo /\ read'.deps = read.deps
        /\ read'.found = read.found /\ read'.blk = read.blk /\ read'.cache = read.cache
    BY <1>2, <1>1 DEF RInv, Control, Reads
  <2> USE <2>1, <2>2, <1>1
  <2>3. World'
    BY DEF RInv, World, world
  <2>4. Control'
    BY DEF RInv, Control, Step, Listing, Refreshing, world
  <2>5. Vetting'
    BY Same DEF RInv, Vetting, Vetted, Early, Todo, Step, world
  <2>6. ByCursor'
    BY Same DEF RInv, ByCursor, Listed, Listing, Step, world
  <2>7. ByLabel'
    BY Same DEF RInv, ByLabel, Listed, Listing, Step, world
  <2>8. Absence'
    BY DEF RInv, Absence, world
  <2> QED
    BY <2>3, <2>4, <2>5, <2>6, <2>7, <2>8 DEF RInv
<1> QED
  BY <1>1, <1>2, Failed DEF ReadClaims, Go, Step

(* After a page.                                                           *)
LEMMA NextPageKeeps == ASSUME RInv, NextPage PROVE RInv'
<1>1. UNCHANGED <<world, numbers>> /\ read.step = "next" /\ read \in Reads /\ read.op = "list"
      /\ Through(0) = 0
  BY Numbers DEF Through, NextPage, Step, RInv, Control, Listing
<1>2. kind \in {"linear", "gitea", "github"}
  BY Setting DEF RInv, World
<1>3. ASSUME "last" \notin read.marks, NEW p \in Nat \ {0}, p = read.page + 1,
             read' = [read EXCEPT !.step = "page", !.page = p]
      PROVE  RInv'
  <2>1. read' \in Reads
    BY <1>3, <1>1 DEF RInv, Control, Reads
  <2>2. /\ read'.op = read.op /\ read'.step = "page" /\ read'.scope = read.scope
        /\ read'.page = p /\ read'.after = read.after /\ read'.marks = read.marks
        /\ read'.claimed = read.claimed /\ read'.todo = read.todo /\ read'.deps = read.deps
        /\ read'.found = read.found /\ read'.blk = read.blk /\ read'.cache = read.cache
    BY <1>3, <1>1 DEF RInv, Control, Reads
  <2> USE <1>3, <2>1, <2>2, <1>1
  <2>3. World'
    BY DEF RInv, World, world
  <2>4. Control'
    BY DEF RInv, Control, Step, Listing, Refreshing, world
  <2>5. Vetting'
    BY Same DEF RInv, Vetting, Vetted, Early, Todo, Step, world
  <2>6. ByCursor'
    BY Same DEF RInv, ByCursor, Listed, Listing, Step, world
  <2>7. ByLabel'
    BY Same, <1>2 DEF RInv, ByLabel, Listed, Listing, Step, world, Reads
  <2>8. Absence'
    BY DEF RInv, Absence, world
  <2> QED
    BY <2>3, <2>4, <2>5, <2>6, <2>7, <2>8 DEF RInv
<1>4. ASSUME "last" \in read.marks, kind = "linear", read' = [read EXCEPT !.step = "ok"]
      PROVE  RInv'
  <2>1. read' \in Reads
    BY <1>4, <1>1 DEF RInv, Control, Reads
  <2>2. /\ read'.op = read.op /\ read'.step = "ok" /\ read'.scope = read.scope
        /\ read'.page = read.page /\ read'.after = read.after /\ read'.marks = read.marks
        /\ read'.claimed = read.claimed /\ read'.todo = read.todo /\ read'.deps = read.deps
        /\ read'.found = read.found /\ read'.blk = read.blk /\ read'.cache = read.cache
    BY <1>4, <1>1 DEF RInv, Control, Reads
  <2> USE <1>4, <2>1, <2>2, <1>1
  <2>3. World'
    BY DEF RInv, World, world
  <2>4. Control'
    BY DEF RInv, Control, Step, Listing, Refreshing, world
  <2>5. Vetting'
    BY Same DEF RInv, Vetting, Vetted, Early, Todo, Step, world
  <2>6. ByCursor'
    BY Same DEF RInv, ByCursor, Listed, Listing, Step, world
  <2>7. ByLabel'
    BY Same DEF RInv, ByLabel, Listed, Listing, Step, world
  <2>8. Absence'
    BY DEF RInv, Absence, world
  <2> QED
    BY <2>3, <2>4, <2>5, <2>6, <2>7, <2>8 DEF RInv
<1>5. ASSUME "last" \in read.marks, kind # "linear", read.scope < Len(Wanted), NEW k \in Nat \ {0}, k = read.scope + 1,
             NEW p \in Nat \ {0}, p = 1, read' = [read EXCEPT !.step = "page", !.scope = k, !.page = p]
      PROVE  RInv'
  <2>1. read' \in Reads
    BY <1>5, <1>1 DEF RInv, Control, Reads
  <2>2. /\ read'.op = read.op /\ read'.step = "page" /\ read'.scope = k
        /\ read'.page = p /\ read'.after = read.after /\ read'.marks = read.marks
        /\ read'.claimed = read.claimed /\ read'.todo = read.todo /\ read'.deps = read.deps
        /\ read'.found = read.found /\ read'.blk = read.blk /\ read'.cache = read.cache
    BY <1>5, <1>1 DEF RInv, Control, Reads
  <2>3. ByLabel'
    <3> SUFFICES ASSUME edits = 0
                 PROVE  /\ read'.claimed = pulls /\ k \in 1..Len(Wanted)
                        /\ "capped" \notin read.marks => Listed' = Got(k, 0)'
      BY <1>5, <2>2, <1>1 DEF ByLabel, Listing, Step, world
    <3>1. /\ read.scope \in 1..Len(Wanted) /\ read.claimed = pulls
          /\ "capped" \notin read.marks =>
                /\ Listed = Got(read.scope, Through(read.page))
                /\ FirstOf(Match(read.scope), Through(read.page)) = Match(read.scope)
      BY <1>5, <1>1 DEF RInv, ByLabel, Listing, Step
    <3>2. Through(read.page) \in Nat
      BY <1>1, Numbers DEF Reads, Through
    <3>3. "capped" \notin read.marks => Got(read.scope + 1, 0) = Got(read.scope, Through(read.page))
      BY <3>1, <3>2, GotIs
    <3>4. Listed' = Listed
      BY <2>2 DEF Listed
    <3> QED
      BY <1>5, <2>2, <1>1, <3>1, <3>3, <3>4, Same, Numbers DEF world
  <2> USE <1>5, <2>1, <2>2, <1>1
  <2>4. World'
    BY DEF RInv, World, world
  <2>5. Control'
    BY DEF RInv, Control, Step, Listing, Refreshing, world
  <2>6. Vetting'
    BY Same DEF RInv, Vetting, Vetted, Early, Todo, Step, world
  <2>7. ByCursor'
    BY Same DEF RInv, ByCursor, Listed, Listing, Step, world
  <2>8. Absence'
    BY DEF RInv, Absence, world
  <2> QED
    BY <2>3, <2>4, <2>5, <2>6, <2>7, <2>8 DEF RInv
<1>6. ASSUME "last" \in read.marks, kind # "linear", ~ (read.scope < Len(Wanted)), "capped" \notin read.marks,
             NEW st, st = (IF kind = "gitea" THEN "ok" ELSE "native"), read' = [read EXCEPT !.step = st]
      PROVE  RInv'
  <2>1. read' \in Reads
    BY <1>6, <1>1, <1>2 DEF RInv, Control, Reads
  <2>2. /\ read'.op = read.op /\ read'.step = st /\ read'.scope = read.scope
        /\ read'.page = read.page /\ read'.after = read.after /\ read'.marks = read.marks
        /\ read'.claimed = read.claimed /\ read'.todo = read.todo /\ read'.deps = read.deps
        /\ read'.found = read.found /\ read'.blk = read.blk /\ read'.cache = read.cache
    BY <1>6, <1>1 DEF RInv, Control, Reads
  <2>3. ByLabel'
    <3> SUFFICES ASSUME edits = 0
                 PROVE  /\ read'.claimed = pulls /\ read.scope \in 1..Len(Wanted) /\ Listed' = All'
      BY <1>6, <2>2, <1>1, <1>2 DEF ByLabel, Listing, Step, world
    <3>1. /\ read.scope \in 1..Len(Wanted) /\ read.claimed = pulls
          /\ Listed = Got(read.scope, Through(read.page))
          /\ FirstOf(Match(read.scope), Through(read.page)) = Match(read.scope)
      BY <1>6, <1>1 DEF RInv, ByLabel, Listing, Step
    <3>2. Through(read.page) \in Nat /\ read.scope = Len(Wanted)
      BY <1>6, <1>1, <3>1, Numbers DEF Reads, Through
    <3>3. Got(read.scope, Through(read.page)) = All
      BY <3>1, <3>2, GotIs
    <3>4. Listed' = Listed
      BY <2>2 DEF Listed
    <3> QED
      BY <2>2, <1>1, <3>1, <3>3, <3>4, Same
  <2> USE <1>6, <2>1, <2>2, <1>1
  <2>4. World'
    BY DEF RInv, World, world
  <2>5. Control'
    BY <1>2 DEF RInv, Control, Step, Listing, Refreshing, world
  <2>6. Vetting'
    BY Same DEF RInv, Vetting, Vetted, Early, Todo, Step, world
  <2>7. ByCursor'
    BY Same DEF RInv, ByCursor, Listed, Listing, Step, world
  <2>8. Absence'
    BY DEF RInv, Absence, world
  <2> QED
    BY <2>3, <2>4, <2>5, <2>6, <2>7, <2>8 DEF RInv
<1>7. CASE read' = Go("failed")
  BY <1>1, <1>7, Failed DEF Step
<1>8. CASE "last" \notin read.marks /\ read' = [Go("page") EXCEPT !.page = @ + 1]
  <2>1. read.page + 1 \in Nat \ {0} /\ read' = [read EXCEPT !.step = "page", !.page = read.page + 1]
    BY <1>1, <1>8 DEF Go, Reads
  <2> QED
    BY <1>3, <1>8, <2>1
<1>9. CASE /\ "last" \in read.marks /\ kind # "linear" /\ read.scope < Len(Wanted)
           /\ read' = [Go("page") EXCEPT !.scope = @ + 1, !.page = 1]
  <2>1. 1 \in Nat \ {0} /\ read.scope + 1 \in Nat \ {0} /\ read' = [read EXCEPT !.step = "page", !.scope = read.scope + 1, !.page = 1]
    BY <1>1, <1>9 DEF Go, Reads
  <2> QED
    BY <1>5, <1>9, <2>1
<1> QED
  BY <1>4, <1>6, <1>7, <1>8, <1>9 DEF NextPage, Go

(* Linear: a page after the cursor.                                        *)
LEMMA CursorPageKeeps ==
  ASSUME RInv, Step("page"), kind = "linear", CursorPage, UNCHANGED <<world, numbers>>
  PROVE  RInv'
<1> DEFINE rest == {i \in Issues : now[i] \in Range(Wanted) /\ i > read.after}
           batch == FirstOf(rest, PageSize)
           f == [i \in Issues |-> IF i \in batch THEN now[i] ELSE read.found[i]]
           t == {i \in batch : now[i] = "todo"}
           a == IF batch = {} THEN read.after ELSE Max(batch)
           m == IF rest = batch THEN {"last"} ELSE {}
<1>1. /\ read.step = "page" /\ read \in Reads /\ read.after \in Nat /\ read.op = "list"
      /\ read.found \in [Issues -> Told]
  BY DEF Step, RInv, Control, Reads, Listing
<1>2. /\ batch \subseteq rest /\ rest \subseteq Issues
      /\ \A i \in rest : \A j \in batch : i <= j => i \in batch
  BY FirstOfIs, Numbers
<1>3. a \in Nat /\ read.after <= a /\ (\A i \in batch : i <= a) /\ \A i \in rest : i <= a => i \in batch
  <2>1. CASE batch = {}
    BY <1>1, <2>1, Numbers
  <2>2. CASE batch # {}
    <3>1. batch \subseteq Nat /\ IsFiniteSet(batch)
      BY <1>2, Setting, FS_Subset
    <3>2. Max(batch) \in batch /\ \A i \in batch : i <= Max(batch)
      BY <2>2, <3>1, Greatest
    <3>3. Max(batch) > read.after /\ Max(batch) \in Nat /\ a = Max(batch)
      BY <1>2, <2>2, <3>1, <3>2
    <3>4. \A i \in rest : i <= Max(batch) => i \in batch
      BY <1>2, <3>2
    <3>5. Max(batch) \in Nat /\ read.after <= Max(batch)
      BY <1>1, <3>3
    <3> HIDE DEF a, rest, batch
    <3> QED
      BY <3>2, <3>3, <3>4, <3>5
  <2> QED
    BY <2>1, <2>2
<1>4. /\ f \in [Issues -> Told] /\ t \subseteq Issues /\ m \in SUBSET {"last", "capped"}
      /\ \A i \in batch : f[i] = now[i] /\ f[i] \notin {"unknown", "absent"}
      /\ \A i \in Issues \ batch : f[i] = read.found[i]
  <2>1. \A i \in Issues : now[i] \in Values[i] /\ now[i] \in Told /\ now[i] \notin {"unknown", "absent"}
    BY Setting, Zenon DEF RInv, World, Told
  <2> QED
    BY <1>1, <1>2, <2>1
<1>5. \A i \in Issues : i \in batch /\ f[i] = "todo" => i \in t
  BY <1>4
<1>6. \A i \in Issues : i \in rest <=> now[i] \in Range(Wanted) /\ ~ (i <= read.after)
  BY <1>1, Numbers
<1>7. "last" \in m => \A i \in rest : i <= a
  BY <1>3
<1>8. read' = [read EXCEPT !.step = "blockers", !.found = f, !.todo = t, !.after = a, !.marks = m]
  BY DEF CursorPage
<1> HIDE DEF rest, batch, f, t, a, m
<1>9. ASSUME read' = [read EXCEPT !.step = "blockers", !.found = f, !.todo = t, !.after = a, !.marks = m]
      PROVE  RInv'
  <2>1. read' \in Reads
    BY <1>9, <1>3, <1>4 DEF RInv, Control, Reads
  <2>2. /\ read'.op = read.op /\ read'.step = "blockers" /\ read'.scope = read.scope
        /\ read'.page = read.page /\ read'.after = a /\ read'.marks = m
        /\ read'.claimed = read.claimed /\ read'.todo = t /\ read'.deps = read.deps
        /\ read'.found = f /\ read'.blk = read.blk /\ read'.cache = read.cache
    BY <1>9 DEF RInv, Control, Reads
  <2>3. ByCursor'
    <3> SUFFICES ASSUME edits = 0
                 PROVE  /\ Listed' = {i \in Issues : now[i] \in Range(Wanted) /\ i <= a}
                        /\ "last" \in m => \A i \in Issues : now[i] \in Range(Wanted) => i <= a
      BY <2>2, <1>1 DEF ByCursor, Listing, Step, world
    <3>1. \A i \in Issues : read.found[i] # "unknown" <=> now[i] \in Range(Wanted) /\ i <= read.after
      BY <1>1 DEF RInv, ByCursor, Listing, Step, Listed
    <3>2. \A i \in Issues : i <= read.after => i <= a
      BY <1>1, <1>3, Numbers
    <3>3. \A i \in Issues : f[i] # "unknown" <=> now[i] \in Range(Wanted) /\ i <= a
      BY <1>2, <1>3, <1>4, <1>6, <3>1, <3>2
    <3> QED
      BY <2>2, <1>3, <1>6, <1>7, <3>2, <3>3 DEF Listed
  <2> USE <2>1, <2>2
  <2>4. World'
    BY DEF RInv, World, world
  <2>5. Control'
    BY <1>1 DEF RInv, Control, Step, Listing, Refreshing, world
  <2>6. Vetting'
    <3>1. /\ \A d : Clear(d)' <=> Clear(d)
          /\ \A i : Needs(i)' = Needs(i)
          /\ kind' = kind
      BY Same DEF world
    <3>2. \A d \in Issues : read'.cache[d] \in Terminal \cup {"gone"} => Clear(d)'
      BY <3>1 DEF RInv, Vetting
    <3> QED
      BY <1>1, <1>4, <1>5, <3>1, <3>2 DEF RInv, Vetting, Vetted, Early, Todo, Step
  <2>7. ByLabel'
    BY Same DEF RInv, ByLabel, Listed, Listing, Step, world
  <2>8. Absence'
    BY <1>2, <1>4 DEF RInv, Absence, world
  <2> QED
    BY <2>3, <2>4, <2>5, <2>6, <2>7, <2>8 DEF RInv
<1> QED
  BY <1>8, <1>9

(* Gitea and GitHub: a page of a label.                                    *)
LEMMA OffsetPageKeeps ==
  ASSUME RInv, Step("page"), kind # "linear", OffsetPage, UNCHANGED world
  PROVE  RInv'
<1> DEFINE p == read.page
           M == Match(read.scope)
           batch == PageOf(p)
           more == HasNext(p)
           new == Collected(batch)
<1>1. /\ read.step = "page" /\ read \in Reads /\ read.op = "list" /\ p \in Nat \ {0}
      /\ read.found \in [Issues -> Told] /\ read.blk \in [Issues -> {"none", "clear", "blocked"}]
      /\ read.marks \subseteq {"last", "capped"} /\ read.claimed \subseteq Issues
  BY DEF Step, RInv, Control, Reads, Listing
<1>2. kind \in {"gitea", "github"} /\ M \subseteq Issues \ foreign
  BY Setting DEF RInv, World, Match
<1>3. Through(p) \in Nat /\ Through(p - 1) \in Nat /\ Through(p - 1) <= Through(p)
  <2>1. p \in Nat /\ p - 1 \in Nat /\ PageSize \in Nat
    BY <1>1, Numbers
  <2>2. (p - 1) * PageSize + PageSize = p * PageSize /\ (p - 1) * PageSize \in Nat
    BY <2>1
  <2> HIDE DEF p
  <2> QED
    BY <2>1, <2>2 DEF Through
<1>4. /\ FirstOf(M, Through(p)) \subseteq M /\ FirstOf(M, Through(p - 1)) \subseteq FirstOf(M, Through(p))
  <2>1. M \subseteq Issues
    BY <1>2
  <2> HIDE DEF p, M
  <2> QED
    BY <1>3, <2>1, FirstOfIs
<1>5. /\ batch = FirstOf(M, Through(p)) \ FirstOf(M, Through(p - 1))
      /\ ~ more => FirstOf(M, Through(p)) = M
  BY DEF PageOf, HasNext, Matching, Match, Through
<1>6. /\ new \subseteq batch /\ batch \subseteq Issues \ foreign
      /\ \A i : i \in new <=> i \in batch /\ i \notin read.claimed /\ read.found[i] = "unknown"
  BY <1>2, <1>4, <1>5 DEF Collected
<1>7. edits = 0 =>
        /\ read.scope \in 1..Len(Wanted) /\ read.claimed = pulls
        /\ "capped" \notin read.marks =>
             \A i \in Issues : read.found[i] # "unknown" <=> i \in Got(read.scope, Through(p - 1))
  BY <1>1, <1>2 DEF RInv, ByLabel, Listing, Step, Listed
<1>8. \A i, n : i \in Got(read.scope, n) <=>
        /\ i \in Issues \ pulls
        /\ (\E j \in 1..(read.scope - 1) : i \in Match(j)) \/ i \in FirstOf(M, n)
  BY DEF Got
<1> HIDE DEF p, M, batch, more, new
<1>9. ASSUME NEW c \in {{}, {"capped"}}, c = {} => ~ more /\ batch = {}, UNCHANGED numbers,
             read' = [read EXCEPT !.step = "next", !.marks = @ \cup {"last"} \cup c]
      PROVE  RInv'
  <2>1. read' \in Reads
    BY <1>9 DEF RInv, Control, Reads
  <2>2. /\ read'.op = read.op /\ read'.step = "next" /\ read'.scope = read.scope
        /\ read'.page = read.page /\ read'.after = read.after /\ read'.marks = read.marks \cup {"last"} \cup c
        /\ read'.claimed = read.claimed /\ read'.todo = read.todo /\ read'.deps = read.deps
        /\ read'.found = read.found /\ read'.blk = read.blk /\ read'.cache = read.cache
    BY <1>9 DEF RInv, Control, Reads
  <2>3. ByLabel'
    <3> SUFFICES ASSUME edits = 0, "capped" \notin read'.marks
                 PROVE  Listed' = Got(read.scope, Through(p)) /\ FirstOf(M, Through(p)) = M
      <4>1. /\ edits' = edits /\ kind' = kind /\ pulls' = pulls
            /\ \A k, n : Match(k)' = Match(k) /\ Got(k, n)' = Got(k, n)
        BY <1>1, <1>2, Same DEF world
      <4>2. /\ Step("next")' /\ ~ Step("claims")' /\ ~ Step("page")' /\ ~ Step("lookup")'
            /\ ~ Step("native")' /\ ~ Step("ok")'
        BY <2>2 DEF Step
      <4>3. edits = 0 => read'.scope \in 1..Len(Wanted) /\ read'.claimed = pulls'
        BY <1>7, <2>2, <4>1
      <4>4. edits = 0 /\ "capped" \notin read'.marks =>
              \A k \in {read'.scope}, q \in {read'.page} :
                Listed' = Got(k, Through(q))' /\ FirstOf(Match(k), Through(q))' = Match(k)'
        BY <2>2, <4>1 DEF p, M
      <4> QED
        BY <4>1, <4>2, <4>3, <4>4 DEF ByLabel
    <3>1. ~ more /\ batch = {} /\ "capped" \notin read.marks
      BY <1>9, <2>2
    <3>2. FirstOf(M, Through(p)) = FirstOf(M, Through(p - 1))
      BY <1>4, <1>5, <3>1
    <3>3. \A i : i \in Got(read.scope, Through(p)) <=> i \in Got(read.scope, Through(p - 1))
      BY <1>8, <3>2
    <3>4. \A i \in Issues : read.found[i] # "unknown" <=> i \in Got(read.scope, Through(p))
      BY <1>7, <3>1, <3>3
    <3>5. Got(read.scope, Through(p)) \subseteq Issues
      BY <1>8
    <3>6. Listed' = Got(read.scope, Through(p))
      BY <2>2, <3>4, <3>5 DEF Listed
    <3> QED
      BY <1>5, <3>1, <3>6
  <2> USE <1>9, <2>1, <2>2
  <2>4. World'
    BY DEF RInv, World, world
  <2>5. Control'
    BY <1>1, <1>2 DEF RInv, Control, Step, Listing, Refreshing, world
  <2>6. Vetting'
    BY Same, <1>1, <1>2 DEF RInv, Vetting, Vetted, Early, Todo, Step, world
  <2>7. ByCursor'
    BY Same DEF RInv, ByCursor, Listed, Listing, Step, world
  <2>8. Absence'
    BY DEF RInv, Absence, world
  <2> QED
    BY <2>3, <2>4, <2>5, <2>6, <2>7, <2>8 DEF RInv
<1> DEFINE f == [i \in Issues |-> IF i \in new THEN now[i] ELSE read.found[i]]
           b == [i \in Issues |-> IF i \in new THEN "clear" ELSE read.blk[i]]
           st == IF kind = "gitea" THEN "lookup" ELSE "next"
           t == IF kind = "gitea" THEN new ELSE {}
           d == IF kind = "gitea" /\ new # {} THEN Body[Min(new)] ELSE {}
           m == (read.marks \ {"last"}) \cup (IF ~ more /\ Cardinality(batch) < PageSize THEN {"last"} ELSE {})
<1>10. /\ f \in [Issues -> Told] /\ b \in [Issues -> {"none", "clear", "blocked"}]
       /\ \A i \in new : f[i] = now[i] /\ f[i] \notin {"unknown", "absent"}
       /\ \A i \in Issues \ new : f[i] = read.found[i] /\ b[i] = read.blk[i]
  <2>1. \A i \in Issues : now[i] \in Values[i] /\ now[i] \in Told /\ now[i] \notin {"unknown", "absent"}
    BY Setting, Zenon DEF RInv, World, Told
  <2> QED
    BY <1>1, <1>6, <2>1
<1>11. /\ st \in {"lookup", "next"} /\ (st = "lookup" <=> kind = "gitea") /\ t \subseteq Issues
       /\ (kind = "gitea" => t = new) /\ m \subseteq {"last", "capped"} /\ ("last" \in m => ~ more)
       /\ ("capped" \in m <=> "capped" \in read.marks)
  BY <1>1, <1>6
<1>12. d \subseteq Issues /\ \A i \in new : (\A j \in new : i <= j) /\ kind = "gitea" => d = Body[i]
  <2>1. CASE new = {}
    BY <2>1
  <2>2. CASE new # {}
    <3>1. new \subseteq Nat
      BY <1>6, Numbers
    <3>2. Min(new) \in new /\ \A j \in new : Min(new) <= j
      BY <2>2, <3>1, Least
    <3>3. ASSUME NEW i \in new, \A j \in new : i <= j
          PROVE  i = Min(new)
      <4>1. i \in Nat /\ Min(new) \in Nat /\ i <= Min(new) /\ Min(new) <= i
        BY <3>1, <3>2, <3>3
      <4> QED
        BY <4>1
    <3>4. Body[Min(new)] \subseteq Issues
      BY <1>6, <3>2, Numbers
    <3> QED
      BY <2>2, <3>3, <3>4
  <2> QED
    BY <2>1, <2>2
<1> HIDE DEF f, b, st, t, d, m
<1>13. ASSUME numbers' = numbers \cup (batch \ read.claimed),
             read' = [read EXCEPT !.step = st, !.found = f, !.blk = b, !.todo = t, !.deps = d, !.marks = m]
      PROVE  RInv'
  <2>1. read' \in Reads
    BY <1>13, <1>10, <1>11, <1>12 DEF RInv, Control, Reads
  <2>2. /\ read'.op = read.op /\ read'.step = st /\ read'.scope = read.scope
        /\ read'.page = read.page /\ read'.after = read.after /\ read'.marks = m
        /\ read'.claimed = read.claimed /\ read'.todo = t /\ read'.deps = d
        /\ read'.found = f /\ read'.blk = b /\ read'.cache = read.cache
    BY <1>13 DEF RInv, Control, Reads
  <2>3. Vetting'
    <3>1. UNCHANGED kind /\ \A i : Needs(i)' = Needs(i)
      BY <2>2, Same DEF world
    <3>2. ASSUME ~ Early', NEW i \in Issues, f[i] = "todo"
          PROVE  Vetted(i)' \/ (st = "lookup" /\ i \in t)
      <4>1. kind = "gitea"
        BY <2>2, <1>2, <1>11, <3>1, <3>2 DEF Early, Step
      <4>2. CASE i \in new
        BY <1>11, <4>1, <4>2
      <4>3. CASE i \notin new
        BY <2>2, <1>1, <1>10, <3>1, <3>2, <4>1, <4>3, Same DEF RInv, Vetting, Vetted, Early, Todo, Step
      <4> QED
        BY <4>2, <4>3
    <3>3. ASSUME st = "lookup", NEW i \in t, \A j \in t : i <= j
          PROVE  \A e \in Needs(i)' \ d : Clear(e)'
      BY <1>11, <1>12, <3>1, <3>3 DEF Needs
    <3>4. \A e \in Issues : read.cache[e] \in Terminal \cup {"gone"} => Clear(e)'
      BY Same DEF RInv, Vetting
    <3>5. ASSUME ~ Early'
          PROVE  \A i \in Todo(read.found)' :
                   Vetted(i)' \/ (read'.step \in {"blockers", "lookup"} /\ i \in read'.todo)
      BY <2>2, <3>2, <3>5 DEF Todo
    <3>6. Step("lookup")' => kind' = "gitea"
      BY <2>2, <1>11, <3>1 DEF Step
    <3>7. Step("lookup")' =>
            \A i \in read'.todo : (\A j \in read'.todo : i <= j) => \A e \in Needs(i)' \ read'.deps : Clear(e)'
      BY <2>2, <3>3 DEF Step
    <3> QED
      BY <2>2, <3>4, <3>5, <3>6, <3>7 DEF Vetting
  <2>4. ByLabel'
    <3>1. edits = 0 /\ "capped" \notin read.marks => Listed' = Got(read.scope, Through(p))
      <4> SUFFICES ASSUME edits = 0, "capped" \notin read.marks
                   PROVE  Listed' = Got(read.scope, Through(p))
        OBVIOUS
      <4>1. \A i \in Issues : read.found[i] # "unknown" <=> i \in Got(read.scope, Through(p - 1))
        BY <1>7
      <4>2. \A i \in Issues : i \in Got(read.scope, Through(p)) <=> i \in Got(read.scope, Through(p - 1)) \/ i \in batch \ pulls
        BY <1>4, <1>5, <1>8
      <4>3. \A i \in Issues : f[i] # "unknown" <=> read.found[i] # "unknown" \/ i \in batch \ pulls
        BY <1>6, <1>7, <1>10
      <4>4. Got(read.scope, Through(p)) \subseteq Issues
        BY <1>8
      <4> QED
        BY <2>2, <4>1, <4>2, <4>3, <4>4 DEF Listed
    <3>2. "last" \in m => FirstOf(M, Through(p)) = M
      BY <1>5, <1>11
    <3>3. /\ read'.op = "list" /\ edits' = edits /\ kind' = kind /\ pulls' = pulls
          /\ \A k, n : Match(k)' = Match(k) /\ Got(k, n)' = Got(k, n)
      BY <2>2, <1>1, <1>2, Same DEF world
    <3>4. /\ read'.step \in {"lookup", "next"} /\ (read'.step = "lookup" => kind = "gitea")
          /\ kind # "gitea" \/ kind # "github"
          /\ "capped" \in read'.marks <=> "capped" \in read.marks
      BY <2>2, <1>11
    <3>5. /\ edits = 0 => read.scope \in 1..Len(Wanted) /\ read.claimed = pulls
          /\ M' = M /\ M = Match(read.scope)
      BY <2>2, <1>7, <3>3 DEF M
    <3> QED
      BY <2>2, <3>1, <3>2, <3>3, <3>4, <3>5 DEF ByLabel, Listing, Step, p
  <2> USE <1>13, <2>1, <2>2
  <2>5. World'
    BY <1>6 DEF RInv, World, world
  <2>6. Control'
    BY <1>1, <1>2, <1>11 DEF RInv, Control, Step, Listing, Refreshing, world
  <2>7. ByCursor'
    BY Same DEF RInv, ByCursor, Listed, Listing, Step, world
  <2>8. Absence'
    BY <1>6, <1>10 DEF RInv, Absence, world
  <2> QED
    BY <2>3, <2>4, <2>5, <2>6, <2>7, <2>8 DEF RInv
<1>14. CASE p > MaxPages
  <2>1. /\ read' = [read EXCEPT !.step = "next",
                      !.marks = @ \cup {"last"} \cup (IF CapProbe(batch, more) THEN {} ELSE {"capped"})]
        /\ UNCHANGED numbers
    BY <1>14 DEF OffsetPage, p, batch, more
  <2> QED
    BY <1>9, <2>1 DEF CapProbe
<1>15. CASE ~ (p > MaxPages)
  <2>1. /\ read' = [read EXCEPT !.step = st, !.found = f, !.blk = b, !.todo = t, !.deps = d, !.marks = m]
        /\ numbers' = numbers \cup (batch \ read.claimed)
    BY <1>15 DEF OffsetPage, p, batch, more, new, st, f, b, t, d, m
  <2> QED
    BY <1>13, <2>1
<1> QED
  BY <1>14, <1>15

(* A page is asked for.                                                    *)
LEMMA ListPageKeeps == ASSUME RInv, ListPage PROVE RInv'
BY CursorPageKeeps, OffsetPageKeeps, Failed DEF ListPage, Step, world

-----------------------------------------------------------------------------
(* Blockers.                                                               *)

(* An issue of a query is blocked, or its relations were seen clear.       *)
LEMMA RelatedIs ==
  ASSUME RInv, NEW S \in SUBSET Issues
  PROVE  /\ Related(S) \in [Issues -> {"none", "clear", "blocked"}]
         /\ \A i \in Issues \ S : Related(S)[i] = read.blk[i]
         /\ \A i \in S : Related(S)[i] = "blocked" \/ \A d \in Native[i] : Clear(d)
<1>1. read.blk \in [Issues -> {"none", "clear", "blocked"}]
  BY DEF RInv, Control, Reads
<1>2. ASSUME NEW d \in Issues, ~ Open(now[d])
      PROVE  Clear(d)
  BY <1>2 DEF RInv, World, Open, Clear
<1>3. ASSUME NEW i \in S, Related(S)[i] # "blocked"
      PROVE  \A d \in Native[i] : Clear(d)
  <2>1. \A d \in Native[i] : d \in Issues /\ ~ Open(now[d])
    BY <1>3, Numbers DEF Related
  <2> QED
    BY <1>2, <2>1
<1> QED
  BY <1>1, <1>3 DEF Related

(* The text of the first issue of a set.                                   *)
LEMMA FirstText ==
  ASSUME NEW S \in SUBSET Issues
  PROVE  /\ \A i \in S : (\A j \in S : i <= j) => i = Min(S)
         /\ S # {} => Min(S) \in S /\ \A j \in S : Min(S) <= j
         /\ LET text == IF S = {} THEN {} ELSE Body[Min(S)] \ Native[Min(S)]
            IN  /\ text \subseteq Issues
                /\ \A i \in S : (\A j \in S : i <= j) => text = Body[i] \ Native[i]
<1>1. S \subseteq Nat
  BY Numbers
<1>2. ASSUME S # {}
      PROVE  Min(S) \in S /\ \A j \in S : Min(S) <= j
  BY <1>1, <1>2, Least
<1>3. ASSUME NEW i \in S, \A j \in S : i <= j
      PROVE  i = Min(S)
  <2>1. i \in Nat /\ Min(S) \in Nat /\ i <= Min(S) /\ Min(S) <= i
    BY <1>1, <1>2, <1>3
  <2> QED
    BY <2>1
<1>4. S # {} => Body[Min(S)] \subseteq Issues
  BY <1>2, Numbers
<1> QED
  BY <1>2, <1>3, <1>4

(* Linear: the blockers of a page or of a refresh.                         *)
LEMMA LinearBlockersKeeps == ASSUME RInv, LinearBlockers PROVE RInv'
<1>1. /\ UNCHANGED <<world, numbers>> /\ read.step = "blockers" /\ read \in Reads /\ kind = "linear"
      /\ read.todo \subseteq Issues /\ read.blk \in [Issues -> {"none", "clear", "blocked"}]
  BY DEF LinearBlockers, Step, RInv, Control, Reads
<1>2. ASSUME NEW b \in [Issues -> {"none", "clear", "blocked"}], \A i \in Issues \ read.todo : b[i] = read.blk[i],
             \A i \in read.todo : b[i] = "blocked" \/ \A d \in Native[i] : Clear(d),
             NEW e, e = (IF Listing THEN "next" ELSE "ok"),
             read' = [read EXCEPT !.step = e, !.blk = b, !.todo = {}]
      PROVE  RInv'
  <2>1. read' \in Reads
    BY <1>2, <1>1 DEF RInv, Control, Reads
  <2>2. /\ read'.op = read.op /\ read'.step = e /\ read'.scope = read.scope
        /\ read'.page = read.page /\ read'.after = read.after /\ read'.marks = read.marks
        /\ read'.claimed = read.claimed /\ read'.todo = {} /\ read'.deps = read.deps
        /\ read'.found = read.found /\ read'.blk = b /\ read'.cache = read.cache
    BY <1>2, <1>1 DEF RInv, Control, Reads
  <2>3. Vetting'
    <3>1. UNCHANGED kind /\ \A i : Needs(i)' = Needs(i) /\ Needs(i) = Native[i]
      BY <2>2, <1>1, Same DEF world, Needs
    <3>2. ASSUME NEW i \in Issues, read.found[i] = "todo"
          PROVE  Vetted(i)'
      <4>1. CASE i \in read.todo
        BY <1>2, <2>2, <1>1, <3>1, <4>1, Same DEF Vetted
      <4>2. CASE i \notin read.todo
        <5>1. Vetted(i)
          BY <1>1, <3>2, <4>2 DEF RInv, Vetting, Early, Todo, Step
        <5> QED
          BY <1>2, <2>2, <1>1, <3>1, <4>2, <5>1, Same DEF Vetted
      <4> QED
        BY <4>1, <4>2
    <3>3. \A d \in Issues : read.cache[d] \in Terminal \cup {"gone"} => Clear(d)'
      BY <1>1, Same DEF RInv, Vetting
    <3> QED
      BY <1>2, <2>2, <3>2, <3>3 DEF Vetting, Todo, Step
  <2> USE <1>2, <2>1, <2>2, <1>1
  <2>4. World'
    BY DEF RInv, World, world
  <2>5. Control'
    BY DEF RInv, Control, Step, Listing, Refreshing, world
  <2>6. ByCursor'
    BY Same DEF RInv, ByCursor, Listed, Listing, Step, world
  <2>7. ByLabel'
    BY Same DEF RInv, ByLabel, Listed, Listing, Step, world
  <2>8. Absence'
    BY DEF RInv, Absence, world
  <2> QED
    BY <2>3, <2>4, <2>5, <2>6, <2>7, <2>8 DEF RInv
<1>3. CASE read' = Go("failed")
  BY <1>1, <1>3, Failed DEF Step
<1> DEFINE e == IF Listing THEN "next" ELSE "ok"
<1>4. CASE read' = [Go(e) EXCEPT !.blk = Related(read.todo), !.todo = {}]
  <2> DEFINE b == Related(read.todo)
  <2>1. read' = [read EXCEPT !.step = e, !.blk = b, !.todo = {}]
    BY <1>4 DEF Go
  <2>2. /\ b \in [Issues -> {"none", "clear", "blocked"}]
        /\ \A i \in Issues \ read.todo : b[i] = read.blk[i]
        /\ \A i \in read.todo : b[i] = "blocked" \/ \A d \in Native[i] : Clear(d)
    BY <1>1, RelatedIs
  <2> HIDE DEF b, e
  <2>3. e = IF Listing THEN "next" ELSE "ok"
    BY DEF e
  <2> QED
    BY <1>2, <2>1, <2>2, <2>3
<1>5. CASE read' = [Go(e) EXCEPT !.blk = FailClosed(@, read.todo), !.todo = {}]
  <2> DEFINE b == Blocked(read.blk, read.todo)
  <2>1. read' = [read EXCEPT !.step = e, !.blk = b, !.todo = {}]
    BY <1>5 DEF Go, FailClosed
  <2>2. /\ b \in [Issues -> {"none", "clear", "blocked"}]
        /\ \A i \in Issues \ read.todo : b[i] = read.blk[i]
        /\ \A i \in read.todo : b[i] = "blocked"
    BY <1>1 DEF Blocked
  <2> HIDE DEF b, e
  <2>3. e = IF Listing THEN "next" ELSE "ok"
    BY DEF e
  <2> QED
    BY <1>2, <2>1, <2>2, <2>3
<1> QED
  BY <1>3, <1>4, <1>5 DEF LinearBlockers

(* A read that says nothing of the Todo issues.                            *)
LEMMA NoBlockersKeeps ==
  ASSUME RInv, UNCHANGED <<world, numbers>>, ~ Listing, Refreshing, read' = NoBlockers
  PROVE  RInv'
<1> DEFINE f == Withdraw(read.found, Todo(read.found))
<1>1. /\ f \in [Issues -> Told] /\ read.op = "refresh"
      /\ \A i \in Issues : f[i] # "todo" /\ (f[i] = "absent" => read.found[i] = "absent")
  BY DEF RInv, Control, Reads, Withdraw, Todo, Told, Refreshing
<1>2. read' = [read EXCEPT !.step = "ok", !.found = f]
  BY DEF NoBlockers, Go
<1> HIDE DEF f
<1>3. ASSUME read' = [read EXCEPT !.step = "ok", !.found = f]
      PROVE  RInv'
  <2>1. read' \in Reads
    <3>1. PICK r \in Reads, g \in [Issues -> Told] : r = read /\ g = f
      BY <1>1 DEF RInv, Control
    <3>2. [r EXCEPT !.step = "ok", !.found = g] \in Reads
      BY DEF Reads
    <3> QED
      BY <1>3, <3>1, <3>2, Zenon
  <2>2. /\ read'.op = read.op /\ read'.step = "ok" /\ read'.scope = read.scope
        /\ read'.page = read.page /\ read'.after = read.after /\ read'.marks = read.marks
        /\ read'.claimed = read.claimed /\ read'.todo = read.todo /\ read'.deps = read.deps
        /\ read'.found = f /\ read'.blk = read.blk /\ read'.cache = read.cache
    BY <1>3, <1>1 DEF RInv, Control, Reads
  <2> USE <2>1, <2>2, <1>1
  <2>3. World'
    BY DEF RInv, World, world
  <2>4. Control'
    BY DEF RInv, Control, Step, Listing, Refreshing, world
  <2>5. Vetting'
    BY Same DEF RInv, Vetting, Vetted, Early, Todo, Step, world
  <2>6. ByCursor'
    BY Same DEF RInv, ByCursor, Listed, Listing, Step, world
  <2>7. ByLabel'
    BY Same DEF RInv, ByLabel, Listed, Listing, Step, world
  <2>8. Absence'
    BY DEF RInv, Absence, world
  <2> QED
    BY <2>3, <2>4, <2>5, <2>6, <2>7, <2>8 DEF RInv
<1> QED
  BY <1>2, <1>3

(* GitHub: the tracker's own relations.                                    *)
LEMMA GitHubNativeKeeps == ASSUME RInv, GitHubNative PROVE RInv'
<1> DEFINE S == Todo(read.found)
<1>1. /\ UNCHANGED <<world, numbers>> /\ read.step = "native" /\ read \in Reads /\ kind = "github"
      /\ S \subseteq Issues /\ read.op \in {"idle", "list", "refresh"}
  BY DEF GitHubNative, Step, RInv, Control, Reads, Todo
<1>2. \A i \in Issues : i \in S <=> read.found[i] = "todo"
  BY DEF Todo
<1> DEFINE text == IF S = {} THEN {} ELSE Body[Min(S)] \ Native[Min(S)]
<1>3. text \subseteq Issues /\ \A i \in S : (\A j \in S : i <= j) => text = Body[i] \ Native[i]
  BY <1>1, FirstText
<1> HIDE DEF S, text
<1>4. ASSUME NEW b \in [Issues -> {"none", "clear", "blocked"}],
             \A i \in S : b[i] = "blocked" \/ \A d \in Native[i] : Clear(d),
             read' = [read EXCEPT !.step = "lookup", !.blk = b, !.todo = S, !.deps = text]
      PROVE  RInv'
  <2>1. read' \in Reads
    BY <1>4, <1>1, <1>3 DEF RInv, Control, Reads
  <2>2. /\ read'.op = read.op /\ read'.step = "lookup" /\ read'.scope = read.scope
        /\ read'.page = read.page /\ read'.after = read.after /\ read'.marks = read.marks
        /\ read'.claimed = read.claimed /\ read'.todo = S /\ read'.deps = text
        /\ read'.found = read.found /\ read'.blk = b /\ read'.cache = read.cache
    BY <1>4, <1>1 DEF RInv, Control, Reads
  <2>3. Vetting'
    <3>1. UNCHANGED kind /\ \A i : Needs(i)' = Needs(i) /\ Needs(i) \subseteq Native[i] \cup Body[i]
      BY <2>2, <1>1, Same DEF world, Needs
    <3>2. \A i \in S : b[i] = "blocked" \/ \A d \in Native[i] : Clear(d)'
      BY <1>4, <1>1, Same
    <3>3. \A i \in S : (\A j \in S : i <= j) => b[i] = "blocked" \/ \A d \in Needs(i)' \ text : Clear(d)'
      BY <1>3, <3>1, <3>2
    <3>4. \A d \in Issues : read.cache[d] \in Terminal \cup {"gone"} => Clear(d)'
      BY <1>1, Same DEF RInv, Vetting
    <3> QED
      BY <2>2, <1>2, <3>2, <3>3, <3>4 DEF Vetting, Todo, Step
  <2> USE <1>4, <2>1, <2>2, <1>1
  <2>4. World'
    BY DEF RInv, World, world
  <2>5. Control'
    BY DEF RInv, Control, Step, Listing, Refreshing, world
  <2>6. ByCursor'
    BY Same DEF RInv, ByCursor, Listed, Listing, Step, world
  <2>7. ByLabel'
    BY Same DEF RInv, ByLabel, Listed, Listing, Step, world
  <2>8. Absence'
    BY DEF RInv, Absence, world
  <2> QED
    BY <2>3, <2>4, <2>5, <2>6, <2>7, <2>8 DEF RInv
<1>5. ASSUME NEW cut \in SUBSET S,
             read' = [Go("lookup") EXCEPT !.blk = Blocked(Related(S), cut), !.todo = S, !.deps = text]
      PROVE  RInv'
  <2>1. read' = [read EXCEPT !.step = "lookup", !.blk = Blocked(Related(S), cut), !.todo = S, !.deps = text]
    BY <1>5 DEF Go
  <2>2. /\ Related(S) \in [Issues -> {"none", "clear", "blocked"}]
        /\ \A i \in S : Related(S)[i] = "blocked" \/ \A d \in Native[i] : Clear(d)
    BY <1>1, RelatedIs
  <2>3. /\ Blocked(Related(S), cut) \in [Issues -> {"none", "clear", "blocked"}]
        /\ \A i \in S : Blocked(Related(S), cut)[i] \in {Related(S)[i], "blocked"}
    BY <1>1, <2>2 DEF Blocked
  <2> QED
    BY <1>4, <2>1, <2>2, <2>3
<1>6. CASE read' = NoBlockers
  <2>1. CASE Listing
    BY <1>1, <1>6, <2>1, Failed DEF NoBlockers, Step
  <2>2. CASE ~ Listing
    <3>1. Refreshing
      BY <1>1, <2>2, BlankIs DEF RInv, Control, Listing, Refreshing, Step, Reads
    <3> QED
      BY <1>1, <1>6, <2>2, <3>1, NoBlockersKeeps
  <2> QED
    BY <2>1, <2>2
<1> QED
  BY <1>5, <1>6 DEF GitHubNative, S, text

(* A blocker named in a text that is seen closed does not block.            *)
LEMMA AnswerClears ==
  ASSUME RInv, NEW d \in Issues, NEW s,
         s = Answer(d) \/ s = read.cache[d]
  PROVE  ~ Open(s) => Clear(d)
BY DEF RInv, World, Vetting, Answer, Open, Clear

(* One issue named in the text is looked up.                               *)
LEMMA BodyLookupKeeps == ASSUME RInv, BodyLookup PROVE RInv'
<1>1. /\ UNCHANGED world /\ read.step = "lookup" /\ read \in Reads /\ kind \in {"gitea", "github"}
      /\ read.todo \in SUBSET Issues /\ read.deps \in SUBSET Issues
      /\ read.found \in [Issues -> Told] /\ read.blk \in [Issues -> {"none", "clear", "blocked"}]
      /\ read.cache \in [Issues -> Told] /\ read.todo # {} /\ read.deps # {}
  BY Setting DEF BodyLookup, Step, RInv, Control, Reads, World
<1>0. PICK i \in Issues, d \in Issues : i = Min(read.todo) /\ d = Min(read.deps)
  BY <1>1, FirstText
<1>2. /\ i \in read.todo /\ i \in Issues /\ d \in read.deps /\ d \in Issues
      /\ \A k \in read.todo : (\A j \in read.todo : k <= j) => k = i
      /\ \A j \in read.todo : i <= j
  BY <1>0, <1>1, FirstText
<1>3. /\ read.blk[i] = "blocked" \/ \A e \in Needs(i) \ read.deps : Clear(e)
      /\ kind = "github" => \A k \in read.todo : read.blk[k] = "blocked" \/ \A e \in Native[k] : Clear(e)
      /\ \A k \in Issues : read.found[k] = "todo" => Vetted(k) \/ k \in read.todo
      /\ \A e \in Issues : read.cache[e] \in Terminal \cup {"gone"} => Clear(e)
  BY <1>1, <1>2 DEF RInv, Vetting, Step, Early, Todo
<1>4. ASSUME NEW s \in Told, ~ Open(s) => Clear(d), NEW b, b \in {read.blk[i], "blocked"}, Open(s) => b = "blocked",
             NEW c \in {s, read.cache[d]}, numbers' \subseteq Issues \ foreign,
             read' = [read EXCEPT !.blk[i] = b, !.cache[d] = c, !.deps = @ \ {d}]
      PROVE  RInv'
  <2>1. read' \in Reads
    BY <1>4, <1>1, <1>2 DEF RInv, Control, Reads
  <2>2. /\ read'.op = read.op /\ read'.step = read.step /\ read'.scope = read.scope
        /\ read'.page = read.page /\ read'.after = read.after /\ read'.marks = read.marks
        /\ read'.claimed = read.claimed /\ read'.todo = read.todo /\ read'.deps = read.deps \ {d}
        /\ read'.found = read.found /\ read'.blk = [read.blk EXCEPT ![i] = b] /\ read'.cache = [read.cache EXCEPT ![d] = c]
    BY <1>4, <1>1 DEF RInv, Control, Reads
  <2>3. Vetting'
    <3>1. UNCHANGED kind /\ \A k : Needs(k)' = Needs(k)
      BY <2>2, <1>1, Same DEF world
    <3>2. \A k \in Issues : read.found[k] = "todo" => Vetted(k)' \/ k \in read.todo
      BY <1>4, <2>2, <1>1, <1>2, <1>3, <3>1, Same DEF Vetted
    <3>3. read'.blk[i] = "blocked" \/ \A e \in Needs(i)' \ read'.deps : Clear(e)'
      BY <1>4, <2>2, <1>1, <1>2, <1>3, <3>1, Same
    <3>4. kind = "github" => \A k \in read.todo : read'.blk[k] = "blocked" \/ \A e \in Native[k] : Clear(e)'
      BY <1>4, <2>2, <1>1, <1>2, <1>3, Same
    <3>5. \A e \in Issues : read'.cache[e] \in Terminal \cup {"gone"} => Clear(e)'
      BY <1>4, <2>2, <1>1, <1>2, <1>3, Same DEF Open
    <3> QED
      BY <2>2, <1>1, <1>2, <3>1, <3>2, <3>3, <3>4, <3>5 DEF Vetting, Todo, Step
  <2> USE <1>4, <2>1, <2>2, <1>1
  <2>4. World'
    BY DEF RInv, World, world
  <2>5. Control'
    BY DEF RInv, Control, Step, Listing, Refreshing, world
  <2>6. ByCursor'
    BY Same DEF RInv, ByCursor, Listed, Listing, Step, world
  <2>7. ByLabel'
    BY Same DEF RInv, ByLabel, Listed, Listing, Step, world
  <2>8. Absence'
    BY DEF RInv, Absence, world
  <2> QED
    BY <2>3, <2>4, <2>5, <2>6, <2>7, <2>8 DEF RInv
<1>5. ASSUME NEW b, b = (IF kind = "github" /\ Listing THEN read.blk[i] ELSE "blocked"), UNCHANGED numbers,
             read' = [read EXCEPT !.deps = @ \ {d}, !.blk[i] = b]
      PROVE  RInv'
  <2>1. read' \in Reads
    BY <1>5, <1>1, <1>2 DEF RInv, Control, Reads
  <2>2. /\ read'.op = read.op /\ read'.step = read.step /\ read'.scope = read.scope
        /\ read'.page = read.page /\ read'.after = read.after /\ read'.marks = read.marks
        /\ read'.claimed = read.claimed /\ read'.todo = read.todo /\ read'.deps = read.deps \ {d}
        /\ read'.found = read.found /\ read'.blk = [read.blk EXCEPT ![i] = b] /\ read'.cache = read.cache
    BY <1>5, <1>1 DEF RInv, Control, Reads
  <2>3. Vetting'
    <3>1. UNCHANGED kind /\ \A k : Needs(k)' = Needs(k)
      BY <2>2, <1>1, Same DEF world
    <3>2. \A k \in Issues : read.found[k] = "todo" => Vetted(k)' \/ k \in read.todo
      BY <1>5, <2>2, <1>1, <1>2, <1>3, <3>1, Same DEF Vetted
    <3>3. read'.blk[i] = "blocked" \/ \A e \in Needs(i)' \ read'.deps : Clear(e)'
      BY <1>5, <2>2, <1>1, <1>2, <1>3, <3>1, Same DEF Needs, Listing, Refreshing
    <3>4. kind = "github" => \A k \in read.todo : read'.blk[k] = "blocked" \/ \A e \in Native[k] : Clear(e)'
      BY <1>5, <2>2, <1>1, <1>2, <1>3, Same
    <3>5. \A e \in Issues : read'.cache[e] \in Terminal \cup {"gone"} => Clear(e)'
      BY <1>5, <2>2, <1>1, <1>2, <1>3, Same
    <3> QED
      BY <2>2, <1>1, <1>2, <3>1, <3>2, <3>3, <3>4, <3>5 DEF Vetting, Todo, Step
  <2> USE <1>5, <2>1, <2>2, <1>1
  <2>4. World'
    BY DEF RInv, World, world
  <2>5. Control'
    BY DEF RInv, Control, Step, Listing, Refreshing, world
  <2>6. ByCursor'
    BY Same DEF RInv, ByCursor, Listed, Listing, Step, world
  <2>7. ByLabel'
    BY Same DEF RInv, ByLabel, Listed, Listing, Step, world
  <2>8. Absence'
    BY DEF RInv, Absence, world
  <2> QED
    BY <2>3, <2>4, <2>5, <2>6, <2>7, <2>8 DEF RInv
<1>6. ASSUME kind = "gitea", Refreshing, UNCHANGED numbers,
             read' = [read EXCEPT !.step = "ok", !.found[i] = "unknown"]
      PROVE  RInv'
  <2>1. read' \in Reads
    BY <1>6, <1>1, <1>2 DEF RInv, Control, Reads, Told
  <2>2. /\ read'.op = read.op /\ read'.step = "ok" /\ read'.scope = read.scope
        /\ read'.page = read.page /\ read'.after = read.after /\ read'.marks = read.marks
        /\ read'.claimed = read.claimed /\ read'.todo = read.todo /\ read'.deps = read.deps
        /\ read'.found = [read.found EXCEPT ![i] = "unknown"] /\ read'.blk = read.blk /\ read'.cache = read.cache
    BY <1>6, <1>1 DEF RInv, Control, Reads
  <2>3. Vetting'
    <3>1. \A k : Needs(k)' = Needs(k)
      BY <2>2, <1>1, Same
    <3>2. \A k \in read.todo : k = i
      BY <1>6, <1>1, <1>2 DEF RInv, Control, Step
    <3>3. \A k \in Issues : read'.found[k] = "todo" => Vetted(k)'
      BY <2>2, <1>1, <1>2, <1>3, <3>1, <3>2, Same DEF Vetted
    <3> QED
      BY <2>2, <1>1, <1>3, <3>3, Same DEF Vetting, Todo, Step
  <2> USE <1>6, <2>1, <2>2, <1>1
  <2>4. World'
    BY DEF RInv, World, world
  <2>5. Control'
    BY DEF RInv, Control, Step, Listing, Refreshing, world
  <2>6. ByCursor'
    BY Same DEF RInv, ByCursor, Listed, Listing, Step, world, Refreshing
  <2>7. ByLabel'
    BY Same DEF RInv, ByLabel, Listed, Listing, Step, world, Refreshing
  <2>8. Absence'
    BY DEF RInv, Absence, world
  <2> QED
    BY <2>3, <2>4, <2>5, <2>6, <2>7, <2>8 DEF RInv
<1>7. CASE Lookup(i, d)
  <2> DEFINE s == IF kind = "gitea" /\ read.cache[d] # "unknown" THEN read.cache[d] ELSE Answer(d)
             c == IF kind = "gitea" THEN s ELSE read.cache[d]
             b == Judge(read.blk[i], s)
  <2>1. s \in Told /\ (s = Answer(d) \/ s = read.cache[d]) /\ (kind = "github" => s = Answer(d))
    <3>1. now[d] \in Told
      BY <1>2, Zenon DEF RInv, World, Told
    <3> QED
      BY <1>1, <1>2, <3>1 DEF Answer, Told
  <2>2. ~ Open(s) => Clear(d)
    BY <1>2, <2>1, AnswerClears
  <2>3. b \in {read.blk[i], "blocked"} /\ (Open(s) => b = "blocked") /\ c \in {s, read.cache[d]}
    BY DEF Judge
  <2>4. /\ read' = [read EXCEPT !.blk[i] = b, !.cache[d] = c, !.deps = @ \ {d}]
        /\ numbers' = IF kind = "github" /\ s # "gone" THEN numbers \cup {d} ELSE numbers
    BY <1>7 DEF Lookup
  <2>5. numbers' \subseteq Issues \ foreign
    BY <1>2, <2>1, <2>4 DEF RInv, World, Answer
  <2> HIDE DEF s, c, b
  <2> QED
    BY <1>4, <2>1, <2>2, <2>3, <2>4, <2>5
<1>8. CASE LookupFails(i, d) /\ UNCHANGED numbers
  BY <1>5, <1>8 DEF LookupFails
<1>9. CASE Refreshing /\ LookupStops(i) /\ UNCHANGED numbers
  <2>1. CASE kind = "gitea"
    BY <1>6, <1>9, <2>1 DEF LookupStops, Go
  <2>2. CASE kind # "gitea"
    BY <1>1, <1>9, <2>2, NoBlockersKeeps DEF LookupStops, Refreshing, Listing
  <2> QED
    BY <2>1, <2>2
<1> QED
  BY <1>0, <1>7, <1>8, <1>9 DEF BodyLookup

(* The next issue of the batch.                                             *)
LEMMA LookedUpKeeps == ASSUME RInv, LookedUp PROVE RInv'
<1>1. /\ UNCHANGED <<world, numbers>> /\ read.step = "lookup" /\ read \in Reads /\ kind \in {"gitea", "github"}
      /\ read.todo \in SUBSET Issues /\ (Listing \/ Refreshing)
  BY Setting DEF LookedUp, Step, RInv, Control, Reads, World
<1>2. /\ \A k \in Issues : read.found[k] = "todo" => Vetted(k) \/ k \in read.todo
      /\ kind = "github" => \A k \in read.todo : read.blk[k] = "blocked" \/ \A e \in Native[k] : Clear(e)
      /\ \A e \in Issues : read.cache[e] \in Terminal \cup {"gone"} => Clear(e)
      /\ \A k \in read.todo : (\A j \in read.todo : k <= j) =>
           read.blk[k] = "blocked" \/ \A e \in Needs(k) \ read.deps : Clear(e)
  BY <1>1 DEF RInv, Vetting, Step, Early, Todo
<1>3. ASSUME read.todo # {}
      PROVE  Min(read.todo) \in read.todo /\ Vetted(Min(read.todo))
  <2>1. read.deps = {}
    BY <1>3 DEF LookedUp
  <2>2. Min(read.todo) \in read.todo /\ \A j \in read.todo : Min(read.todo) <= j
    BY <1>1, <1>3, FirstText
  <2> QED
    BY <1>2, <2>1, <2>2 DEF Vetted
<1> DEFINE rest == IF read.todo = {} THEN {} ELSE read.todo \ {Min(read.todo)}
<1>4. rest \subseteq read.todo /\ \A k \in read.todo \ rest : Vetted(k)
  BY <1>3
<1> DEFINE text == IF rest = {} THEN {}
                   ELSE IF kind = "github" THEN Body[Min(rest)] \ Native[Min(rest)]
                   ELSE Body[Min(rest)]
           e == IF kind = "github" THEN "ok" ELSE IF Listing THEN "next" ELSE "fetch"
<1>5. text \subseteq Issues /\ \A i \in rest : (\A j \in rest : i <= j) =>
                                text = IF kind = "github" THEN Body[i] \ Native[i] ELSE Body[i]
  <2> HIDE DEF rest
  <2>1. rest \in SUBSET Issues
    BY <1>1, <1>4
  <2>2. /\ \A i \in rest : (\A j \in rest : i <= j) => i = Min(rest)
        /\ rest # {} => Min(rest) \in Issues
    BY <2>1, FirstText
  <2> QED
    BY <2>2, Numbers
<1>6. read' = IF rest # {} THEN [read EXCEPT !.todo = rest, !.deps = text]
              ELSE [read EXCEPT !.step = e, !.todo = {}]
  BY DEF LookedUp, Go
<1>7. e = IF kind = "github" THEN "ok" ELSE IF Listing THEN "next" ELSE "fetch"
  OBVIOUS
<1> HIDE DEF rest, text, e
<1>8. ASSUME rest # {}, read' = [read EXCEPT !.todo = rest, !.deps = text]
      PROVE  RInv'
  <2>1. read' \in Reads
    BY <1>8, <1>1, <1>4, <1>5 DEF RInv, Control, Reads
  <2>2. /\ read'.op = read.op /\ read'.step = read.step /\ read'.scope = read.scope
        /\ read'.page = read.page /\ read'.after = read.after /\ read'.marks = read.marks
        /\ read'.claimed = read.claimed /\ read'.todo = rest /\ read'.deps = text
        /\ read'.found = read.found /\ read'.blk = read.blk /\ read'.cache = read.cache
    BY <1>8, <1>1 DEF RInv, Control, Reads
  <2>3. Vetting'
    <3>1. UNCHANGED kind /\ \A k : Needs(k)' = Needs(k)
      BY <2>2, <1>1, Same DEF world
    <3>2. \A k \in Issues : read.found[k] = "todo" => Vetted(k)' \/ k \in rest
      BY <2>2, <1>1, <1>2, <1>4, <3>1, Same DEF Vetted
    <3>3. kind = "github" => \A k \in rest : read.blk[k] = "blocked" \/ \A d \in Native[k] : Clear(d)'
      BY <1>1, <1>2, <1>4, Same
    <3>4. \A i \in rest : (\A j \in rest : i <= j) => read.blk[i] = "blocked" \/ \A d \in Needs(i)' \ text : Clear(d)'
      <4>1. CASE kind = "github"
        <5>1. \A k : Needs(k)' \subseteq Native[k] \cup Body[k]
          BY <3>1 DEF Needs
        <5> QED
          BY <1>5, <3>3, <4>1, <5>1
      <4>2. CASE kind = "gitea"
        <5>1. \A k : Needs(k)' = Body[k]
          BY <3>1, <4>2 DEF Needs
        <5> QED
          BY <1>5, <4>2, <5>1
      <4> QED
        BY <1>1, <4>1, <4>2
    <3>5. \A d \in Issues : read.cache[d] \in Terminal \cup {"gone"} => Clear(d)'
      BY <1>1, <1>2, Same
    <3> QED
      BY <2>2, <1>1, <3>1, <3>2, <3>3, <3>4, <3>5 DEF Vetting, Todo, Step
  <2> USE <1>8, <2>1, <2>2, <1>1
  <2>4. World'
    BY DEF RInv, World, world
  <2>5. Control'
    BY <1>4 DEF RInv, Control, Step, Listing, Refreshing, world
  <2>6. ByCursor'
    BY Same DEF RInv, ByCursor, Listed, Listing, Step, world
  <2>7. ByLabel'
    BY Same DEF RInv, ByLabel, Listed, Listing, Step, world
  <2>8. Absence'
    BY DEF RInv, Absence, world
  <2> QED
    BY <2>3, <2>4, <2>5, <2>6, <2>7, <2>8 DEF RInv
<1>9. ASSUME rest = {}, read' = [read EXCEPT !.step = e, !.todo = {}]
      PROVE  RInv'
  <2>1. read' \in Reads
    BY <1>9, <1>1, <1>7 DEF RInv, Control, Reads
  <2>2. /\ read'.op = read.op /\ read'.step = e /\ read'.scope = read.scope
        /\ read'.page = read.page /\ read'.after = read.after /\ read'.marks = read.marks
        /\ read'.claimed = read.claimed /\ read'.todo = {} /\ read'.deps = read.deps
        /\ read'.found = read.found /\ read'.blk = read.blk /\ read'.cache = read.cache
    BY <1>9, <1>1 DEF RInv, Control, Reads
  <2>3. Vetting'
    <3>1. \A k : Needs(k)' = Needs(k)
      BY <2>2, <1>1, Same
    <3>2. \A k \in Issues : read.found[k] = "todo" => Vetted(k)'
      BY <1>9, <2>2, <1>1, <1>2, <1>4, <3>1, Same DEF Vetted
    <3>3. \A d \in Issues : read.cache[d] \in Terminal \cup {"gone"} => Clear(d)'
      BY <1>1, <1>2, Same
    <3> QED
      BY <2>2, <1>1, <1>7, <3>2, <3>3 DEF Vetting, Todo, Step
  <2> USE <1>9, <2>1, <2>2, <1>1
  <2>4. World'
    BY DEF RInv, World, world
  <2>5. Control'
    BY <1>7 DEF RInv, Control, Step, Listing, Refreshing, world
  <2>6. ByCursor'
    BY Same, <1>7 DEF RInv, ByCursor, Listed, Listing, Step, world
  <2>7. ByLabel'
    BY Same, <1>7 DEF RInv, ByLabel, Listed, Listing, Step, world
  <2>8. Absence'
    BY DEF RInv, Absence, world
  <2> QED
    BY <2>3, <2>4, <2>5, <2>6, <2>7, <2>8 DEF RInv
<1> QED
  BY <1>6, <1>8, <1>9

(* Linear: a chunk of a refresh.                                            *)
LEMMA FetchChunkKeeps ==
  ASSUME RInv, Step("fetch"), Rest # {}, kind = "linear", FetchChunk, UNCHANGED <<world, numbers>>
  PROVE  RInv'
<1>1. /\ read.step = "fetch" /\ read.op = "refresh" /\ read \in Reads /\ kind = "linear" /\ foreign = {}
      /\ \A i \in Issues : now[i] \in was[i] /\ now[i] \in Told /\ now[i] \notin {"absent", "unknown"}
      /\ \A e \in Issues : read.cache[e] \in Terminal \cup {"gone"} => Clear(e)
  <2>1. \A i \in Issues : now[i] \in was[i] /\ now[i] \in Values[i] /\ Values[i] \cap {"unknown", "absent"} = {}
    BY Setting DEF RInv, World
  <2>2. \A i \in Issues : now[i] \in Told
    BY <2>1, Zenon DEF Told
  <2> QED
    BY <2>1, <2>2 DEF Step, RInv, Control, World, Refreshing, Vetting
<1> DEFINE chunk == FirstOf(Rest, PageSize)
           m == Max(chunk)
           f == [i \in Issues |-> IF i \notin chunk THEN read.found[i]
                                  ELSE IF now[i] = "gone" THEN "absent" ELSE now[i]]
<1>2. m \in Nat
  <2>1. Rest \subseteq Issues
    BY DEF Rest
  <2>2. chunk \subseteq Issues /\ chunk # {}
    BY <2>1, FirstOfIs
  <2> HIDE DEF chunk
  <2>3. chunk \subseteq Nat /\ IsFiniteSet(chunk)
    BY <2>2, Setting, FS_Subset
  <2> QED
    BY <2>2, <2>3, Greatest
<1>3. f \in [Issues -> Told] /\ \A i \in Issues : f[i] = "absent" => read.found[i] = "absent" \/ now[i] = "gone"
  <2> HIDE DEF chunk
  <2> QED
    BY <1>1 DEF RInv, Control, Reads, Told
<1>4. \/ read' = [read EXCEPT !.after = m, !.found = f]
      \/ read' = [read EXCEPT !.after = m]
      \/ read' = [read EXCEPT !.step = "ok", !.blk = Blocked(read.blk, Todo(read.found))]
  BY DEF FetchChunk, FailClosed, Go
<1> HIDE DEF chunk, m, f
<1>5. ASSUME NEW g \in {f, read.found}, read' = [read EXCEPT !.after = m, !.found = g]
      PROVE  RInv'
  <2>1. read' \in Reads
    BY <1>5, <1>1, <1>2, <1>3 DEF RInv, Control, Reads
  <2>2. /\ read'.op = read.op /\ read'.step = read.step /\ read'.scope = read.scope
        /\ read'.page = read.page /\ read'.after = m /\ read'.marks = read.marks
        /\ read'.claimed = read.claimed /\ read'.todo = read.todo /\ read'.deps = read.deps
        /\ read'.found = g /\ read'.blk = read.blk /\ read'.cache = read.cache
    BY <1>5, <1>1 DEF RInv, Control, Reads
  <2> USE <1>5, <2>1, <2>2, <1>1
  <2>3. World'
    BY DEF RInv, World, world
  <2>4. Control'
    BY DEF RInv, Control, Step, Listing, Refreshing, world
  <2>5. Vetting'
    BY Same DEF RInv, Vetting, Vetted, Early, Todo, Step, world
  <2>6. ByCursor'
    BY Same DEF RInv, ByCursor, Listed, Listing, Step, world
  <2>7. ByLabel'
    BY Same DEF RInv, ByLabel, Listed, Listing, Step, world
  <2>8. Absence'
    BY <1>3 DEF RInv, Absence, world
  <2> QED
    BY <2>3, <2>4, <2>5, <2>6, <2>7, <2>8 DEF RInv
<1>6. ASSUME NEW b \in [Issues -> {"none", "clear", "blocked"}], \A i \in Todo(read.found) : b[i] = "blocked",
             read' = [read EXCEPT !.step = "ok", !.blk = b]
      PROVE  RInv'
  <2>1. read' \in Reads
    BY <1>6, <1>1 DEF RInv, Control, Reads
  <2>2. /\ read'.op = read.op /\ read'.step = "ok" /\ read'.scope = read.scope
        /\ read'.page = read.page /\ read'.after = read.after /\ read'.marks = read.marks
        /\ read'.claimed = read.claimed /\ read'.todo = read.todo /\ read'.deps = read.deps
        /\ read'.found = read.found /\ read'.blk = b /\ read'.cache = read.cache
    BY <1>6, <1>1 DEF RInv, Control, Reads
  <2> USE <1>6, <2>1, <2>2, <1>1
  <2>3. World'
    BY DEF RInv, World, world
  <2>4. Control'
    BY DEF RInv, Control, Step, Listing, Refreshing, world
  <2>5. Vetting'
    BY Same DEF RInv, Vetting, Vetted, Early, Todo, Step, world
  <2>6. ByCursor'
    BY Same DEF RInv, ByCursor, Listed, Listing, Step, world
  <2>7. ByLabel'
    BY Same DEF RInv, ByLabel, Listed, Listing, Step, world
  <2>8. Absence'
    BY DEF RInv, Absence, world
  <2> QED
    BY <2>3, <2>4, <2>5, <2>6, <2>7, <2>8 DEF RInv
<1>7. CASE read' = [read EXCEPT !.after = m, !.found = f]
  BY <1>5, <1>7
<1>8. CASE read' = [read EXCEPT !.after = m]
  <2>1. read' = [read EXCEPT !.after = m, !.found = read.found]
    BY <1>1, <1>8 DEF Reads
  <2> QED
    BY <1>5, <2>1
<1>9. CASE read' = [read EXCEPT !.step = "ok", !.blk = Blocked(read.blk, Todo(read.found))]
  <2> DEFINE b == Blocked(read.blk, Todo(read.found))
  <2>1. b \in [Issues -> {"none", "clear", "blocked"}] /\ \A i \in Todo(read.found) : b[i] = "blocked"
    BY <1>1 DEF Blocked, Todo, Reads
  <2> HIDE DEF b
  <2>2. read' = [read EXCEPT !.step = "ok", !.blk = b]
    BY <1>9 DEF b
  <2> QED
    BY <1>6, <2>1, <2>2
<1> QED
  BY <1>4, <1>7, <1>8, <1>9

(* Gitea and GitHub: one issue of a refresh.                                *)
LEMMA FetchOneKeeps ==
  ASSUME RInv, Step("fetch"), Rest # {}, kind # "linear", FetchOne, UNCHANGED world
  PROVE  RInv'
<1>1. /\ read.step = "fetch" /\ read.op = "refresh" /\ read \in Reads /\ kind \in {"gitea", "github"}
      /\ \A e \in Issues : read.cache[e] \in Terminal \cup {"gone"} => Clear(e)
      /\ kind = "gitea" => \A k \in Issues : read.found[k] = "todo" => Vetted(k)
      /\ read.found \in [Issues -> Told] /\ read.blk \in [Issues -> {"none", "clear", "blocked"}]
  BY Setting DEF Step, RInv, Control, World, Refreshing, Vetting, Early, Todo, Reads
<1>2. PICK i \in Issues : i = Min(Rest)
  <2>1. Rest \in SUBSET Issues
    BY DEF Rest
  <2> QED
    BY <2>1, FirstText
<1>3. PICK c : c = Classify(i)
  OBVIOUS
<1>4. c \in Told /\ (c = "absent" => i \notin foreign /\ was[i] \cap {"gone", "none"} # {})
  <2>1. /\ now[i] \in was[i] /\ now[i] \in Values[i] /\ Values[i] \cap {"unknown", "absent"} = {}
        /\ numbers \cap foreign = {}
    BY Setting DEF RInv, World
  <2>2. now[i] \in Told
    BY <2>1, Zenon DEF Told
  <2>3. c \in Told
    BY <1>3, <2>2 DEF Classify, Answer, WhenMissing, Derived, Told
  <2> QED
    BY <1>3, <2>1, <2>3 DEF Classify, Answer, WhenMissing, Derived
<1>5. i \in Nat /\ Body[i] \subseteq Issues
  BY Numbers
<1>6. (IF Answer(i) = "gone" THEN numbers ELSE numbers \cup {i}) \subseteq Issues \ foreign
  BY DEF RInv, World, Answer
<1>7. ASSUME kind = "gitea", c = "todo", numbers' \subseteq Issues \ foreign,
             read' = [read EXCEPT !.after = i, !.found[i] = c, !.blk[i] = "clear", !.step = "lookup",
                                 !.todo = {i}, !.deps = Body[i]]
      PROVE  RInv'
  <2>1. read' \in Reads
    BY <1>7, <1>1, <1>4, <1>5 DEF RInv, Control, Reads
  <2>2. /\ read'.op = read.op /\ read'.step = "lookup" /\ read'.scope = read.scope
        /\ read'.page = read.page /\ read'.after = i /\ read'.marks = read.marks
        /\ read'.claimed = read.claimed /\ read'.todo = {i} /\ read'.deps = Body[i]
        /\ read'.found = [read.found EXCEPT ![i] = c] /\ read'.blk = [read.blk EXCEPT ![i] = "clear"] /\ read'.cache = read.cache
    BY <1>7, <1>1 DEF RInv, Control, Reads
  <2>3. Vetting'
    <3>1. UNCHANGED kind /\ \A k : Needs(k)' = Needs(k) /\ Needs(k) = Body[k]
      BY <1>7, <2>2, <1>1, Same DEF world, Needs
    <3>2. \A k \in Issues : read.found[k] = "todo" /\ k # i => Vetted(k)'
      BY <1>7, <2>2, <1>1, <3>1, Same DEF Vetted
    <3>3. \A d \in Issues : read.cache[d] \in Terminal \cup {"gone"} => Clear(d)'
      BY <1>1, Same
    <3> QED
      BY <1>7, <2>2, <1>1, <3>1, <3>2, <3>3 DEF Vetting, Todo, Step
  <2> USE <1>7, <2>1, <2>2, <1>1
  <2>4. World'
    BY DEF RInv, World, world
  <2>5. Control'
    BY DEF RInv, Control, Step, Listing, Refreshing, world
  <2>6. ByCursor'
    BY Same DEF RInv, ByCursor, Listed, Listing, Step, world
  <2>7. ByLabel'
    BY Same DEF RInv, ByLabel, Listed, Listing, Step, world
  <2>8. Absence'
    BY <1>4 DEF RInv, Absence, world
  <2> QED
    BY <2>3, <2>4, <2>5, <2>6, <2>7, <2>8 DEF RInv
<1>8. ASSUME NEW f \in [Issues -> Told], \A k \in Issues : k # i => f[k] = read.found[k],
             f[i] \in {c, read.found[i]}, kind = "gitea" /\ f[i] = c => c # "todo" \/ f[i] = read.found[i], numbers' \subseteq Issues \ foreign,
             NEW t \in SUBSET Issues, NEW D \in SUBSET Issues,
             read' = [read EXCEPT !.after = i, !.found = f, !.todo = t, !.deps = D]
      PROVE  RInv'
  <2>1. read' \in Reads
    BY <1>8, <1>1, <1>4, <1>5 DEF RInv, Control, Reads
  <2>2. /\ read'.op = read.op /\ read'.step = read.step /\ read'.scope = read.scope
        /\ read'.page = read.page /\ read'.after = i /\ read'.marks = read.marks
        /\ read'.claimed = read.claimed /\ read'.todo = t /\ read'.deps = D
        /\ read'.found = f /\ read'.blk = read.blk /\ read'.cache = read.cache
    BY <1>8, <1>1 DEF RInv, Control, Reads
  <2>3. Vetting'
    <3>1. UNCHANGED kind /\ \A k : Needs(k)' = Needs(k)
      BY <1>8, <2>2, <1>1, Same DEF world
    <3>2. kind = "gitea" => \A k \in Issues : f[k] = "todo" => Vetted(k)'
      BY <1>8, <2>2, <1>1, <3>1, Same DEF Vetted
    <3>3. \A d \in Issues : read.cache[d] \in Terminal \cup {"gone"} => Clear(d)'
      BY <1>1, Same
    <3> QED
      BY <1>8, <2>2, <1>1, <3>1, <3>2, <3>3 DEF Vetting, Early, Todo, Step
  <2> USE <1>8, <2>1, <2>2, <1>1
  <2>4. World'
    BY DEF RInv, World, world
  <2>5. Control'
    BY DEF RInv, Control, Step, Listing, Refreshing, world
  <2>6. ByCursor'
    BY Same DEF RInv, ByCursor, Listed, Listing, Step, world
  <2>7. ByLabel'
    BY Same DEF RInv, ByLabel, Listed, Listing, Step, world
  <2>8. Absence'
    BY <1>4 DEF RInv, Absence, world
  <2> QED
    BY <2>3, <2>4, <2>5, <2>6, <2>7, <2>8 DEF RInv
<1>9. ASSUME kind = "gitea", UNCHANGED numbers, read' = [read EXCEPT !.step = "ok"]
      PROVE  RInv'
  <2>1. read' \in Reads
    BY <1>9, <1>1 DEF RInv, Control, Reads
  <2>2. /\ read'.op = read.op /\ read'.step = "ok" /\ read'.scope = read.scope
        /\ read'.page = read.page /\ read'.after = read.after /\ read'.marks = read.marks
        /\ read'.claimed = read.claimed /\ read'.todo = read.todo /\ read'.deps = read.deps
        /\ read'.found = read.found /\ read'.blk = read.blk /\ read'.cache = read.cache
    BY <1>9, <1>1 DEF RInv, Control, Reads
  <2>3. Vetting'
    <3>1. \A k : Needs(k)' = Needs(k)
      BY <2>2, <1>1, Same
    <3>2. \A k \in Issues : read.found[k] = "todo" => Vetted(k)'
      BY <1>9, <2>2, <1>1, <3>1, Same DEF Vetted
    <3>3. \A d \in Issues : read.cache[d] \in Terminal \cup {"gone"} => Clear(d)'
      BY <1>1, Same
    <3> QED
      BY <2>2, <1>1, <3>2, <3>3 DEF Vetting, Todo, Step
  <2> USE <1>9, <2>1, <2>2, <1>1
  <2>4. World'
    BY DEF RInv, World, world
  <2>5. Control'
    BY DEF RInv, Control, Step, Listing, Refreshing, world
  <2>6. ByCursor'
    BY Same DEF RInv, ByCursor, Listed, Listing, Step, world
  <2>7. ByLabel'
    BY Same DEF RInv, ByLabel, Listed, Listing, Step, world
  <2>8. Absence'
    BY DEF RInv, Absence, world
  <2> QED
    BY <2>3, <2>4, <2>5, <2>6, <2>7, <2>8 DEF RInv
<1> DEFINE look == kind = "gitea" /\ c = "todo"
           f == [read.found EXCEPT ![i] = c]
<1>10. \/ /\ read' = [read EXCEPT !.after = i, !.found[i] = c,
                             !.blk[i] = IF look THEN "clear" ELSE @,
                             !.step = IF look THEN "lookup" ELSE @,
                             !.todo = IF look THEN {i} ELSE {},
                             !.deps = IF look THEN Body[i] ELSE {}]
          /\ numbers' \subseteq Issues \ foreign
       \/ read' = [read EXCEPT !.after = i] /\ UNCHANGED numbers
       \/ read' = (IF kind = "gitea" THEN Go("ok") ELSE NoBlockers) /\ UNCHANGED numbers
  BY <1>2, <1>3, <1>6 DEF FetchOne
<1>11. CASE /\ read' = [read EXCEPT !.after = i, !.found[i] = c,
                             !.blk[i] = IF look THEN "clear" ELSE @,
                             !.step = IF look THEN "lookup" ELSE @,
                             !.todo = IF look THEN {i} ELSE {},
                             !.deps = IF look THEN Body[i] ELSE {}]
            /\ numbers' \subseteq Issues \ foreign
  <2>1. CASE look
    BY <1>7, <1>11, <2>1
  <2>2. CASE ~ look
    <3>1. /\ f \in [Issues -> Told] /\ f[i] = c /\ \A k \in Issues : k # i => f[k] = read.found[k]
          /\ [read.blk EXCEPT ![i] = read.blk[i]] = read.blk
      BY <1>1, <1>4
    <3>2. read' = [read EXCEPT !.after = i, !.found = f, !.todo = {}, !.deps = {}]
      <4>1. read' = [read EXCEPT !.after = i, !.found = f, !.blk = read.blk, !.step = read.step, !.todo = {}, !.deps = {}]
        BY <1>11, <2>2, <3>1
      <4> HIDE DEF f
      <4> QED
        BY <1>1, <4>1 DEF Reads
    <3>3. PICK g \in [Issues -> Told], t \in SUBSET Issues : g = f /\ t = {}
      BY <3>1
    <3>4. read' = [read EXCEPT !.after = i, !.found = g, !.todo = t, !.deps = t]
      BY <3>2, <3>3
    <3>5. /\ kind = "gitea" /\ g[i] = c => c # "todo" \/ g[i] = read.found[i]
          /\ g[i] \in {c, read.found[i]} /\ \A k \in Issues : k # i => g[k] = read.found[k]
      BY <2>2, <3>1, <3>3
    <3>6. numbers' \subseteq Issues \ foreign
      BY <1>11
    <3> QED
      BY <1>8, <3>4, <3>5, <3>6, Zenon
  <2> QED
    BY <2>1, <2>2
<1>12. CASE read' = [read EXCEPT !.after = i] /\ UNCHANGED numbers
  <2>1. read.todo \in SUBSET Issues /\ read.deps \in SUBSET Issues /\ numbers \subseteq Issues \ foreign
    BY <1>1 DEF Reads, RInv, World
  <2>2. read' = [read EXCEPT !.after = i, !.found = read.found, !.todo = read.todo, !.deps = read.deps]
    BY <1>1, <1>12 DEF Reads
  <2>3. /\ kind = "gitea" /\ read.found[i] = c => c # "todo" \/ read.found[i] = read.found[i]
        /\ read.found[i] \in {c, read.found[i]} /\ \A k \in Issues : k # i => read.found[k] = read.found[k]
        /\ numbers' \subseteq Issues \ foreign
    BY <1>12, <2>1
  <2> QED
    BY <1>1, <1>8, <2>1, <2>2, <2>3, Zenon
<1>13. CASE read' = (IF kind = "gitea" THEN Go("ok") ELSE NoBlockers) /\ UNCHANGED numbers
  <2>1. CASE kind = "gitea"
    BY <1>9, <1>13, <2>1 DEF Go
  <2>2. CASE kind # "gitea"
    BY <1>1, <1>13, <2>2, NoBlockersKeeps DEF Refreshing, Listing
  <2> QED
    BY <2>1, <2>2
<1> QED
  BY <1>10, <1>11, <1>12, <1>13

LEMMA FetchKeeps == ASSUME RInv, Fetch PROVE RInv'
BY FetchChunkKeeps, FetchOneKeeps DEF Fetch

(* All of the claimed issues have been asked for.                           *)
LEMMA FetchedKeeps == ASSUME RInv, Fetched PROVE RInv'
<1>1. /\ UNCHANGED <<world, numbers>> /\ read.step = "fetch" /\ read.op = "refresh" /\ read \in Reads
      /\ kind \in {"linear", "gitea", "github"} /\ Todo(read.found) \subseteq Issues
      /\ \A e \in Issues : read.cache[e] \in Terminal \cup {"gone"} => Clear(e)
      /\ kind = "gitea" => \A k \in Issues : read.found[k] = "todo" => Vetted(k)
  BY Setting DEF Fetched, Step, RInv, Control, World, Refreshing, Vetting, Early, Todo
<1>2. ASSUME kind = "linear", NEW t \in SUBSET Issues, t = Todo(read.found),
             read' = [read EXCEPT !.step = "blockers", !.todo = t]
      PROVE  RInv'
  <2>1. read' \in Reads
    BY <1>2, <1>1 DEF RInv, Control, Reads
  <2>2. /\ read'.op = read.op /\ read'.step = "blockers" /\ read'.scope = read.scope
        /\ read'.page = read.page /\ read'.after = read.after /\ read'.marks = read.marks
        /\ read'.claimed = read.claimed /\ read'.todo = t /\ read'.deps = read.deps
        /\ read'.found = read.found /\ read'.blk = read.blk /\ read'.cache = read.cache
    BY <1>2, <1>1 DEF RInv, Control, Reads
  <2> USE <1>2, <2>1, <2>2, <1>1
  <2>3. World'
    BY DEF RInv, World, world
  <2>4. Control'
    BY DEF RInv, Control, Step, Listing, Refreshing, world
  <2>5. Vetting'
    BY Same DEF RInv, Vetting, Vetted, Early, Todo, Step, world
  <2>6. ByCursor'
    BY Same DEF RInv, ByCursor, Listed, Listing, Step, world
  <2>7. ByLabel'
    BY Same DEF RInv, ByLabel, Listed, Listing, Step, world
  <2>8. Absence'
    BY DEF RInv, Absence, world
  <2> QED
    BY <2>3, <2>4, <2>5, <2>6, <2>7, <2>8 DEF RInv
<1>3. ASSUME kind = "gitea", read' = [read EXCEPT !.step = "ok"]
      PROVE  RInv'
  <2>1. read' \in Reads
    BY <1>3, <1>1 DEF RInv, Control, Reads
  <2>2. /\ read'.op = read.op /\ read'.step = "ok" /\ read'.scope = read.scope
        /\ read'.page = read.page /\ read'.after = read.after /\ read'.marks = read.marks
        /\ read'.claimed = read.claimed /\ read'.todo = read.todo /\ read'.deps = read.deps
        /\ read'.found = read.found /\ read'.blk = read.blk /\ read'.cache = read.cache
    BY <1>3, <1>1 DEF RInv, Control, Reads
  <2> USE <1>3, <2>1, <2>2, <1>1
  <2>3. World'
    BY DEF RInv, World, world
  <2>4. Control'
    BY DEF RInv, Control, Step, Listing, Refreshing, world
  <2>5. Vetting'
    BY Same DEF RInv, Vetting, Vetted, Early, Todo, Step, world
  <2>6. ByCursor'
    BY Same DEF RInv, ByCursor, Listed, Listing, Step, world
  <2>7. ByLabel'
    BY Same DEF RInv, ByLabel, Listed, Listing, Step, world
  <2>8. Absence'
    BY DEF RInv, Absence, world
  <2> QED
    BY <2>3, <2>4, <2>5, <2>6, <2>7, <2>8 DEF RInv
<1>4. ASSUME kind = "github", read' = [read EXCEPT !.step = "native"]
      PROVE  RInv'
  <2>1. read' \in Reads
    BY <1>4, <1>1 DEF RInv, Control, Reads
  <2>2. /\ read'.op = read.op /\ read'.step = "native" /\ read'.scope = read.scope
        /\ read'.page = read.page /\ read'.after = read.after /\ read'.marks = read.marks
        /\ read'.claimed = read.claimed /\ read'.todo = read.todo /\ read'.deps = read.deps
        /\ read'.found = read.found /\ read'.blk = read.blk /\ read'.cache = read.cache
    BY <1>4, <1>1 DEF RInv, Control, Reads
  <2> USE <1>4, <2>1, <2>2, <1>1
  <2>3. World'
    BY DEF RInv, World, world
  <2>4. Control'
    BY DEF RInv, Control, Step, Listing, Refreshing, world
  <2>5. Vetting'
    BY Same DEF RInv, Vetting, Vetted, Early, Todo, Step, world
  <2>6. ByCursor'
    BY Same DEF RInv, ByCursor, Listed, Listing, Step, world
  <2>7. ByLabel'
    BY Same DEF RInv, ByLabel, Listed, Listing, Step, world
  <2>8. Absence'
    BY DEF RInv, Absence, world
  <2> QED
    BY <2>3, <2>4, <2>5, <2>6, <2>7, <2>8 DEF RInv
<1>5. CASE kind = "linear"
  <2>1. read' = [read EXCEPT !.step = "blockers", !.todo = Todo(read.found)]
    BY <1>5 DEF Fetched, Go
  <2> QED
    BY <1>1, <1>2, <1>5, <2>1
<1>6. CASE kind = "gitea"
  BY <1>3, <1>6 DEF Fetched, Go
<1>7. CASE kind = "github"
  BY <1>4, <1>7 DEF Fetched, Go
<1> QED
  BY <1>1, <1>5, <1>6, <1>7

(* What holds before a read.                                               *)
LEMMA BlankKeeps ==
  ASSUME read = Blank, World
  PROVE  RInv
<1>1. Control
  BY BlankIs, Zenon DEF Control, Step, Listing, Refreshing
<1>2. Vetting
  BY BlankIs, Numbers DEF Vetting, Todo, Step
<1>3. ByCursor /\ ByLabel
  BY BlankIs DEF ByCursor, ByLabel, Listing
<1>4. Absence
  BY BlankIs DEF Absence
<1> QED
  BY <1>1, <1>2, <1>3, <1>4 DEF RInv

(* The next read.                                                          *)
LEMMA AgainKeeps == ASSUME RInv, Again PROVE RInv'
<1>1. read' = Blank /\ World'
  BY DEF Again, RInv, World
<1>2. Control'
  BY <1>1, BlankIs, Zenon DEF Control, Step, Listing, Refreshing
<1>3. Vetting'
  BY <1>1, BlankIs, Numbers DEF Vetting, Todo, Step
<1>4. ByCursor' /\ ByLabel'
  BY <1>1, BlankIs DEF ByCursor, ByLabel, Listing
<1>5. Absence'
  BY <1>1, BlankIs DEF Absence
<1> QED
  BY <1>1, <1>2, <1>3, <1>4, <1>5 DEF RInv

(* An issue changes during the read: what has been seen stays seen.        *)
LEMMA EditKeeps == ASSUME RInv, Edit PROVE RInv'
<1>1. UNCHANGED <<kind, foreign, numbers, pulls, read>> /\ edits' = edits + 1 /\ edits \in Nat
  BY DEF Edit, RInv, World
<1>2. World' /\ \A i \in Issues : was[i] \subseteq was'[i]
  BY Setting DEF Edit, RInv, World, Possible
<1>3. \A d \in Issues : Clear(d) => Clear(d)'
  BY <1>1, <1>2 DEF Clear
<1>4. /\ \A i \in Issues : Needs(i)' = Needs(i) /\ Needs(i) \subseteq Issues /\ Native[i] \subseteq Issues
      /\ read.todo \subseteq Issues
  BY <1>1, Numbers DEF Needs, Refreshing, RInv, Control, Reads
<1>5. \A i \in Issues : Vetted(i) => Vetted(i)'
  BY <1>1, <1>3, <1>4 DEF Vetted
<1>6. Control'
  BY <1>1 DEF RInv, Control, Step, Listing, Refreshing
<1>7. Vetting'
  BY <1>1, <1>3, <1>4, <1>5 DEF RInv, Vetting, Early, Todo, Step
<1>8. ByCursor' /\ ByLabel'
  <2>1. edits' # 0
    BY <1>1
  <2> QED
    BY <2>1, Zenon DEF ByCursor, ByLabel
<1>9. Absence'
  BY <1>1, <1>2 DEF RInv, Absence
<1> QED
  BY <1>2, <1>6, <1>7, <1>8, <1>9 DEF RInv

LEMMA StutterKeeps == ASSUME RInv, UNCHANGED vars PROVE RInv'
<1>1. UNCHANGED <<world, numbers, read>>
  BY DEF vars, world
<1>2. World' /\ Control' /\ Absence'
  BY <1>1 DEF RInv, World, Control, Absence, Step, Listing, Refreshing, world
<1>3. Vetting'
  BY <1>1, Same DEF RInv, Vetting, Vetted, Early, Todo, Step, world
<1>4. ByCursor'
  BY <1>1 DEF RInv, ByCursor, Listed, Listing, Step, world
<1>5. ByLabel'
  <2>1. Listed' = Listed /\ UNCHANGED <<kind, edits, pulls, read>>
    BY <1>1 DEF Listed, world
  <2>2. \A k, n : Match(k)' = Match(k) /\ Got(k, n)' = Got(k, n)
    BY <1>1, Same
  <2>3. All' = All
    BY <1>1, Same
  <2> QED
    BY <2>1, <2>2, <2>3 DEF RInv, ByLabel, Listing, Step
<1> QED
  BY <1>2, <1>3, <1>4, <1>5 DEF RInv

LEMMA InitKeeps == ASSUME Init PROVE RInv
<1>1. World
  <2>1. /\ kind \in Kinds /\ edits \in Nat /\ DOMAIN now = Issues /\ DOMAIN was = Issues
        /\ \A i \in Issues : now[i] \in Values[i] /\ now[i] \in was[i]
    BY DEF Init, Possible
  <2>2. /\ foreign \subseteq Issues /\ numbers \subseteq Issues \ foreign /\ pulls \subseteq Issues
        /\ kind = "linear" => foreign = {} /\ pulls = {}
        /\ kind = "gitea" => pulls = {}
    BY Setting DEF Init
  <2> QED
    BY <2>1, <2>2 DEF World
<1> QED
  BY <1>1, BlankKeeps DEF Init

(* The invariant holds throughout: of every state of every read.           *)
THEOREM ReadInvariant == Spec => []RInv
<1>1. Init => RInv
  BY InitKeeps
<1>2. RInv /\ [Next]_vars => RInv'
  <2> SUFFICES ASSUME RInv, [Next]_vars PROVE RInv'
    OBVIOUS
  <2> QED
    BY EditKeeps, StartKeeps, ReadClaimsKeeps, ListPageKeeps, NextPageKeeps, LinearBlockersKeeps,
       GitHubNativeKeeps, BodyLookupKeeps, LookedUpKeeps, FetchKeeps, FetchedKeeps, AgainKeeps,
       StutterKeeps DEF Next
<1> QED
  BY <1>1, <1>2, PTL DEF Spec

(* No refresh calls an issue absent because a request failed, or because a *)
(* number was looked up in another repository: every answer of Linear's    *)
(* chunks, Gitea's and GitHub's single requests included.                  *)
THEOREM AbsentIsSeen == Spec => []AbsentHasEvidence
<1>1. RInv => AbsentHasEvidence
  BY DEF RInv, Absence, AbsentHasEvidence
<1> QED
  BY <1>1, ReadInvariant, PTL

(* No failed, cut off or skipped lookup of a blocker lets a Todo issue     *)
(* pass for unblocked, in whichever order the requests fail.               *)
THEOREM UnblockedIsSeen == Spec => []UnblockedHasEvidence
<1>1. RInv => UnblockedHasEvidence
  BY DEF RInv, Vetting, Early, Step, Vetted, Needs, Clear, UnblockedHasEvidence
<1> QED
  BY <1>1, ReadInvariant, PTL

(* A listing of a tracker that did not change has every issue in a wanted  *)
(* state and no other, whatever the page size, the page limit and the      *)
(* number of labels.                                                       *)
THEOREM ListingIsExact == Spec => []QuietListingIsExact
<1>1. RInv => QuietListingIsExact
  <2> SUFFICES ASSUME RInv, Listing, Step("ok"), edits = 0
               PROVE  Listed = {i \in Issues \ (foreign \cup pulls) : now[i] \in Range(Wanted)}
    BY DEF QuietListingIsExact
  <2>1. CASE kind = "linear"
    <3>1. foreign = {} /\ pulls = {}
      BY <2>1 DEF RInv, World
    <3>2. /\ Listed = {i \in Issues : now[i] \in Range(Wanted) /\ i <= read.after}
          /\ \A i \in Issues : now[i] \in Range(Wanted) => i <= read.after
      BY <2>1 DEF RInv, ByCursor, Step
    <3> QED
      BY <3>1, <3>2
  <2>2. CASE kind # "linear"
    BY <2>2 DEF RInv, ByLabel, All, Step
  <2> QED
    BY <2>1, <2>2
<1> QED
  BY <1>1, ReadInvariant, PTL
====
