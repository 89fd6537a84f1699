---------------------------- MODULE ReportProofs ----------------------------
(***************************************************************************)
(* Proofs about one call of a network adapter, for every window, slice and *)
(* page size, every set of rows and every profile a call may have: which   *)
(* rows are counted twice, that a call without a limit misses none, and    *)
(* that a limit hides none.                                                *)
(*                                                                         *)
(* The argument places each row by the slices: those before the cursor are *)
(* behind the walk, those at it lie on a seam, and of those in the slice   *)
(* the pages fetched so far are the first ones.                            *)
(***************************************************************************)
EXTENDS Report, FiniteSetTheorems, TLAPS

\* The place of n in a set of numbers, and of row r in the upstream's answer.
Rank(S, n) == Cardinality({s \in S : s < n})
Position(r) == Rank(Listed, r)

\* Row r lies before tick c, or at it, as the upstream compares times.
Before(r, c) ==
    \/ profile.grain = "instant" /\ Reading(r) < c
    \/ profile.grain = "day" /\ Calendar(Reading(r)) < Calendar(c)
At(r, c) ==
    \/ profile.grain = "instant" /\ Reading(r) = c
    \/ profile.grain = "day" /\ Calendar(Reading(r)) = Calendar(c)

\* Row r is on the pages of the slice fetched so far.
OnPages(r) == r \in Listed /\ Position(r) < page * PageLength

\* How the cursor and the page count move.
Walked ==
    /\ profile.walk = "whole" => cursor = query.from
    /\ profile.walk = "sliced" =>
        \/ cursor = query.from
        \/ /\ query.from < cursor /\ cursor < query.to
           /\ (cursor - query.from) % Step = 0
    /\ profile.pages \in {"one", "first"} => page = 0
    /\ pc = "failed" => got = NoCopies

\* How often the slices before the one that starts at c may have counted row r.
Earlier(r, c) ==
    IF Before(r, c) THEN (IF profile.walk = "sliced" /\ OnSeam(r) THEN 2 ELSE 1)
    ELSE IF At(r, c) /\ profile.walk = "sliced" /\ c > query.from THEN 1 ELSE 0

\* And that one.
Now(r) == IF (IF pc = "walking" THEN OnPages(r) ELSE InSlice(r)) THEN 1 ELSE 0

Counted ==
    pc # "failed" => \A r \in Rows : Steady(r) => got[r] <= Earlier(r, cursor) + Now(r)

\* A row that an unlimited call must return.
Due(r) == Unlimited /\ Followed /\ Wanted(r) /\ Steady(r) /\ Reached(r)

NothingMissed ==
    \A r \in Rows : Due(r) =>
        /\ pc = "walking" /\ (Before(r, cursor) \/ OnPages(r)) => got[r] > 0
        /\ pc = "done" => got[r] > 0

\* A call whose limit must hide no row.
Held ==
    /\ query.limit > 0 /\ "summary" \notin profile.flags
    /\ Followed /\ changed = {}
    /\ StopsOnRawRows => (StatusSent \/ query.status = {}) /\ Rows \subseteq query.picks

\* It has its rows, or has missed none so far.
LimitMet ==
    Held =>
        \/ Copies(got) >= query.limit
        \/ \A r \in Rows : Wanted(r) /\ Reached(r) =>
            /\ pc = "walking" /\ (Before(r, cursor) \/ OnPages(r)) => got[r] > 0
            /\ pc = "done" => got[r] > 0

\* A fetch that counts the rows as they come back has kept them all.
RawKept == Held /\ "stops" \in profile.stops => raw <= Copies(got)

\* An adapter that drops what comes back again has no row twice.
DistinctOnce == "distinct" \in profile.flags => \A r \in Rows : got[r] <= 1

IndInv ==
    /\ TypeOK /\ Walked /\ Counted /\ NothingMissed /\ TwiceOnlyOnSeams /\ UnlimitedIsComplete
    /\ LimitMet /\ RawKept /\ DistinctOnce

-----------------------------------------------------------------------------
\* A set of naturals that is not empty has a least member.
LEMMA LeastElement ==
    ASSUME NEW S \in SUBSET Nat, S # {}
    PROVE \E n \in S : \A m \in S : n <= m
<1> DEFINE R == {ss \in Nat \X Nat : ss[1] < ss[2]}
<1>0. IsWellFoundedOn(R, Nat)
  BY NatLessThanWellFounded, Zenon DEF OpToRel
<1> HIDE DEF R
<1>1. PICK x \in S : \A y \in S : ~ (<<y, x>> \in R)
  BY <1>0, WFMin
<1>2. ASSUME NEW y \in S PROVE x <= y
  <2>1. x \in Nat /\ y \in Nat OBVIOUS
  <2>2. ~(y < x) BY <1>1, <2>1 DEF R
  <2> QED BY <2>1, <2>2
<1> QED BY <1>1, <1>2

\* One that is bounded has a greatest.
LEMMA GreatestElement ==
    ASSUME NEW S \in SUBSET Nat, S # {}, NEW bound \in Nat, \A s \in S : s < bound
    PROVE  \E n \in S : \A m \in S : m <= n
<1> DEFINE U == {u \in Nat : \A s \in S : s <= u}
<1>1. bound \in U
  BY SMT
<1>2. PICK u \in U : \A v \in U : u <= v
  <2>1. U \in SUBSET Nat /\ U # {}
    BY <1>1
  <2> HIDE DEF U
  <2> QED BY <2>1, LeastElement
<1>3. u \in S
  <2> SUFFICES ASSUME u \notin S PROVE FALSE
    OBVIOUS
  <2>1. \A s \in S : s \in Nat /\ s < u
    OBVIOUS
  <2>2. u # 0
    <3>1. PICK s \in S : TRUE
      OBVIOUS
    <3> QED BY <2>1, <3>1
  <2>3. u - 1 \in U
    BY <2>1, <2>2
  <2>4. u \in Nat
    OBVIOUS
  <2> QED BY <1>2, <2>3, <2>4
<1> QED BY <1>3

\* A member has fewer members before it than there are.
LEMMA RankBound ==
    ASSUME NEW S \in SUBSET Nat, IsFiniteSet(S), NEW n
    PROVE  /\ Rank(S, n) \in Nat
           /\ Rank(S, n) <= Cardinality(S)
           /\ n \in S => Rank(S, n) < Cardinality(S)
<1> DEFINE T == {s \in S : s < n}
<1>1. IsFiniteSet(T) /\ Cardinality(T) <= Cardinality(S) /\ (Cardinality(S) = Cardinality(T) => S = T)
  BY FS_Subset
<1>2. Cardinality(S) \in Nat /\ Cardinality(T) \in Nat
  BY <1>1, FS_CardinalityType
<1>3. n \in S => S # T
  OBVIOUS
<1> QED BY <1>1, <1>2, <1>3 DEF Rank

\* The places up to that of any member are all taken.
LEMMA RankOnto ==
    ASSUME NEW S \in SUBSET Nat, IsFiniteSet(S), NEW r \in S, NEW n \in Nat, n <= Rank(S, r)
    PROVE  \E s \in S : Rank(S, s) = n
<1> DEFINE High == {s \in S : n <= Rank(S, s)}
<1>1. PICK s \in High : \A t \in High : s <= t
  <2>1. High \in SUBSET Nat /\ High # {}
    OBVIOUS
  <2> HIDE DEF High
  <2> QED BY <2>1, LeastElement
<1> DEFINE Below == {t \in S : t < s}
<1>2. s \in Nat /\ s \in S /\ n <= Rank(S, s) /\ Rank(S, s) \in Nat
  BY RankBound
<1>3. IsFiniteSet(Below) /\ Cardinality(Below) = Rank(S, s)
  BY FS_Subset DEF Rank
<1>4. SUFFICES ASSUME n < Rank(S, s) PROVE FALSE
  BY <1>2
<1>5. Below # {}
  BY <1>2, <1>3, <1>4, FS_EmptySet
<1>6. PICK m \in Below : \A t \in Below : t <= m
  <2>1. Below \in SUBSET Nat /\ \A t \in Below : t < s
    OBVIOUS
  <2> HIDE DEF Below
  <2> QED BY <1>2, <1>5, <2>1, GreatestElement
<1>7. {t \in S : t < m} = Below \ {m}
  <2>1. m \in Nat /\ m < s /\ m \in S
    OBVIOUS
  <2>2. ASSUME NEW t \in S PROVE t < m <=> t \in Below /\ t # m
    <3>1. t \in Nat
      OBVIOUS
    <3> QED BY <1>2, <1>6, <2>1, <3>1
  <2> QED BY <2>2
<1>8. Rank(S, m) = Rank(S, s) - 1
  BY <1>3, <1>7, FS_RemoveElement DEF Rank
<1>9. m \in High /\ m < s
  BY <1>2, <1>4, <1>8
<1> QED BY <1>1, <1>2, <1>9

\* The places from a on, and below b, hold b - a members, unless the members end.
LEMMA RankWindow ==
    ASSUME NEW S \in SUBSET Nat, IsFiniteSet(S), NEW a \in Nat, NEW b \in Nat, a <= b,
           NEW r \in S, b <= Rank(S, r)
    PROVE  b - a <= Cardinality({s \in S : a <= Rank(S, s) /\ Rank(S, s) < b})
<1> DEFINE W == {s \in S : a <= Rank(S, s) /\ Rank(S, s) < b}
           f == [s \in W |-> Rank(S, s)]
           I == a .. b - 1
<1>1. \A s \in S : Rank(S, s) \in Nat
  BY RankBound
<1>2. f \in [W -> I]
  <2>1. ASSUME NEW s \in W PROVE Rank(S, s) \in I
    <3>1. Rank(S, s) \in Nat /\ a <= Rank(S, s) /\ Rank(S, s) < b
      BY <1>1
    <3> QED BY <3>1
  <2> QED BY <2>1
<1>3. ASSUME NEW n \in I PROVE \E s \in W : f[s] = n
  <2>1. n \in Nat /\ n <= Rank(S, r)
    BY <1>1
  <2>2. PICK s \in S : Rank(S, s) = n
    BY <2>1, RankOnto
  <2> QED BY <2>2
<1>4. f \in Surjection(W, I)
  BY <1>2, <1>3 DEF Surjection
<1>5. IsFiniteSet(W)
  BY FS_Subset
<1>6. Cardinality(I) <= Cardinality(W)
  BY <1>4, <1>5, FS_Surjection
<1>7. Cardinality(I) = b - a
  <2>1. a \in Int /\ b - 1 \in Int
    OBVIOUS
  <2>2. Cardinality(a .. (b - 1)) = IF a > b - 1 THEN 0 ELSE (b - 1) - a + 1
    BY <2>1, FS_Interval
  <2> QED BY <2>2
<1> QED BY <1>6, <1>7

-----------------------------------------------------------------------------
\* What a profile and a query may be.
LEMMA CallTypes ==
    ASSUME [profile |-> profile, query |-> query] \in Calls
    PROVE  /\ query.from \in Nat /\ query.to \in Nat /\ query.limit \in Nat
           /\ query.status \subseteq Both
           /\ profile.walk \in {"whole", "sliced", "skipping", "daily"}
           /\ profile.grain \in {"day", "instant", "none"}
           /\ profile.pages \in {"one", "first", "short", "empty", "total"}
           /\ profile.grain = "none" => profile.walk = "whole"
           /\ profile.walk \in {"skipping", "daily"} => profile.grain = "day"
           /\ StopsOnRawRows => "client" \notin profile.flags /\ "distinct" \notin profile.flags
<1> DEFINE call == [profile |-> profile, query |-> query]
<1>1. call.profile = profile /\ call.query = query /\ call \in Calls
  OBVIOUS
<1> HIDE DEF call
<1>2. /\ query.from \in Nat /\ query.to \in Nat /\ query.limit \in Nat
      /\ query.status \subseteq Both
      /\ profile.walk \in {"whole", "sliced", "skipping", "daily"}
      /\ profile.grain \in {"day", "instant", "none"}
      /\ profile.pages \in {"one", "first", "short", "empty", "total"}
  BY <1>1, CallsAssumption
<1>3. /\ profile.grain = "none" => profile.walk = "whole"
      /\ profile.walk \in {"skipping", "daily"} => profile.grain = "day"
      /\ StopsOnRawRows => {"client", "distinct"} \cap profile.flags = {}
  BY <1>1, CallsAssumption DEF StopsOnRawRows
<1> QED BY <1>2, <1>3

\* The sizes of days, slices and pages.
LEMMA Sizes == /\ Day \in Nat \ {0} /\ Step \in Nat \ {0} /\ PageSize \in Nat \ {0}
               /\ MaxPages \in Nat \ {0} /\ Step % Day = 0
BY SizesAssumption

\* The upstream's answer to a slice is a finite set of rows.
LEMMA ListedRows ==
    /\ Listed \in SUBSET Nat /\ IsFiniteSet(Listed) /\ Listed \subseteq Rows
    /\ Cardinality(Listed) <= Cardinality(Rows)
    /\ Cardinality(Listed) \in Nat /\ Cardinality(Rows) \in Nat
<1>1. Listed \in SUBSET Rows
  BY DEF Listed
<1> QED BY <1>1, RowsAssumption, FS_Subset, FS_CardinalityType

\* A page is the part of it between two places.
LEMMA FetchedRows ==
    /\ Fetched = {r \in Listed : /\ page * PageLength <= Position(r)
                                /\ Position(r) < (page + 1) * PageLength}
    /\ Fetched \subseteq Listed
    /\ IsFiniteSet(Fetched) /\ Cardinality(Fetched) \in Nat
<1>1. Fetched = {r \in Listed : /\ page * PageLength <= Position(r)
                               /\ Position(r) < (page + 1) * PageLength}
  BY DEF Fetched, Position, Rank
<1>2. Fetched \in SUBSET Listed
  BY <1>1
<1> QED BY <1>1, <1>2, ListedRows, FS_Subset, FS_CardinalityType

\* A page has a length, and the one page of a slice is shortened by a limit only.
LEMMA PageLengthType ==
    ASSUME TypeOK
    PROVE  /\ PageLength \in Nat
           /\ Limit \in Nat
           /\ profile.pages # "one" => PageLength > 0
           /\ profile.pages = "one" =>
                \/ PageLength = Cardinality(Rows)
                \/ Limit > 0 /\ "sized" \in profile.stops /\ PageLength = Limit
<1>1. Limit \in Nat
  BY CallTypes DEF TypeOK, Limit
<1>2. PageSize \in Nat /\ Cardinality(Rows) \in Nat
  BY Sizes, ListedRows
<1> DEFINE most == IF profile.pages = "one" THEN Cardinality(Rows) ELSE PageSize
<1>3. most \in Nat /\ (profile.pages # "one" => most > 0)
  BY <1>2, Sizes
<1>4. CASE "sized" \in profile.stops /\ Limit > 0
  <2>1. PageLength = Smaller(Limit, most)
    BY <1>4 DEF PageLength
  <2>2. PageLength = Limit \/ PageLength = most
    BY <2>1 DEF Smaller
  <2> QED BY <1>1, <1>3, <1>4, <2>2
<1>5. CASE ~("sized" \in profile.stops /\ Limit > 0)
  <2>1. PageLength = most
    BY <1>5 DEF PageLength
  <2> QED BY <1>1, <1>3, <2>1
<1> QED BY <1>4, <1>5

\* Every row has a place.
LEMMA PositionType ==
    ASSUME NEW r
    PROVE  Position(r) \in Nat /\ (r \in Listed => Position(r) < Cardinality(Listed))
BY ListedRows, RankBound DEF Position

\* Calendar days follow the ticks, and a slice is at least a day long.
LEMMA Days ==
    ASSUME NEW a \in Nat, NEW b \in Nat
    PROVE  /\ Calendar(a) \in Nat
           /\ a <= b => Calendar(a) <= Calendar(b)
           /\ Calendar(a + Day) = Calendar(a) + 1
           /\ Calendar(a + Step) > Calendar(a)
           /\ Calendar(Day * Calendar(a)) = Calendar(a)
<1>1. Calendar(a) \in Nat /\ (a <= b => Calendar(a) <= Calendar(b))
  BY Sizes DEF Calendar
<1>2. Calendar(a + Day) = Calendar(a) + 1
  BY Sizes DEF Calendar
<1>3. Step >= Day
  BY Sizes
<1>4. (a + Day) \div Day <= (a + Step) \div Day
  BY <1>3, Sizes
<1>5. Calendar(a + Step) > Calendar(a)
  <2>1. Calendar(a + Step) \in Nat
    BY Sizes DEF Calendar
  <2> QED BY <1>1, <1>2, <1>4, <2>1 DEF Calendar
<1>6. Calendar(Day * Calendar(a)) = Calendar(a)
  <2>1. \A k \in Nat : (Day * k) \div Day = k
    BY Sizes
  <2> QED BY <1>1, <2>1 DEF Calendar
<1> QED BY <1>1, <1>2, <1>5, <1>6

\* Slices end, and start again, at ticks.
LEMMA SliceEndType ==
    ASSUME TypeOK
    PROVE  SliceEnd \in Nat /\ NextCursor \in Nat
<1>1. query.from \in Nat /\ query.to \in Nat /\ cursor \in Nat
  BY CallTypes DEF TypeOK
<1>2. SliceEnd \in Nat
  BY <1>1, Sizes DEF SliceEnd, Smaller
<1> QED BY <1>1, <1>2, Sizes DEF NextCursor

\* A request adds at most one copy of a row, and only of a row it fetched.
LEMMA KeptCopies ==
    ASSUME TypeOK, NEW r \in Rows
    PROVE  /\ Kept \in [Rows -> Nat]
           /\ Kept[r] \in Nat
           /\ r \notin Fetched => Kept[r] = got[r]
           /\ Kept[r] <= got[r] + 1
           /\ got[r] > 0 => Kept[r] > 0
           /\ r \in Fetched /\ Passes(r) => Kept[r] > 0
<1>1. got \in [Rows -> Nat]
  BY DEF TypeOK
<1>2. \A s \in Rows : Kept[s] = IF s \notin Fetched \/ ~Passes(s) THEN got[s]
                               ELSE IF "distinct" \in profile.flags THEN 1 ELSE got[s] + 1
  BY DEF Kept
<1>3. \A s \in Rows : Kept[s] \in Nat
  BY <1>1, <1>2
<1>4. Kept \in [Rows -> Nat]
  BY <1>3 DEF Kept
<1>5. got[r] \in Nat
  BY <1>1
<1> QED BY <1>2, <1>4, <1>5

\* A call starts with values of their types.
LEMMA InitTypes == Init => TypeOK
<1> SUFFICES ASSUME Init PROVE TypeOK
  OBVIOUS
<1>1. [profile |-> profile, query |-> query] \in Calls
  <2>1. PICK call \in Calls : profile = call.profile /\ query = call.query
    BY DEF Init
  <2>2. call = [profile |-> call.profile, query |-> call.query]
    BY CallsAssumption
  <2> QED BY <2>1, <2>2
<1>2. query.from \in Nat
  BY <1>1, CallTypes
<1>3. when \in [Rows -> Nat]
  BY <1>2, InstantsAssumption DEF Init
<1>4. cursor \in Nat /\ 0 < MaxPages
  <2>1. Calendar(query.from) \in Nat
    BY <1>2, Days
  <2> QED BY <1>2, <2>1, Sizes DEF Init
<1>5. got \in [Rows -> Nat]
  BY DEF Init, NoCopies
<1> QED BY <1>1, <1>3, <1>4, <1>5 DEF Init, TypeOK

\* Every step keeps the types.
LEMMA TypeStep == TypeOK /\ [Next]_vars => TypeOK'
<1> SUFFICES ASSUME TypeOK, [Next]_vars PROVE TypeOK'
  OBVIOUS
<1>0. UNCHANGED profile => UNCHANGED Statuses
  BY DEF Statuses
<1>1. CASE Request
  <2>1. UNCHANGED <<profile, query, when, upstream, changed>>
    BY <1>1 DEF Request
  <2>2. got' \in [Rows -> Nat]
    <3>1. got \in [Rows -> Nat]
      BY DEF TypeOK
    <3>2. Kept \in [Rows -> Nat]
      <4>1. \A s \in Rows : Kept[s] \in Nat
        BY KeptCopies
      <4> QED BY <4>1 DEF Kept
    <3> QED BY <1>1, <3>2 DEF Request
  <2>3. raw' \in Nat
    BY <1>1, FetchedRows DEF Request, TypeOK
  <2>4. cursor' \in Nat /\ pc' \in {"walking", "done", "failed"} /\ capped' \in BOOLEAN
    BY <1>1, SliceEndType DEF Request, NextPage, NextSlice, TypeOK
  <2>5. page' \in Nat /\ ("uncapped" \in profile.stops \/ page' < MaxPages)
    <3>1. CASE NextPage
      BY <3>1, Sizes DEF NextPage, AtCap, TypeOK
    <3>2. CASE NextSlice
      BY <3>2, Sizes DEF NextSlice
    <3> QED BY <1>1, <3>1, <3>2 DEF Request
  <2> QED BY <1>0, <2>1, <2>2, <2>3, <2>4, <2>5 DEF TypeOK
<1>2. CASE Fail
  <2>1. NoCopies \in [Rows -> Nat]
    BY DEF NoCopies
  <2> QED BY <1>0, <1>2, <2>1 DEF Fail, TypeOK
<1>3. ASSUME NEW r \in Rows, NEW status \in Statuses, Change(r, status)
      PROVE  TypeOK'
  BY <1>0, <1>3 DEF Change, TypeOK
<1>4. CASE UNCHANGED vars
  BY <1>0, <1>4 DEF vars, TypeOK
<1> QED BY <1>1, <1>2, <1>3, <1>4 DEF Next

\* A walk starts at the start of the window.
LEMMA InitWalked == Init => Walked
<1> SUFFICES ASSUME Init PROVE Walked
  OBVIOUS
<1>1. TypeOK
  BY InitTypes
<1> QED BY <1>1, CallTypes DEF Init, Walked, TypeOK

\* Each walk that goes on starts its next slice where this says.
LEMMA NextStart ==
    ASSUME TypeOK, Walked, ~LastSlice
    PROVE  /\ profile.walk # "whole"
           /\ profile.walk = "daily" => NextCursor = cursor + Day /\ SliceEnd = cursor
                                        /\ Calendar(cursor) < Calendar(query.to)
           /\ profile.walk = "skipping" => /\ NextCursor = SliceEnd + Day
                                           /\ cursor <= SliceEnd
           /\ profile.walk = "sliced" => /\ NextCursor = SliceEnd /\ SliceEnd = cursor + Step
                                         /\ SliceEnd < query.to /\ query.from < query.to
<1>1. /\ query.from \in Nat /\ query.to \in Nat /\ cursor \in Nat
      /\ profile.walk \in {"whole", "sliced", "skipping", "daily"}
      /\ SliceEnd \in Nat /\ NextCursor \in Nat
  BY CallTypes, SliceEndType DEF TypeOK
<1>2. CASE profile.walk = "whole"
  BY <1>1, <1>2 DEF LastSlice, NextCursor, SliceEnd
<1>3. CASE profile.walk = "daily"
  <2>1. Calendar(cursor) \in Nat /\ Calendar(query.to) \in Nat
    BY <1>1, Days
  <2>2. ~(Calendar(cursor) >= Calendar(query.to))
    BY <1>3 DEF LastSlice
  <2>3. Calendar(cursor) < Calendar(query.to)
    BY <2>1, <2>2
  <2>4. NextCursor = cursor + Day
    BY <1>3 DEF NextCursor
  <2>5. SliceEnd = cursor
    BY <1>3 DEF SliceEnd
  <2> QED BY <1>3, <2>3, <2>4, <2>5
<1>4. CASE profile.walk = "skipping"
  BY <1>1, <1>4, Sizes DEF LastSlice, NextCursor, SliceEnd, Smaller
<1>5. CASE profile.walk = "sliced"
  BY <1>1, <1>5, Sizes DEF LastSlice, NextCursor, SliceEnd, Smaller
<1> QED BY <1>1, <1>2, <1>3, <1>4, <1>5

-----------------------------------------------------------------------------
\* The upstream may read a row later than it was, and never earlier.
LEMMA Readings ==
    ASSUME TypeOK, NEW r \in Rows
    PROVE  Reading(r) \in Nat /\ when[r] \in Nat /\ when[r] <= Reading(r)
BY SizesAssumption DEF TypeOK, Reading

\* Where the rows of a slice lie.
LEMMA SlicePlace ==
    ASSUME TypeOK, Walked, NEW r \in Rows
    PROVE  /\ Before(r, cursor) => ~InSlice(r)
           /\ At(r, cursor) /\ profile.walk = "sliced" /\ cursor > query.from => OnSeam(r)
           /\ At(r, cursor) /\ profile.walk = "sliced" /\ ~LastSlice => InSlice(r)
<1>1. /\ query.from \in Nat /\ query.to \in Nat /\ cursor \in Nat /\ Reading(r) \in Nat
      /\ profile.grain \in {"day", "instant", "none"}
  BY CallTypes, Readings DEF TypeOK
<1>2. /\ Calendar(Reading(r)) \in Nat /\ Calendar(cursor) \in Nat
      /\ SliceEnd \in Nat /\ Calendar(SliceEnd) \in Nat
      /\ (cursor <= SliceEnd => Calendar(cursor) <= Calendar(SliceEnd))
  BY <1>1, Days, SliceEndType
<1>3. Before(r, cursor) => ~InSlice(r)
  BY <1>1, <1>2 DEF Before, InSlice
<1>4. ASSUME At(r, cursor), profile.walk = "sliced", cursor > query.from
      PROVE  OnSeam(r)
  <2>1. /\ cursor > query.from /\ cursor < query.to
        /\ (cursor - query.from) % Step = 0
        /\ cursor \in query.from .. query.to
    BY <1>1, <1>4 DEF Walked
  <2>2. IF profile.grain = "day" THEN Calendar(Reading(r)) = Calendar(cursor) ELSE Reading(r) = cursor
    BY <1>4 DEF At
  <2> QED BY <2>1, <2>2 DEF OnSeam
<1>5. ASSUME At(r, cursor), profile.walk = "sliced", ~LastSlice
      PROVE  InSlice(r)
  <2>1. cursor <= SliceEnd
    BY <1>1, <1>5, NextStart, Sizes
  <2> QED BY <1>1, <1>2, <1>5, <2>1 DEF At, InSlice
<1> QED BY <1>3, <1>4, <1>5

\* Where the rows lie when the walk goes on to the next slice.
LEMMA NextPlace ==
    ASSUME TypeOK, Walked, ~LastSlice, NEW r \in Rows
    PROVE  /\ Before(r, cursor) => Before(r, NextCursor)
           /\ Before(r, NextCursor) => Before(r, cursor) \/ InSlice(r)
           /\ InSlice(r) /\ ~Before(r, NextCursor) =>
                /\ profile.walk = "sliced" /\ At(r, NextCursor) /\ NextCursor > query.from
                /\ ~At(r, cursor)
<1> DEFINE w == Reading(r)
           dw == Calendar(w)
           dc == Calendar(cursor)
           de == Calendar(SliceEnd)
           dn == Calendar(NextCursor)
<1>1. /\ query.from \in Nat /\ query.to \in Nat /\ cursor \in Nat /\ w \in Nat
      /\ SliceEnd \in Nat /\ NextCursor \in Nat
      /\ profile.walk \in {"whole", "sliced", "skipping", "daily"}
      /\ profile.grain \in {"day", "instant", "none"}
      /\ profile.grain = "none" => profile.walk = "whole"
      /\ profile.walk \in {"skipping", "daily"} => profile.grain = "day"
  BY CallTypes, SliceEndType, Readings DEF TypeOK
<1>2. dw \in Nat /\ dc \in Nat /\ de \in Nat /\ dn \in Nat
  BY <1>1, Days
<1>3. profile.walk \in {"sliced", "skipping", "daily"}
  BY <1>1, NextStart
<1>4. CASE profile.walk = "daily"
  <2>1. NextCursor = cursor + Day /\ SliceEnd = cursor
    BY <1>4, NextStart
  <2>2. dn = dc + 1 /\ de = dc /\ profile.grain = "day"
    BY <1>1, <1>4, <2>1, Days
  <2>3. Before(r, cursor) <=> dw < dc
    BY <2>2 DEF Before
  <2>4. Before(r, NextCursor) <=> dw < dn
    BY <2>2 DEF Before
  <2>5. InSlice(r) <=> dc <= dw /\ dw <= de
    BY <2>2 DEF InSlice
  <2> HIDE DEF dw, dc, de, dn
  <2> QED BY <1>2, <2>2, <2>3, <2>4, <2>5
<1>5. CASE profile.walk = "skipping"
  <2>1. NextCursor = SliceEnd + Day /\ cursor <= SliceEnd
    BY <1>5, NextStart
  <2>2. dn = de + 1 /\ dc <= de /\ profile.grain = "day"
    BY <1>1, <1>5, <2>1, Days
  <2>3. Before(r, cursor) <=> dw < dc
    BY <2>2 DEF Before
  <2>4. Before(r, NextCursor) <=> dw < dn
    BY <2>2 DEF Before
  <2>5. InSlice(r) <=> dc <= dw /\ dw <= de
    BY <2>2 DEF InSlice
  <2> HIDE DEF dw, dc, de, dn
  <2> QED BY <1>2, <2>2, <2>3, <2>4, <2>5
<1>6. CASE profile.walk = "sliced"
  <2>1. NextCursor = SliceEnd /\ SliceEnd = cursor + Step
    BY <1>6, NextStart
  <2>2. cursor >= query.from /\ NextCursor > query.from /\ cursor < NextCursor
    BY <1>1, <1>6, <2>1, Sizes DEF Walked
  <2>3. CASE profile.grain = "day"
    <3>1. dc < dn /\ de = dn
      BY <1>1, <2>1, Days
    <3>2. Before(r, cursor) <=> dw < dc
      BY <2>3 DEF Before
    <3>3. Before(r, NextCursor) <=> dw < dn
      BY <2>3 DEF Before
    <3>4. InSlice(r) <=> dc <= dw /\ dw <= de
      BY <2>3 DEF InSlice
    <3>5. (At(r, cursor) <=> dw = dc) /\ (At(r, NextCursor) <=> dw = dn)
      BY <2>3 DEF At
    <3> HIDE DEF dw, dc, de, dn
    <3> QED BY <1>2, <1>6, <2>2, <3>1, <3>2, <3>3, <3>4, <3>5
  <2>4. CASE profile.grain = "instant"
    <3>1. Before(r, cursor) <=> w < cursor
      BY <2>4 DEF Before
    <3>2. Before(r, NextCursor) <=> w < NextCursor
      BY <2>4 DEF Before
    <3>3. InSlice(r) <=> cursor <= w /\ w <= SliceEnd
      BY <2>4 DEF InSlice
    <3>4. (At(r, cursor) <=> w = cursor) /\ (At(r, NextCursor) <=> w = NextCursor)
      BY <2>4 DEF At
    <3> QED BY <1>1, <1>6, <2>1, <2>2, <3>1, <3>2, <3>3, <3>4
  <2> QED BY <1>1, <1>6, <2>3, <2>4
<1> QED BY <1>3, <1>4, <1>5, <1>6

\* What a slice adds is what the next one may find.
LEMMA NextEarlier ==
    ASSUME TypeOK, Walked, ~LastSlice, NEW r \in Rows
    PROVE  Earlier(r, cursor) + (IF InSlice(r) THEN 1 ELSE 0) <= Earlier(r, NextCursor)
<1>1. CASE Before(r, cursor)
  BY <1>1, SlicePlace, NextPlace DEF Earlier
<1>2. CASE ~Before(r, cursor) /\ ~InSlice(r)
  BY <1>2, SlicePlace DEF Earlier
<1>3. CASE ~Before(r, cursor) /\ InSlice(r) /\ Before(r, NextCursor)
  BY <1>3, SlicePlace DEF Earlier
<1>4. CASE ~Before(r, cursor) /\ InSlice(r) /\ ~Before(r, NextCursor)
  BY <1>4, NextPlace DEF Earlier
<1> QED BY <1>1, <1>2, <1>3, <1>4

-----------------------------------------------------------------------------
\* Where a request leaves the walk.
LEMMA RequestCases ==
    ASSUME Request
    PROVE  /\ UNCHANGED <<profile, query, when, upstream, changed>>
           /\ pc = "walking" /\ got' = Kept
           /\ \/ /\ ~Exhausted /\ page' = page + 1
                 /\ cursor' = cursor /\ pc' = pc /\ capped' = capped
              \/ /\ page' = 0 /\ capped' = (capped \/ (~Exhausted /\ ~HasEnough))
                 /\ LastSlice /\ pc' = "done" /\ cursor' = cursor
              \/ /\ page' = 0 /\ capped' = (capped \/ (~Exhausted /\ ~HasEnough))
                 /\ ~LastSlice /\ pc' = pc /\ cursor' = NextCursor
BY DEF Request, NextPage, NextSlice

\* Every step keeps the walk on the slices of the window.
LEMMA WalkedStep == TypeOK /\ Walked /\ [Next]_vars => Walked'
<1> SUFFICES ASSUME TypeOK, Walked, [Next]_vars PROVE Walked'
  OBVIOUS
<1>1. query.from \in Nat /\ query.to \in Nat /\ cursor \in Nat
  BY CallTypes DEF TypeOK
<1>2. CASE Request
  <2>1. UNCHANGED <<profile, query, when, upstream, changed>> /\ pc' # "failed"
    BY <1>2, RequestCases
  <2>2. profile.walk = "whole" => cursor' = query.from
    BY <1>2, RequestCases, NextStart DEF Walked
  <2>3. profile.pages \in {"one", "first"} => page' = 0
    <3>1. profile.pages \in {"one", "first"} => Exhausted
      BY DEF Exhausted
    <3> QED BY <1>2, <3>1, RequestCases
  <2>4. ASSUME profile.walk = "sliced", ~LastSlice, cursor' = NextCursor
        PROVE  query.from < cursor' /\ cursor' < query.to /\ (cursor' - query.from) % Step = 0
    <3>1. cursor' = cursor + Step /\ cursor' < query.to
      BY <2>4, NextStart
    <3>2. cursor >= query.from /\ (cursor - query.from) % Step = 0
      BY <1>1, <2>4, Sizes DEF Walked
    <3>3. cursor - query.from \in Nat
      BY <1>1, <3>2
    <3>4. ASSUME NEW n \in Nat, n % Step = 0
          PROVE  (n + Step) % Step = 0
      <4>1. n \div Step \in Nat /\ n = Step * (n \div Step)
        BY <3>4, Sizes
      <4>2. n + Step = Step * (n \div Step + 1)
        BY <4>1, Sizes
      <4>3. \A k \in Nat : (Step * k) % Step = 0
        BY Sizes
      <4> QED BY <4>1, <4>2, <4>3
    <3>5. (cursor + Step) - query.from = (cursor - query.from) + Step
      BY <1>1, Sizes
    <3>6. (cursor' - query.from) % Step = 0
      BY <3>1, <3>2, <3>3, <3>4, <3>5
    <3> QED BY <1>1, <3>1, <3>2, <3>6, Sizes
  <2>5. profile.walk = "sliced" =>
            \/ cursor' = query.from
            \/ query.from < cursor' /\ cursor' < query.to /\ (cursor' - query.from) % Step = 0
    BY <1>2, <2>4, RequestCases DEF Walked
  <2> QED BY <2>1, <2>2, <2>3, <2>5 DEF Walked
<1>3. CASE Fail
  BY <1>3 DEF Fail, Walked, NoCopies
<1>4. CASE UNCHANGED vars \/ \E r \in Rows, status \in Statuses : Change(r, status)
  BY <1>4 DEF vars, Change, Walked, NoCopies
<1> QED BY <1>2, <1>3, <1>4 DEF Next

\* What stays with the call, and with the slice.
LEMMA SameCall ==
    ASSUME UNCHANGED <<profile, query, when>>, NEW r
    PROVE  /\ Earlier(r, cursor)' = Earlier(r, cursor')
           /\ Before(r, cursor)' = Before(r, cursor')
           /\ OnSeam(r)' = OnSeam(r)
           /\ (InWindow(r) /\ Reached(r))' = (InWindow(r) /\ Reached(r))
<1>0. Reading(r)' = Reading(r)
  BY DEF Reading
<1>1. OnSeam(r)' = OnSeam(r)
  BY <1>0 DEF OnSeam, Calendar
<1>2. Before(r, cursor)' = Before(r, cursor') /\ At(r, cursor)' = At(r, cursor')
  BY <1>0 DEF Before, At, Calendar
<1>3. Earlier(r, cursor)' = Earlier(r, cursor')
  BY <1>1, <1>2 DEF Earlier
<1>4. (InWindow(r) /\ Reached(r))' = (InWindow(r) /\ Reached(r))
  BY <1>0 DEF InWindow, Reached, Calendar
<1> QED BY <1>1, <1>2, <1>3, <1>4

LEMMA SameSlice ==
    ASSUME UNCHANGED <<profile, query, when, upstream, cursor>>, NEW r
    PROVE  /\ Listed' = Listed
           /\ Position(r)' = Position(r)
           /\ PageLength' = PageLength
           /\ InSlice(r)' = InSlice(r)
<1>1. SliceEnd' = SliceEnd
  BY DEF SliceEnd, Smaller
<1>2. \A s : InSlice(s)' = InSlice(s)
  BY <1>1 DEF InSlice, Reading, Calendar
<1>3. Sent' = Sent
  BY DEF Sent, Foremost
<1>4. Listed' = Listed
  BY <1>2, <1>3 DEF Listed, StatusSent, Canonical
<1>5. PageLength' = PageLength
  BY DEF PageLength, Limit, Smaller
<1> QED BY <1>2, <1>4, <1>5 DEF Position, Rank

\* The place after a page is where the next one starts.
LEMMA Pages ==
    ASSUME TypeOK
    PROVE  /\ page * PageLength \in Nat /\ (page + 1) * PageLength \in Nat
           /\ (page + 1) * PageLength = page * PageLength + PageLength
           /\ page = 0 => page * PageLength = 0
<1>1. page \in Nat /\ PageLength \in Nat
  BY PageLengthType DEF TypeOK
<1> QED BY <1>1

\* A request leaves no row on two pages of a slice.
LEMMA OncePerSlice ==
    ASSUME TypeOK, NEW r \in Rows
    PROVE  /\ OnPages(r) => r \notin Fetched
           /\ OnPages(r) \/ r \in Fetched =>
                /\ r \in Listed /\ InSlice(r)
                /\ Position(r) < (page + 1) * PageLength
           /\ r \in Listed /\ Position(r) < (page + 1) * PageLength => OnPages(r) \/ r \in Fetched
           /\ page = 0 => ~OnPages(r)
<1>1. Position(r) \in Nat
  BY PositionType
<1>2. PageLength \in Nat
  BY PageLengthType
<1>3. r \in Listed => InSlice(r)
  BY DEF Listed
<1> QED BY <1>1, <1>2, <1>3, Pages, FetchedRows DEF OnPages

-----------------------------------------------------------------------------
\* Each is a small number.
LEMMA EarlierType ==
    ASSUME NEW r, NEW c
    PROVE  Earlier(r, c) \in 0 .. 2 /\ Now(r) \in 0 .. 1
BY DEF Earlier, Now

\* Every step keeps the bound on how often a row has been counted.
LEMMA CountedStep == TypeOK /\ Walked /\ Counted /\ [Next]_vars => Counted'
<1> SUFFICES ASSUME TypeOK, Walked, Counted, [Next]_vars, pc' # "failed",
                    NEW r \in Rows, Steady(r)'
             PROVE  got'[r] <= Earlier(r, cursor)' + Now(r)'
  BY DEF Counted
<1>1. got[r] \in Nat /\ Kept[r] \in Nat
  BY KeptCopies DEF TypeOK
<1>2. CASE Request
  <2>1. UNCHANGED <<profile, query, when, upstream, changed>> /\ pc = "walking" /\ got' = Kept
    BY <1>2, RequestCases
  <2>2. Earlier(r, cursor)' = Earlier(r, cursor')
    BY <2>1, SameCall
  <2>3. got[r] <= Earlier(r, cursor) + (IF OnPages(r) THEN 1 ELSE 0)
    BY <2>1 DEF Counted, Steady, Now
  <2>4. Kept[r] <= Earlier(r, cursor) + (IF OnPages(r) \/ r \in Fetched THEN 1 ELSE 0)
    <3>1. CASE r \in Fetched
      BY <1>1, <2>3, <3>1, KeptCopies, OncePerSlice, EarlierType
    <3>2. CASE r \notin Fetched
      BY <1>1, <2>3, <3>2, KeptCopies
    <3> QED BY <3>1, <3>2
  <2>5. Kept[r] <= Earlier(r, cursor) + (IF InSlice(r) THEN 1 ELSE 0)
    BY <1>1, <2>4, OncePerSlice, EarlierType
  <2>6. CASE page' = page + 1 /\ cursor' = cursor /\ pc' = pc
    <3>1. Listed' = Listed /\ Position(r)' = Position(r) /\ PageLength' = PageLength
      BY <2>1, <2>6, SameSlice
    <3>2. OnPages(r)' <=> r \in Listed /\ Position(r) < (page + 1) * PageLength
      BY <2>6, <3>1 DEF OnPages
    <3>3. OnPages(r) \/ r \in Fetched => Now(r)' = 1
      BY <2>1, <2>6, <3>2, OncePerSlice DEF Now
    <3>4. Now(r)' \in 0 .. 1
      BY DEF Now
    <3> QED BY <1>1, <2>1, <2>2, <2>4, <2>6, <3>3, <3>4, EarlierType
  <2>7. CASE LastSlice /\ pc' = "done" /\ cursor' = cursor
    <3>1. InSlice(r)' = InSlice(r)
      BY <2>1, <2>7, SameSlice
    <3>2. Now(r)' = IF InSlice(r) THEN 1 ELSE 0
      BY <2>7, <3>1 DEF Now
    <3> QED BY <2>1, <2>2, <2>5, <2>7, <3>2
  <2>8. CASE ~LastSlice /\ pc' = pc /\ cursor' = NextCursor
    <3>1. Kept[r] <= Earlier(r, NextCursor)
      <4>1. Earlier(r, cursor) \in 0 .. 2 /\ Earlier(r, NextCursor) \in 0 .. 2
        BY EarlierType
      <4>2. Earlier(r, cursor) + (IF InSlice(r) THEN 1 ELSE 0) <= Earlier(r, NextCursor)
        BY <2>8, NextEarlier
      <4> QED BY <1>1, <2>5, <4>1, <4>2
    <3>2. Now(r)' \in 0 .. 1
      BY DEF Now
    <3> QED BY <1>1, <2>1, <2>2, <2>8, <3>1, <3>2, EarlierType
  <2> QED BY <1>2, <2>6, <2>7, <2>8, RequestCases
<1>3. ASSUME NEW row \in Rows, NEW status \in Statuses, Change(row, status)
      PROVE  got'[r] <= Earlier(r, cursor)' + Now(r)'
  <2>1. UNCHANGED <<profile, query, when, pc, cursor, page, got>> /\ changed' = changed \cup {row}
    BY <1>3 DEF Change
  <2>2. profile.pages = "one" /\ r \notin changed /\ page = 0 /\ pc = "walking"
    BY <1>3, <2>1 DEF Steady, Walked, Change
  <2>3. got[r] <= Earlier(r, cursor)
    BY <1>1, <2>2, OncePerSlice, EarlierType DEF Counted, Steady, Now
  <2>4. Earlier(r, cursor)' = Earlier(r, cursor) /\ Now(r)' \in 0 .. 1
    BY <2>1, SameCall DEF Now
  <2> QED BY <1>1, <2>1, <2>3, <2>4, EarlierType
<1>4. CASE Fail
  BY <1>4 DEF Fail
<1>5. CASE UNCHANGED vars
  <2>1. UNCHANGED <<profile, query, when, upstream, cursor, pc, page, got, changed>>
    BY <1>5 DEF vars
  <2>2. Earlier(r, cursor)' = Earlier(r, cursor) /\ Steady(r)
    BY <2>1, SameCall DEF Steady
  <2>3. Now(r)' = Now(r)
    BY <2>1, SameSlice DEF Now, OnPages
  <2> QED BY <2>1, <2>2, <2>3 DEF Counted
<1> QED BY <1>2, <1>3, <1>4, <1>5 DEF Next

\* That bound allows a second copy on a seam only.
LEMMA TwiceFollows == TypeOK /\ Walked /\ Counted => TwiceOnlyOnSeams
<1> SUFFICES ASSUME TypeOK, Walked, Counted, NEW r \in Rows, Steady(r)
             PROVE  got[r] <= (IF profile.walk = "sliced" /\ OnSeam(r) THEN 2 ELSE 1)
  BY DEF TwiceOnlyOnSeams
<1>1. CASE pc = "failed"
  BY <1>1 DEF Walked, NoCopies
<1>2. CASE pc # "failed"
  <2>1. got[r] <= Earlier(r, cursor) + Now(r) /\ got[r] \in Nat
    BY <1>2 DEF Counted, TypeOK
  <2>2. OnPages(r) => InSlice(r)
    BY DEF OnPages, Listed
  <2>3. CASE Before(r, cursor)
    <3>1. Now(r) = 0
      BY <2>2, <2>3, SlicePlace DEF Now
    <3> QED BY <2>1, <2>3, <3>1 DEF Earlier
  <2>4. CASE ~Before(r, cursor) /\ At(r, cursor) /\ profile.walk = "sliced" /\ cursor > query.from
    BY <2>1, <2>4, SlicePlace, EarlierType DEF Earlier
  <2>5. CASE ~Before(r, cursor) /\ ~(At(r, cursor) /\ profile.walk = "sliced" /\ cursor > query.from)
    BY <2>1, <2>5, EarlierType DEF Earlier
  <2> QED BY <2>3, <2>4, <2>5
<1> QED BY <1>1, <1>2

-----------------------------------------------------------------------------
\* A row that is wanted passes the filters on both sides.
LEMMA FollowedRow ==
    ASSUME TypeOK, NEW r \in Rows, Followed, Wanted(r)
    PROVE  /\ Passes(r)
           /\ InSlice(r) => r \in Listed
           /\ profile.pages \in {"one", "short", "empty", "total"} /\ ~capped
<1>1. Passes(r)
  BY DEF Wanted, Passes, InWindow
<1>2. Canonical(upstream[r]) \in Sent
  <2>1. upstream[r] \in Statuses
    BY DEF TypeOK, Wanted
  <2>2. Canonical(upstream[r]) \in Both
    BY <2>1 DEF Canonical, Statuses, Both
  <2>3. Wants(Canonical(upstream[r]))
    BY DEF Wanted, Asked
  <2> QED BY <2>2, <2>3 DEF Followed, FilterSentInFull
<1>3. StatusSent => upstream[r] \in Both
  <2>1. upstream[r] \in Statuses
    BY DEF TypeOK, Wanted
  <2>2. /\ upstream[r] = "claim" => Canonical(upstream[r]) = "pending"
        /\ upstream[r] = "locked" => Canonical(upstream[r]) = "approved"
    BY DEF Canonical
  <2>3. StatusSent => Canonical(upstream[r]) \notin profile.narrow
    BY <1>2 DEF Followed, FilterSentInFull
  <2> QED BY <2>1, <2>2, <2>3 DEF Statuses
<1>4. InSlice(r) => r \in Listed
  BY <1>2, <1>3 DEF Listed, Wanted
<1>5. profile.pages \in {"one", "short", "empty", "total"} /\ ~capped
  BY CallTypes DEF Followed, OnePageOnly, TypeOK
<1> QED BY <1>1, <1>4, <1>5

\* A call without a limit does not end because of one.
LEMMA DueRow ==
    ASSUME TypeOK, NEW r \in Rows, Due(r)
    PROVE  Followed /\ Wanted(r) /\ Limit = 0 /\ ~HasEnough
BY DEF Due, Unlimited, Limit, HasEnough

\* When the adapter takes a slice to be exhausted, it has fetched every row of it,
\* or a page cut to the limit is full.
LEMMA SliceRead ==
    ASSUME TypeOK, Walked, Exhausted, profile.pages # "first", NEW r \in Rows, r \in Listed
    PROVE  \/ OnPages(r) \/ r \in Fetched
           \/ /\ profile.pages = "one" /\ PageLength # Cardinality(Rows)
              /\ PageLength <= Cardinality(Fetched)
<1> DEFINE a == page * PageLength
           b == (page + 1) * PageLength
           n == PageLength
<1>1. profile.pages \in {"one", "short", "empty", "total"}
  BY CallTypes DEF TypeOK
<1>2. a \in Nat /\ b \in Nat /\ b = a + n /\ n \in Nat /\ (page = 0 => a = 0)
  BY Pages, PageLengthType
<1>3. Position(r) \in Nat /\ Position(r) < Cardinality(Listed)
  BY PositionType
<1>4. Fetched = {s \in Listed : a <= Position(s) /\ Position(s) < b}
  BY FetchedRows
<1> HIDE DEF a, b, n
<1>5. Position(r) < b => OnPages(r) \/ r \in Fetched
  BY OncePerSlice DEF b
<1>6. ASSUME b <= Position(r) PROVE n <= Cardinality(Fetched)
  <2>1. b - a <= Cardinality({s \in Listed : a <= Rank(Listed, s) /\ Rank(Listed, s) < b})
    BY <1>2, <1>6, ListedRows, RankWindow DEF Position
  <2>2. Fetched = {s \in Listed : a <= Rank(Listed, s) /\ Rank(Listed, s) < b}
    BY <1>4 DEF Position
  <2>3. b - a = n
    BY <1>2
  <2> QED BY <2>1, <2>2, <2>3
<1>7. CASE profile.pages = "one"
  <2>1. b = n
    <3>1. page = 0
      BY <1>7 DEF Walked
    <3> QED BY <1>2, <3>1
  <2>2. n = Cardinality(Rows) => Position(r) < b
    BY <1>3, <2>1, ListedRows
  <2> QED BY <1>2, <1>3, <1>5, <1>6, <1>7, <2>2 DEF n
<1>8. CASE profile.pages = "total"
  <2>1. b >= Cardinality(Listed)
    BY <1>8 DEF Exhausted, b
  <2> QED BY <1>2, <1>3, <1>5, <2>1, ListedRows
<1>9. CASE profile.pages \in {"short", "empty"}
  <2>1. n \in Nat /\ n > 0
    BY <1>2, <1>9, PageLengthType DEF n
  <2>2. CASE profile.pages = "short"
    <3>1. Cardinality(Fetched) < n /\ Cardinality(Fetched) \in Nat
      BY <2>2, FetchedRows DEF Exhausted, n
    <3> QED BY <1>2, <1>3, <1>5, <1>6, <2>1, <3>1
  <2>3. CASE profile.pages = "empty"
    <3>1. Cardinality(Fetched) = 0
      BY <2>3, FS_EmptySet DEF Exhausted
    <3> QED BY <1>2, <1>3, <1>5, <1>6, <2>1, <3>1
  <2> QED BY <1>9, <2>2, <2>3
<1> QED BY <1>1, <1>7, <1>8, <1>9

\* The last slice reaches the end of the window.
LEMMA LastPlace ==
    ASSUME TypeOK, Walked, LastSlice, NEW r \in Rows, Reached(r), ~Before(r, cursor)
    PROVE  InSlice(r)
<1> DEFINE w == Reading(r)
           dw == Calendar(w)
           dc == Calendar(cursor)
           de == Calendar(SliceEnd)
           dt == Calendar(query.to)
<1>1. /\ query.from \in Nat /\ query.to \in Nat /\ cursor \in Nat /\ w \in Nat
      /\ SliceEnd \in Nat /\ NextCursor \in Nat
      /\ profile.walk \in {"whole", "sliced", "skipping", "daily"}
      /\ profile.grain \in {"day", "instant", "none"}
      /\ profile.walk \in {"skipping", "daily"} => profile.grain = "day"
  BY CallTypes, SliceEndType, Readings DEF TypeOK
<1>2. dw \in Nat /\ dc \in Nat /\ de \in Nat /\ dt \in Nat /\ w <= query.to /\ dw <= dt
  BY <1>1, Days DEF Reached
<1>3. CASE profile.walk \in {"whole", "sliced"}
  <2>1. SliceEnd = query.to
    <3>1. CASE profile.walk = "whole"
      BY <3>1 DEF SliceEnd
    <3>2. CASE profile.walk = "sliced"
      <4>1. SliceEnd >= query.to
        BY <3>2 DEF LastSlice, NextCursor
      <4>2. SliceEnd = query.to \/ SliceEnd = Smaller(cursor + Step, query.to)
        BY <3>2 DEF SliceEnd
      <4>3. cursor + Step \in Nat
        BY <1>1, Sizes
      <4> QED BY <1>1, <4>1, <4>2, <4>3 DEF Smaller
    <3> QED BY <1>3, <3>1, <3>2
  <2>2. CASE profile.grain = "instant"
    BY <1>1, <1>2, <2>1, <2>2 DEF InSlice, Before
  <2>3. CASE profile.grain = "day"
    <3>1. dc <= dw /\ dw <= de
      <4>1. ~(dw < dc)
        BY <2>3 DEF Before
      <4> QED BY <1>2, <2>1, <4>1
    <3> QED BY <2>3, <3>1 DEF InSlice
  <2>4. CASE profile.grain = "none"
    BY <2>4 DEF InSlice
  <2> QED BY <1>1, <2>2, <2>3, <2>4
<1>4. CASE profile.walk \in {"skipping", "daily"}
  <2>1. profile.grain = "day"
    BY <1>1, <1>4
  <2>2. dc <= dw
    <3>1. ~(dw < dc)
      BY <2>1 DEF Before
    <3> QED BY <1>2, <3>1
  <2>3. dw <= de
    <3>1. CASE profile.walk = "daily"
      <4>1. SliceEnd = cursor
        BY <3>1 DEF SliceEnd
      <4>2. dc >= dt
        BY <3>1 DEF LastSlice
      <4> QED BY <1>2, <4>1, <4>2
    <3>2. CASE profile.walk = "skipping"
      <4>1. SliceEnd + Day >= query.to
        BY <3>2 DEF LastSlice, NextCursor
      <4>2. query.to <= SliceEnd + Day /\ SliceEnd + Day \in Nat
        BY <1>1, <4>1, Sizes
      <4>3. Calendar(SliceEnd + Day) = de + 1 /\ dt <= Calendar(SliceEnd + Day)
        BY <1>1, <4>2, Days
      <4>4. dw < dt
        BY <3>2 DEF Reached
      <4> QED BY <1>2, <4>3, <4>4
    <3> QED BY <1>4, <3>1, <3>2
  <2> QED BY <2>1, <2>2, <2>3 DEF InSlice
<1> QED BY <1>1, <1>3, <1>4

\* On the first page of a slice no row of it has been fetched.
LEMMA FirstPageEmpty ==
    ASSUME TypeOK, UNCHANGED <<profile, query>>, page' = 0, NEW r
    PROVE  ~OnPages(r)'
<1>1. Listed' \in SUBSET Nat /\ IsFiniteSet(Listed')
  <2>1. Listed' \in SUBSET Rows
    BY DEF Listed
  <2> QED BY <2>1, RowsAssumption, FS_Subset
<1>2. Position(r)' = Rank(Listed', r) /\ Rank(Listed', r) \in Nat
  BY <1>1, RankBound DEF Position, Rank
<1>3. PageLength' = PageLength /\ PageLength \in Nat
  BY PageLengthType DEF PageLength, Limit, Smaller
<1>4. page' * PageLength' = 0
  BY <1>3
<1> QED BY <1>2, <1>4 DEF OnPages

\* Every step leaves no row behind that is due.
LEMMA MissedStep == TypeOK /\ Walked /\ NothingMissed /\ [Next]_vars => NothingMissed'
<1> SUFFICES ASSUME TypeOK, Walked, NothingMissed, [Next]_vars, NEW r \in Rows, Due(r)'
             PROVE  /\ (pc = "walking" /\ (Before(r, cursor) \/ OnPages(r)))' => got'[r] > 0
                    /\ pc' = "done" => got'[r] > 0
  BY DEF NothingMissed
<1>1. /\ query.from \in Nat /\ query.to \in Nat /\ cursor \in Nat
      /\ got[r] \in Nat /\ Kept[r] \in Nat
  BY CallTypes, KeptCopies DEF TypeOK
<1>2. CASE Request
  <2>1. UNCHANGED <<profile, query, when, upstream, changed>> /\ pc = "walking" /\ got' = Kept
    BY <1>2, RequestCases
  <2>2. ~capped'
    BY DEF Due, Followed
  <2>3. ~capped
    BY <1>2, <2>2, RequestCases
  <2>4. Due(r)
    <3>1. InWindow(r) /\ Reached(r)
      BY <2>1, SameCall DEF Due, Wanted
    <3>2. Unlimited /\ Asked(r) /\ r \in query.picks /\ upstream[r] # "absent" /\ Steady(r)
      BY <2>1 DEF Due, Unlimited, Wanted, Asked, Wants, Canonical, Steady
    <3>3. FilterSentInFull
      <4>1. FilterSentInFull'
        BY DEF Due, Followed
      <4> QED BY <2>1, <4>1 DEF FilterSentInFull, StatusSent, Sent, Foremost, Wants
    <3>4. ~OnePageOnly
      BY <2>1 DEF Due, Followed, OnePageOnly
    <3> QED BY <2>3, <3>1, <3>2, <3>3, <3>4 DEF Due, Wanted, Followed
  <2>5. Passes(r) /\ ~HasEnough
    BY <2>4, DueRow, FollowedRow
  <2>6. Before(r, cursor) \/ OnPages(r) \/ r \in Fetched => Kept[r] > 0
    BY <2>1, <2>4, <2>5, KeptCopies DEF NothingMissed
  <2>7. Before(r, cursor)' = Before(r, cursor')
    BY <2>1, SameCall
  <2>8. CASE ~Exhausted /\ page' = page + 1 /\ cursor' = cursor /\ pc' = pc
    <3>1. Listed' = Listed /\ Position(r)' = Position(r) /\ PageLength' = PageLength
      BY <2>1, <2>8, SameSlice
    <3>2. OnPages(r)' => OnPages(r) \/ r \in Fetched
      BY <2>8, <3>1, OncePerSlice DEF OnPages
    <3> QED BY <2>1, <2>6, <2>7, <2>8, <3>2
  <2>9. ASSUME capped' = (capped \/ (~Exhausted /\ ~HasEnough)), InSlice(r)
        PROVE  Kept[r] > 0
    <3>1. Exhausted
      BY <2>2, <2>5, <2>9
    <3>2. r \in Listed /\ profile.pages # "first" /\ Limit = 0
      BY <2>4, <2>9, DueRow, FollowedRow
    <3>3. profile.pages = "one" => PageLength = Cardinality(Rows)
      BY <3>2, PageLengthType
    <3> QED BY <2>6, <3>1, <3>2, <3>3, SliceRead
  <2>10. CASE /\ capped' = (capped \/ (~Exhausted /\ ~HasEnough))
              /\ LastSlice /\ pc' = "done"
    <3>1. Before(r, cursor) \/ InSlice(r)
      BY <2>4, <2>10, LastPlace DEF Due, Wanted
    <3> QED BY <2>1, <2>6, <2>9, <2>10, <3>1
  <2>11. CASE /\ page' = 0 /\ capped' = (capped \/ (~Exhausted /\ ~HasEnough))
              /\ ~LastSlice /\ pc' = pc /\ cursor' = NextCursor
    <3>1. Before(r, NextCursor) => Before(r, cursor) \/ InSlice(r)
      BY <2>11, NextPlace
    <3>2. ~OnPages(r)'
      BY <2>1, <2>11, FirstPageEmpty
    <3> QED BY <2>1, <2>6, <2>7, <2>9, <2>11, <3>1, <3>2
  <2> QED BY <1>2, <2>8, <2>10, <2>11, RequestCases
<1>3. CASE Fail
  BY <1>3 DEF Fail
<1>4. ASSUME NEW row \in Rows, NEW status \in Statuses, Change(row, status)
      PROVE  pc' = "walking" /\ (Before(r, cursor)' => got'[r] > 0) /\ ~OnPages(r)'
  <2>1. /\ UNCHANGED <<profile, query, when, pc, cursor, page, got, capped>> /\ pc = "walking"
        /\ changed' = changed \cup {row} /\ upstream' = [upstream EXCEPT ![row] = status]
    BY <1>4 DEF Change
  <2>2. profile.pages = "one" /\ r \notin changed /\ r # row /\ page = 0
    BY <2>1 DEF Due, Steady, Walked
  <2>3. upstream'[r] = upstream[r]
    BY <2>1, <2>2 DEF TypeOK
  <2>4. Due(r)
    <3>1. InWindow(r) /\ Reached(r)
      BY <2>1, SameCall DEF Due, Wanted
    <3>2. Unlimited /\ Asked(r) /\ r \in query.picks /\ upstream[r] # "absent" /\ Steady(r)
      BY <2>1, <2>2, <2>3 DEF Due, Unlimited, Wanted, Asked, Wants, Canonical, Steady
    <3>3. FilterSentInFull
      <4>1. FilterSentInFull'
        BY DEF Due, Followed
      <4> QED BY <2>1, <4>1 DEF FilterSentInFull, StatusSent, Sent, Foremost, Wants
    <3>4. ~OnePageOnly /\ ~capped
      BY <2>1 DEF Due, Followed, OnePageOnly
    <3> QED BY <3>1, <3>2, <3>3, <3>4 DEF Due, Wanted, Followed
  <2>5. Before(r, cursor)' => got'[r] > 0
    BY <2>1, <2>4, SameCall DEF NothingMissed
  <2>6. ~OnPages(r)'
    BY <2>1, <2>2, FirstPageEmpty
  <2> QED BY <2>1, <2>5, <2>6
<1>5. CASE UNCHANGED vars
  <2>1. UNCHANGED <<profile, query, when, upstream, cursor, page, pc, got, changed, capped>>
    BY <1>5 DEF vars
  <2>2. Due(r) /\ (OnPages(r)' <=> OnPages(r)) /\ (Before(r, cursor)' <=> Before(r, cursor))
    <3>1. InWindow(r) /\ Reached(r) /\ (Before(r, cursor)' <=> Before(r, cursor))
      BY <2>1, SameCall DEF Due, Wanted
    <3>2. Unlimited /\ Asked(r) /\ r \in query.picks /\ upstream[r] # "absent" /\ Steady(r)
      BY <2>1 DEF Due, Unlimited, Wanted, Asked, Wants, Canonical, Steady
    <3>3. FilterSentInFull
      <4>1. FilterSentInFull'
        BY DEF Due, Followed
      <4> QED BY <2>1, <4>1 DEF FilterSentInFull, StatusSent, Sent, Foremost, Wants
    <3>4. ~OnePageOnly /\ ~capped
      BY <2>1 DEF Due, Followed, OnePageOnly
    <3>5. OnPages(r)' <=> OnPages(r)
      BY <2>1, SameSlice DEF OnPages
    <3> QED BY <3>1, <3>2, <3>3, <3>4, <3>5 DEF Due, Wanted, Followed
  <2> QED BY <2>1, <2>2 DEF NothingMissed
<1>6. CASE Request \/ Fail \/ UNCHANGED vars
  BY <1>2, <1>3, <1>5, <1>6
<1> QED BY <1>4, <1>6 DEF Next

\* Nothing has been counted yet.
LEMMA InitCounted == Init => Counted
<1> SUFFICES ASSUME Init, NEW r \in Rows PROVE got[r] <= Earlier(r, cursor) + Now(r)
  BY DEF Counted
<1>1. got[r] = 0
  BY DEF Init, NoCopies
<1> QED BY <1>1, EarlierType

\* No row of the window lies before the first slice.
LEMMA FirstCursor ==
    ASSUME Init, NEW r \in Rows, InWindow(r)
    PROVE  ~Before(r, cursor)
<1>1. TypeOK
  BY InitTypes
<1>2. /\ query.from \in Nat /\ Reading(r) \in Nat /\ cursor \in Nat
      /\ profile.walk = "daily" => profile.grain = "day"
  BY <1>1, CallTypes, Readings DEF TypeOK
<1>3. query.from <= Reading(r)
  BY <1>1, <1>2, Readings DEF InWindow
<1>4. Calendar(cursor) = Calendar(query.from)
  BY <1>2, Days DEF Init
<1>5. /\ Calendar(query.from) \in Nat /\ Calendar(Reading(r)) \in Nat
      /\ Calendar(query.from) <= Calendar(Reading(r))
  BY <1>2, <1>3, Days
<1>6. profile.grain = "instant" => cursor = query.from
  BY <1>2 DEF Init
<1> QED BY <1>2, <1>3, <1>4, <1>5, <1>6 DEF Before

\* So none of them has been missed.
LEMMA InitMissed == Init => NothingMissed
<1> SUFFICES ASSUME Init, NEW r \in Rows, Due(r)
             PROVE  pc = "walking" /\ ~Before(r, cursor) /\ ~OnPages(r)
  BY DEF NothingMissed
<1>1. ~Before(r, cursor)
  BY FirstCursor DEF Due, Wanted
<1>2. ~OnPages(r)
  BY InitTypes, OncePerSlice DEF Init
<1> QED BY <1>1, <1>2 DEF Init

\* A walk that left no row behind is complete when it is done.
LEMMA CompleteFollows == NothingMissed => UnlimitedIsComplete
BY DEF NothingMissed, UnlimitedIsComplete, Due

-----------------------------------------------------------------------------
\* The copies of all rows, one by one.
CopySet(g) == UNION {{r} \X (1 .. g[r]) : r \in Rows}

\* A row has as many of them as g says.
LEMMA CopySetMember ==
    ASSUME NEW g \in [Rows -> Nat], NEW r, NEW n
    PROVE  <<r, n>> \in CopySet(g) <=> r \in Rows /\ n \in 1 .. g[r]
<1>1. <<r, n>> \in CopySet(g) <=> \E s \in Rows : <<r, n>> \in {s} \X (1 .. g[s])
  BY DEF CopySet
<1> QED BY <1>1

\* They are finitely many.
LEMMA CopySetFinite ==
    ASSUME NEW g \in [Rows -> Nat]
    PROVE  /\ IsFiniteSet(CopySet(g))
           /\ Copies(g) = Cardinality(CopySet(g)) /\ Copies(g) \in Nat
<1> DEFINE f == [r \in Rows |-> {r} \X (1 .. g[r])]
           parts == {{r} \X (1 .. g[r]) : r \in Rows}
<1>1. IsFiniteSet(parts)
  <2>1. f \in Surjection(Rows, parts)
    BY DEF Surjection
  <2> HIDE DEF f, parts
  <2> QED BY <2>1, RowsAssumption, FS_Surjection
<1>2. ASSUME NEW part \in parts PROVE IsFiniteSet(part)
  <2>1. PICK r \in Rows : part = {r} \X (1 .. g[r])
    OBVIOUS
  <2>2. IsFiniteSet(1 .. g[r])
    BY FS_Interval
  <2> QED BY <2>1, <2>2, FS_Singleton, FS_Product
<1>3. IsFiniteSet(UNION parts)
  <2> HIDE DEF parts
  <2> QED BY <1>1, <1>2, FS_UNION
<1> QED BY <1>3, FS_CardinalityType DEF CopySet, Copies

\* A copy more of some rows makes at least so many copies more.
LEMMA CopiesGrow ==
    ASSUME NEW g \in [Rows -> Nat], NEW h \in [Rows -> Nat], NEW S \in SUBSET Rows,
           \A r \in Rows : g[r] <= h[r], \A r \in S : g[r] + 1 <= h[r]
    PROVE  Copies(g) + Cardinality(S) <= Copies(h)
<1> DEFINE f == [r \in S |-> <<r, g[r] + 1>>]
           Added == {<<r, g[r] + 1>> : r \in S}
<1>1. IsFiniteSet(S) /\ Cardinality(S) \in Nat
  BY RowsAssumption, FS_Subset, FS_CardinalityType
<1>2. IsFiniteSet(Added) /\ Cardinality(Added) = Cardinality(S)
  <2>1. f \in [S -> Added] /\ (\A a \in Added : \E r \in S : f[r] = a)
        /\ (\A r, s \in S : f[r] = f[s] => r = s)
    OBVIOUS
  <2> HIDE DEF f, Added
  <2>2. f \in Bijection(S, Added)
    BY <2>1 DEF Bijection, Injection, Surjection, IsInjective
  <2>3. ExistsBijection(S, Added)
    BY <2>2 DEF ExistsBijection
  <2> QED BY <1>1, <2>3, FS_Bijection
<1>3. CopySet(g) \cap Added = {}
  <2> SUFFICES ASSUME NEW r \in S, <<r, g[r] + 1>> \in CopySet(g) PROVE FALSE
    OBVIOUS
  <2> QED BY CopySetMember
<1>4. CopySet(g) \cup Added \subseteq CopySet(h)
  <2>1. Added \subseteq CopySet(h)
    <3> SUFFICES ASSUME NEW r \in S PROVE <<r, g[r] + 1>> \in CopySet(h)
      OBVIOUS
    <3>1. g[r] \in Nat /\ h[r] \in Nat /\ g[r] + 1 <= h[r]
      OBVIOUS
    <3> QED BY <3>1, CopySetMember
  <2>2. CopySet(g) \subseteq CopySet(h)
    <3> SUFFICES ASSUME NEW r \in Rows, NEW n \in 1 .. g[r] PROVE <<r, n>> \in CopySet(h)
      BY DEF CopySet
    <3>1. g[r] \in Nat /\ h[r] \in Nat /\ g[r] <= h[r]
      OBVIOUS
    <3> QED BY <3>1, CopySetMember
  <2> QED BY <2>1, <2>2
<1> HIDE DEF Added
<1>5. Cardinality(CopySet(g) \cup Added) = Copies(g) + Cardinality(S)
  <2>1. IsFiniteSet(CopySet(g)) /\ Copies(g) = Cardinality(CopySet(g)) /\ Copies(g) \in Nat
    BY CopySetFinite
  <2>2. Cardinality(CopySet(g) \cap Added) = 0
    BY <1>3, FS_EmptySet
  <2>3. Cardinality(CopySet(g) \cup Added) =
            Cardinality(CopySet(g)) + Cardinality(Added) - Cardinality(CopySet(g) \cap Added)
    BY <1>2, <2>1, FS_Union
  <2> QED BY <1>1, <1>2, <2>1, <2>2, <2>3
<1>6. Cardinality(CopySet(g) \cup Added) <= Copies(h)
  BY <1>4, CopySetFinite, FS_Subset
<1> QED BY <1>5, <1>6

\* A request takes no copy back.
LEMMA KeptGrows ==
    ASSUME TypeOK, DistinctOnce
    PROVE  /\ Kept \in [Rows -> Nat] /\ got \in [Rows -> Nat]
           /\ \A r \in Rows : got[r] <= Kept[r]
           /\ Copies(got) <= Copies(Kept) /\ Copies(got) \in Nat /\ Copies(Kept) \in Nat
<1>1. got \in [Rows -> Nat]
  BY DEF TypeOK
<1>2. Kept \in [Rows -> Nat]
  <2>1. \A r \in Rows : Kept[r] \in Nat
    BY KeptCopies
  <2> QED BY <2>1 DEF Kept
<1>3. ASSUME NEW r \in Rows PROVE got[r] <= Kept[r]
  <2>1. got[r] \in Nat
    BY <1>1
  <2>2. "distinct" \in profile.flags => got[r] <= 1
    BY DEF DistinctOnce
  <2> QED BY <2>1, <2>2 DEF Kept
<1>4. Copies(got) \in Nat /\ Copies(Kept) \in Nat
  BY <1>1, <1>2, CopySetFinite
<1>5. Copies(got) + Cardinality({}) <= Copies(Kept)
  BY <1>1, <1>2, <1>3, CopiesGrow
<1> QED BY <1>1, <1>2, <1>3, <1>4, <1>5, FS_EmptySet

\* A fetch that stops on the rows as they come back keeps all of them.
LEMMA RawRowsKept ==
    ASSUME TypeOK, DistinctOnce, Held, StopsOnRawRows
    PROVE  Copies(got) + Cardinality(Fetched) <= Copies(Kept)
<1>1. /\ "client" \notin profile.flags /\ "distinct" \notin profile.flags
      /\ query.status \subseteq Both /\ Rows \subseteq query.picks
  BY CallTypes DEF TypeOK, Held
<1>2. ASSUME NEW r \in Fetched PROVE r \in Rows /\ Passes(r)
  <2>1. r \in Rows /\ Canonical(upstream[r]) \in Sent
    BY FetchedRows DEF Listed
  <2>2. FilterSentInFull /\ (StatusSent \/ query.status = {})
    BY DEF Held, Followed
  <2>3. \A status \in Sent : Wants(status)
    BY <1>1, <2>2 DEF FilterSentInFull, StatusSent, Sent, Foremost, Wants, Both
  <2> QED BY <1>1, <2>1, <2>3 DEF Passes, Asked
<1>3. \A r \in Fetched : got[r] + 1 <= Kept[r]
  <2> SUFFICES ASSUME NEW r \in Fetched PROVE got[r] + 1 <= Kept[r]
    OBVIOUS
  <2>1. got[r] \in Nat
    BY <1>2 DEF TypeOK
  <2> QED BY <1>1, <1>2, <2>1 DEF Kept
<1>4. Fetched \in SUBSET Rows
  BY <1>2
<1> QED BY <1>3, <1>4, KeptGrows, CopiesGrow

\* When a fetch ends because of the limit, there are rows enough.
LEMMA EnoughKept ==
    ASSUME TypeOK, DistinctOnce, RawKept, Held, HasEnough
    PROVE  Copies(Kept) >= query.limit
<1>1. Limit = query.limit /\ query.limit \in Nat /\ query.limit > 0
  BY CallTypes DEF TypeOK, Held, Limit
<1>2. "single" \notin profile.stops
  BY DEF Held, Followed, OnePageOnly
<1>3. CASE "stops" \in profile.stops /\ raw + Cardinality(Fetched) >= Limit
  <2>1. raw \in Nat /\ raw <= Copies(got)
    BY <1>3 DEF RawKept, TypeOK
  <2>2. Copies(got) + Cardinality(Fetched) <= Copies(Kept)
    BY <1>3, RawRowsKept DEF StopsOnRawRows
  <2> QED BY <1>1, <1>3, <2>1, <2>2, KeptGrows, FetchedRows
<1>4. CASE "enough" \in profile.stops /\ Copies(Kept) >= Limit
  BY <1>1, <1>4
<1> QED BY <1>2, <1>3, <1>4 DEF HasEnough

\* A call that must hide no row keeps so, backwards, and what it wants with it.
LEMMA HeldBefore ==
    ASSUME UNCHANGED <<profile, query, when, upstream>>, changed \subseteq changed', Held',
           capped => capped'
    PROVE  Held /\ \A r : Wanted(r)' = Wanted(r) /\ Reached(r)' = Reached(r)
<1>1. UNCHANGED <<Unlimited, OnePageOnly, FilterSentInFull, StatusSent, StopsOnRawRows>>
  BY DEF Unlimited, OnePageOnly, FilterSentInFull, StatusSent, Sent, Foremost, Wants, StopsOnRawRows
<1>2. Held
  BY <1>1 DEF Held, Followed
<1>3. \A r : Wanted(r)' = Wanted(r) /\ Reached(r)' = Reached(r)
  BY DEF Wanted, InWindow, Asked, Wants, Canonical, Reached, Reading, Calendar
<1> QED BY <1>2, <1>3

\* Every step of an adapter that drops what comes back again keeps one copy of a row.
LEMMA DistinctStep == TypeOK /\ DistinctOnce /\ [Next]_vars => DistinctOnce'
<1> SUFFICES ASSUME TypeOK, DistinctOnce, [Next]_vars, ("distinct" \in profile.flags)',
                    NEW r \in Rows
             PROVE  got'[r] <= 1
  BY DEF DistinctOnce
<1>1. CASE Request
  <2>1. "distinct" \in profile.flags /\ got' = Kept
    BY <1>1 DEF Request
  <2>2. Kept[r] <= 1
    BY <2>1 DEF Kept, DistinctOnce
  <2> QED BY <2>1, <2>2
<1>2. CASE Fail
  BY <1>2 DEF Fail, NoCopies
<1>3. CASE UNCHANGED vars \/ \E s \in Rows, status \in Statuses : Change(s, status)
  BY <1>3 DEF vars, Change, DistinctOnce
<1> QED BY <1>1, <1>2, <1>3 DEF Next

\* Every step keeps the count of the rows fetched below that of the copies.
LEMMA RawStep == TypeOK /\ DistinctOnce /\ RawKept /\ [Next]_vars => RawKept'
<1> SUFFICES ASSUME TypeOK, DistinctOnce, RawKept, [Next]_vars,
                    Held', ("stops" \in profile.stops)'
             PROVE  raw' <= Copies(got')
  BY DEF RawKept, Copies
<1>1. CASE Request
  <2>1. UNCHANGED <<profile, query, when, upstream, changed>> /\ got' = Kept
        /\ raw' = raw + Cardinality(Fetched) /\ (capped => capped')
    BY <1>1, RequestCases DEF Request, TypeOK
  <2>2. Held /\ StopsOnRawRows /\ "stops" \in profile.stops
    BY <2>1, HeldBefore DEF StopsOnRawRows
  <2>3. raw <= Copies(got) /\ raw \in Nat
    BY <2>2 DEF RawKept, TypeOK
  <2>4. Copies(got) + Cardinality(Fetched) <= Copies(Kept)
    BY <2>2, RawRowsKept
  <2> QED BY <2>1, <2>3, <2>4, KeptGrows, FetchedRows
<1>2. CASE Fail
  <2>1. NoCopies \in [Rows -> Nat]
    BY DEF NoCopies
  <2> QED BY <1>2, <2>1, CopySetFinite DEF Fail
<1>3. CASE UNCHANGED vars
  <2>1. UNCHANGED <<profile, query, when, upstream, changed, capped, raw, got>>
    BY <1>3 DEF vars
  <2>2. Held
    BY <2>1, HeldBefore
  <2> QED BY <2>1, <2>2 DEF RawKept
<1>4. CASE \E r \in Rows, status \in Statuses : Change(r, status)
  BY <1>4 DEF Change, Held
<1> QED BY <1>1, <1>2, <1>3, <1>4 DEF Next

\* Every step keeps a limited call at its rows, or at none missed.
LEMMA LimitStep ==
    TypeOK /\ Walked /\ DistinctOnce /\ RawKept /\ LimitMet /\ [Next]_vars => LimitMet'
<1> SUFFICES ASSUME TypeOK, Walked, DistinctOnce, RawKept, LimitMet, [Next]_vars, Held',
                    ~(Copies(got') >= query'.limit), NEW r \in Rows, (Wanted(r) /\ Reached(r))'
             PROVE  /\ (pc = "walking" /\ (Before(r, cursor) \/ OnPages(r)))' => got'[r] > 0
                    /\ pc' = "done" => got'[r] > 0
  BY DEF LimitMet, Copies
<1>1. CASE Request
  <2>1. UNCHANGED <<profile, query, when, upstream, changed>> /\ pc = "walking" /\ got' = Kept
        /\ (capped => capped')
    BY <1>1, RequestCases DEF TypeOK
  <2>2. Held /\ Wanted(r) /\ Reached(r) /\ ~capped'
    BY <2>1, HeldBefore DEF Held, Followed
  <2>3. query.limit \in Nat /\ Copies(Kept) < query.limit
    BY <2>1, CallTypes, KeptGrows DEF TypeOK
  <2>4. Before(r, cursor) \/ OnPages(r) => got[r] > 0
    <3>1. Copies(got) < query.limit
      BY <2>3, KeptGrows
    <3>2. ~(Copies(got) >= query.limit)
      BY <2>3, <3>1, KeptGrows
    <3> QED BY <2>1, <2>2, <3>2 DEF LimitMet
  <2>5. ~HasEnough
    <3>1. HasEnough => Copies(Kept) >= query.limit
      BY <2>2, EnoughKept
    <3> QED BY <2>3, <3>1, KeptGrows
  <2>6. /\ Followed /\ Passes(r) /\ (InSlice(r) => r \in Listed)
        /\ profile.pages \in {"one", "short", "empty", "total"}
    BY <2>2, FollowedRow DEF Held
  <2>7. Before(r, cursor) \/ OnPages(r) \/ r \in Fetched => Kept[r] > 0
    BY <2>4, <2>6, KeptCopies
  <2>8. Before(r, cursor)' = Before(r, cursor')
    BY <2>1, SameCall
  <2>9. CASE ~Exhausted /\ page' = page + 1 /\ cursor' = cursor /\ pc' = pc
    <3>1. Listed' = Listed /\ Position(r)' = Position(r) /\ PageLength' = PageLength
      BY <2>1, <2>9, SameSlice
    <3>2. OnPages(r)' => OnPages(r) \/ r \in Fetched
      BY <2>9, <3>1, OncePerSlice DEF OnPages
    <3> QED BY <2>1, <2>7, <2>8, <2>9, <3>2
  <2>10. ASSUME capped' = (capped \/ (~Exhausted /\ ~HasEnough)), InSlice(r)
         PROVE  Kept[r] > 0
    <3>1. Exhausted /\ r \in Listed
      BY <2>2, <2>5, <2>6, <2>10
    <3>2. SUFFICES ASSUME profile.pages = "one", PageLength # Cardinality(Rows),
                          PageLength <= Cardinality(Fetched)
                   PROVE  FALSE
      BY <2>6, <2>7, <3>1, SliceRead
    <3>3. "sized" \in profile.stops /\ PageLength = Limit
      BY <3>2, PageLengthType
    <3>4. Limit = query.limit
      BY <2>2 DEF Held, Limit
    <3>5. Copies(got) + Cardinality(Fetched) <= Copies(Kept)
      BY <2>2, <3>2, <3>3, RawRowsKept DEF StopsOnRawRows
    <3> QED BY <2>3, <3>2, <3>3, <3>4, <3>5, KeptGrows, FetchedRows
  <2>11. CASE /\ capped' = (capped \/ (~Exhausted /\ ~HasEnough))
              /\ LastSlice /\ pc' = "done"
    <3>1. Before(r, cursor) \/ InSlice(r)
      BY <2>2, <2>11, LastPlace
    <3> QED BY <2>1, <2>7, <2>10, <2>11, <3>1
  <2>12. CASE /\ page' = 0 /\ capped' = (capped \/ (~Exhausted /\ ~HasEnough))
              /\ ~LastSlice /\ pc' = pc /\ cursor' = NextCursor
    <3>1. Before(r, NextCursor) => Before(r, cursor) \/ InSlice(r)
      BY <2>12, NextPlace
    <3>2. ~OnPages(r)'
      BY <2>1, <2>12, FirstPageEmpty
    <3> QED BY <2>1, <2>7, <2>8, <2>10, <2>12, <3>1, <3>2
  <2> QED BY <1>1, <2>9, <2>11, <2>12, RequestCases
<1>2. CASE Fail
  BY <1>2 DEF Fail
<1>3. CASE UNCHANGED vars
  <2>1. UNCHANGED <<profile, query, when, upstream, cursor, page, pc, got, changed, capped>>
    BY <1>3 DEF vars
  <2>2. Held /\ Wanted(r) /\ Reached(r)
    BY <2>1, HeldBefore
  <2>3. (OnPages(r)' <=> OnPages(r)) /\ (Before(r, cursor)' <=> Before(r, cursor))
    BY <2>1, SameSlice, SameCall DEF OnPages
  <2>4. ~(Copies(got) >= query.limit)
    BY <2>1
  <2> QED BY <2>1, <2>2, <2>3, <2>4 DEF LimitMet
<1>4. CASE \E s \in Rows, status \in Statuses : Change(s, status)
  BY <1>4 DEF Change, Held
<1> QED BY <1>1, <1>2, <1>3, <1>4 DEF Next

\* Nothing has been fetched yet.
LEMMA InitLimit == Init => LimitMet /\ RawKept /\ DistinctOnce
<1> SUFFICES ASSUME Init PROVE LimitMet /\ RawKept /\ DistinctOnce
  OBVIOUS
<1>1. TypeOK /\ got = NoCopies
  BY InitTypes DEF Init
<1>2. DistinctOnce
  BY <1>1 DEF DistinctOnce, NoCopies
<1>3. RawKept
  <2>1. NoCopies \in [Rows -> Nat]
    BY DEF NoCopies
  <2> QED BY <1>1, <2>1, CopySetFinite DEF Init, RawKept
<1>4. ASSUME Held, NEW r \in Rows, Wanted(r)
      PROVE  pc = "walking" /\ ~Before(r, cursor) /\ ~OnPages(r)
  <2>1. InWindow(r)
    BY <1>4 DEF Wanted
  <2>2. ~OnPages(r)
    BY <1>1, OncePerSlice DEF Init
  <2> QED BY <2>1, <2>2, FirstCursor DEF Init
<1> QED BY <1>2, <1>3, <1>4 DEF LimitMet

\* A limited call that has its rows, or has missed none, hides none.
LEMMA HidesNothingFollows == TypeOK /\ LimitMet /\ UnlimitedIsComplete => LimitHidesNothing
<1> SUFFICES ASSUME TypeOK, LimitMet, UnlimitedIsComplete,
                    pc = "done", query.limit > 0, Followed, changed = {},
                    StopsOnRawRows =>
                        (StatusSent \/ query.status = {}) /\ Rows \subseteq query.picks
             PROVE  \/ Copies(got) >= query.limit
                    \/ \A r \in Rows : Wanted(r) /\ Reached(r) => got[r] > 0
  BY DEF LimitHidesNothing
<1>1. CASE "summary" \in profile.flags
  BY <1>1 DEF UnlimitedIsComplete, Unlimited, Steady
<1>2. CASE "summary" \notin profile.flags
  BY <1>2 DEF LimitMet, Held
<1> QED BY <1>1, <1>2

\* The invariant of an adapter's call.
LEMMA IndInvHolds == Spec => []IndInv
<1>1. Init => IndInv
  BY InitTypes, InitWalked, InitCounted, InitMissed, TwiceFollows, CompleteFollows, InitLimit
  DEF IndInv
<1>2. IndInv /\ [Next]_vars => IndInv'
  <2> SUFFICES ASSUME IndInv, [Next]_vars PROVE IndInv'
    OBVIOUS
  <2>1. TypeOK' /\ Walked' /\ Counted' /\ NothingMissed'
    BY TypeStep, WalkedStep, CountedStep, MissedStep DEF IndInv
  <2>2. (TypeOK /\ Walked /\ Counted => TwiceOnlyOnSeams)'
    BY TwiceFollows, PTL
  <2>3. (NothingMissed => UnlimitedIsComplete)'
    BY CompleteFollows, PTL
  <2>4. LimitMet' /\ RawKept' /\ DistinctOnce'
    BY LimitStep, RawStep, DistinctStep DEF IndInv
  <2> QED BY <2>1, <2>2, <2>3, <2>4 DEF IndInv
<1> QED BY <1>1, <1>2, PTL DEF Spec

-----------------------------------------------------------------------------
\* Every variable of an adapter's call has its type, and a fetch stays below its cap
\* of pages.
THEOREM TypeCorrect == Spec => []TypeOK
<1>1. IndInv => TypeOK
  BY DEF IndInv
<1> QED BY <1>1, IndInvHolds, PTL

\* Whatever the slices, pages and filters of an adapter, and for any number of rows,
\* a row that stood still is counted twice only where two slices of chunkDateRange
\* meet, and never three times.
THEOREM DoublesOnlyOnSeams == Spec => []TwiceOnlyOnSeams
<1>1. IndInv => TwiceOnlyOnSeams
  BY DEF IndInv
<1> QED BY <1>1, IndInvHolds, PTL

\* A call without a limit that ends returns every row of its window that stood still
\* and matches: no slice boundary, calendar day, short or empty page or count of pages
\* makes an adapter leave one out, outside the cases Followed and Reached exclude.
THEOREM UnlimitedCallsComplete == Spec => []UnlimitedIsComplete
<1>1. IndInv => UnlimitedIsComplete
  BY DEF IndInv
<1> QED BY <1>1, IndInvHolds, PTL

\* A limit only shortens the answer: while the network stands still a limited call
\* is full or misses no matching row its slices reach, whichever way its adapter
\* stops, unless it stops on rows that a filter then drops.
THEOREM LimitsOnlyShorten == Spec => []LimitHidesNothing
<1>1. IndInv => LimitHidesNothing
  BY HidesNothingFollows DEF IndInv
<1> QED BY <1>1, IndInvHolds, PTL
=============================================================================
