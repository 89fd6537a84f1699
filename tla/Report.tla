------------------------------- MODULE Report -------------------------------
(***************************************************************************)
(* One call of a network adapter for transactions, their summary,          *)
(* programmes, media partners, performance or clicks: the caller's window  *)
(* is cut into slices, each slice is fetched page by page, the rows that   *)
(* pass the filters are kept and the first `limit` of them are returned.   *)
(* The network keeps running: rows arrive, and their status changes, while *)
(* the call walks.                                                         *)
(*                                                                         *)
(* The upstream (external) lists its rows oldest first and answers a page  *)
(* by its position in that list.  Time is counted in ticks; a calendar day *)
(* is Day of them.  A failing request fails the call: nothing is returned. *)
(*                                                                         *)
(* "approved" stands for every canonical status but pending.  Where an     *)
(* adapter sends a status as fewer of the network's own statuses than it   *)
(* maps to it, "claim" (pending) and "locked" (approved) are the others.   *)
(***************************************************************************)
EXTENDS Naturals, FiniteSets, Networks

CONSTANTS
    Calls,      \* the calls: an adapter's profile and what its caller asks
    Rows,       \* the rows of the report, in the order the upstream lists them
    Instants,   \* when a row may have happened
    Day,        \* ticks of a calendar day
    Ahead,      \* ticks by which the zone an upstream reads a window in is ahead
    Step,       \* ticks of the longest slice
    PageSize,   \* rows of the largest page
    MaxPages,   \* the adapters' cap on the pages of a slice
    MaxChanges  \* bound: rows that arrive or change during the call

ASSUME RowsAssumption == Rows \subseteq Nat /\ IsFiniteSet(Rows)
ASSUME SizesAssumption ==
    /\ {Day, Step, PageSize, MaxPages} \subseteq Nat \ {0}
    /\ Ahead \in Nat
    /\ Step % Day = 0
ASSUME InstantsAssumption == Instants \subseteq Nat
\* A query has a window, a limit (0: none), statuses ({}: any) and picks: the rows
\* its age and programme filters let through.  A window that is cut is one the
\* upstream is asked for, and by whole days where it is cut into days or between
\* days.  A fetch that stops on the rows as they come back drops none of them but
\* for their status and those filters.
ASSUME CallsAssumption ==
    /\ Calls \subseteq
        [profile : [walk : {"whole", "sliced", "skipping", "daily"},
                    grain : {"day", "instant", "none"},
                    flags : SUBSET {"precedence", "joined", "clock", "client",
                                    "unfiltered", "distinct", "summary"},
                    pages : {"one", "first", "short", "empty", "total"},
                    stops : SUBSET {"sized", "stops", "enough", "single", "uncapped"},
                    sent : SUBSET Both, narrow : SUBSET Both],
         query : [from : Nat, to : Nat, limit : Nat, status : SUBSET Both, picks : SUBSET Nat]]
    /\ \A c \in Calls :
        /\ c.profile.grain = "none" => c.profile.walk = "whole"
        /\ c.profile.walk \in {"skipping", "daily"} => c.profile.grain = "day"
        /\ \/ "stops" \in c.profile.stops
           \/ c.profile.pages = "one" /\ "sized" \in c.profile.stops
           => {"client", "distinct"} \cap c.profile.flags = {}

VARIABLES
    profile,    \* the adapter's profile
    query,      \* the caller's query
    when,       \* when[r]: the tick of row r
    upstream,   \* upstream[r]: the network's own status of row r
    pc,         \* "walking", "done" or "failed"
    cursor,     \* where the next slice starts
    page,       \* pages of the slice already fetched
    raw,        \* rows fetched so far
    got,        \* got[r]: copies of row r that passed the filters
    changed,    \* ghost: rows that arrived or changed during the call
    capped      \* ghost: a slice was left at MaxPages

vars == <<profile, query, when, upstream, pc, cursor, page, raw, got, changed, capped>>

Calendar(t) == t \div Day
NoCopies == [r \in Rows |-> 0]

\* The network's own statuses, and what the adapter normalises them to.
Statuses ==
    Both \cup {status \in {"claim"} : "pending" \in profile.narrow}
         \cup {status \in {"locked"} : "approved" \in profile.narrow}
Canonical(status) ==
    CASE status = "claim" -> "pending" [] status = "locked" -> "approved" [] OTHER -> status

\* Neither the upstream nor the adapter looks at the time of a row.
Timeless == profile.grain = "none" /\ "client" \notin profile.flags

Init ==
    /\ \E call \in Calls : profile = call.profile /\ query = call.query
    /\ IF Timeless
       THEN when = [r \in Rows |-> query.from]
       ELSE when \in {w \in [Rows -> Instants] : \A r, s \in Rows : r < s => w[r] <= w[s]}
    /\ upstream \in [Rows -> Statuses \cup {"absent"}]
    /\ pc = "walking"
    /\ cursor = IF profile.walk = "daily" THEN Day * Calendar(query.from) ELSE query.from
    /\ page = 0
    /\ raw = 0
    /\ got = NoCopies
    /\ changed = {}
    /\ capped = FALSE

-----------------------------------------------------------------------------
(* The slices of the window. *)

Smaller(a, b) == IF a < b THEN a ELSE b

SliceEnd ==
    IF profile.walk = "daily" THEN cursor
    ELSE IF profile.walk = "whole" \/ query.from >= query.to THEN query.to
    ELSE Smaller(cursor + Step, query.to)

\* Bug variant: every walk leaves a day between its slices.
NextCursorDayLater == IF profile.walk = "daily" THEN cursor + Day ELSE SliceEnd + Day

\* Bug variant: a slice starts a day before the last one ended.
NextCursorDayEarlier ==
    IF profile.walk = "sliced" /\ SliceEnd < query.to THEN SliceEnd - Day ELSE query.to

NextCursor ==
    CASE profile.walk = "skipping" -> SliceEnd + Day
      [] profile.walk = "daily" -> cursor + Day
      [] OTHER -> SliceEnd

LastSlice ==
    CASE profile.walk = "daily" -> Calendar(cursor) >= Calendar(query.to)
      [] OTHER -> NextCursor >= query.to

\* The time of a row as the upstream reads the window's times.
Reading(r) == IF "clock" \in profile.flags THEN when[r] + Ahead ELSE when[r]

\* The upstream's comparison of a row with the slice, both ends included.
InSlice(r) ==
    CASE profile.grain = "instant" -> cursor <= Reading(r) /\ Reading(r) <= SliceEnd
      [] profile.grain = "day" -> /\ Calendar(cursor) <= Calendar(Reading(r))
                                  /\ Calendar(Reading(r)) <= Calendar(SliceEnd)
      [] OTHER -> TRUE

-----------------------------------------------------------------------------
(* One request. *)

Wants(status) == query.status = {} \/ status \in query.status
Asked(r) == Wants(Canonical(upstream[r]))

\* The one status a list of several is cut down to.
Foremost == IF "approved" \in query.status THEN {"approved"} ELSE query.status

\* The statuses the upstream is asked for.
Sent ==
    IF "precedence" \in profile.flags /\ query.status # {} THEN Foremost
    ELSE IF "joined" \in profile.flags THEN {"approved"}
    ELSE IF \E status \in profile.sent : query.status = {status} THEN query.status
    ELSE Both

StatusSent == Sent # Both

\* The rows the upstream has for the slice.
Listed ==
    {r \in Rows : /\ upstream[r] # "absent"
                  /\ InSlice(r)
                  /\ Canonical(upstream[r]) \in Sent
                  /\ StatusSent => upstream[r] \in Both}

\* Bug variant: a summary passes the caller's limit on.
LimitKept == query.limit

\* The limit the fetch knows of.
Limit == IF "summary" \in profile.flags THEN 0 ELSE query.limit

PageLength ==
    LET most == IF profile.pages = "one" THEN Cardinality(Rows) ELSE PageSize
    IN  IF "sized" \in profile.stops /\ Limit > 0
        THEN Smaller(Limit, most) ELSE most

\* The rows of the next page.
Fetched ==
    LET listed == Listed
        Position(r) == Cardinality({s \in listed : s < r})
    IN  {r \in listed : /\ page * PageLength <= Position(r)
                        /\ Position(r) < (page + 1) * PageLength}

\* The filters on the rows that come back.
Passes(r) ==
    /\ Asked(r) \/ "unfiltered" \in profile.flags
    /\ r \in query.picks
    /\ "client" \in profile.flags => query.from <= when[r] /\ when[r] <= query.to

Kept ==
    LET fetched == Fetched
    IN  [r \in Rows |->
            IF r \notin fetched \/ ~Passes(r) THEN got[r]
            ELSE IF "distinct" \in profile.flags THEN 1 ELSE got[r] + 1]

\* How many rows come back, the copies of each included.
Copies(g) == Cardinality(UNION {{r} \X (1 .. g[r]) : r \in Rows})

\* Bug variant: a page that is full counts as the last one.
ExhaustedOnFull ==
    CASE profile.pages = "short" -> Cardinality(Fetched) <= PageLength
      [] OTHER -> TRUE

\* The adapter takes the slice to have no further page.
Exhausted ==
    CASE profile.pages = "short" -> Cardinality(Fetched) < PageLength
      [] profile.pages = "empty" -> Fetched = {}
      [] profile.pages = "total" -> (page + 1) * PageLength >= Cardinality(Listed)
      [] OTHER -> TRUE

\* Bug variant: the fetch ends one row early.
HasEnoughTooSoon ==
    /\ Limit > 0
    /\ "stops" \in profile.stops
    /\ raw + Cardinality(Fetched) + 1 >= Limit

\* The fetch ends because of the caller's limit.
HasEnough ==
    /\ Limit > 0
    /\ \/ "stops" \in profile.stops /\ raw + Cardinality(Fetched) >= Limit
       \/ "enough" \in profile.stops /\ Copies(Kept) >= Limit
       \/ "single" \in profile.stops

\* Bug variant: one page more than the cap.
AtCapLate == page >= MaxPages /\ "uncapped" \notin profile.stops

AtCap == page + 1 >= MaxPages /\ "uncapped" \notin profile.stops

NextPage ==
    /\ ~Exhausted /\ ~HasEnough /\ ~AtCap
    /\ page' = page + 1
    /\ UNCHANGED <<cursor, pc, capped>>

NextSlice ==
    /\ Exhausted \/ HasEnough \/ AtCap
    /\ page' = 0
    /\ IF LastSlice
       THEN pc' = "done" /\ UNCHANGED cursor
       ELSE cursor' = NextCursor /\ UNCHANGED pc
    /\ capped' = (capped \/ (~Exhausted /\ ~HasEnough))

Request ==
    /\ pc = "walking"
    /\ got' = Kept
    /\ raw' = raw + Cardinality(Fetched)
    /\ NextPage \/ NextSlice
    /\ UNCHANGED <<profile, query, when, upstream, changed>>

\* A request that fails after its retries fails the call.
Fail ==
    /\ pc = "walking"
    /\ pc' = "failed"
    /\ got' = NoCopies
    /\ raw' = 0
    /\ UNCHANGED <<profile, query, when, upstream, cursor, page, changed, capped>>

\* The network (external): a row arrives or its status changes.
Change(r, status) ==
    /\ pc = "walking"
    /\ upstream[r] # status
    /\ Cardinality(changed) < MaxChanges
    /\ upstream' = [upstream EXCEPT ![r] = status]
    /\ changed' = changed \cup {r}
    /\ UNCHANGED <<profile, query, when, pc, cursor, page, raw, got, capped>>

Next ==
    \/ Request
    \/ Fail
    \/ \E r \in Rows, status \in Statuses : Change(r, status)

Spec == Init /\ [][Next]_vars

-----------------------------------------------------------------------------
(* Properties. *)

TypeOK ==
    /\ [profile |-> profile, query |-> query] \in Calls
    /\ when \in [Rows -> Nat]
    /\ upstream \in [Rows -> Statuses \cup {"absent"}]
    /\ pc \in {"walking", "done", "failed"}
    /\ cursor \in Nat
    /\ page \in Nat
    /\ "uncapped" \in profile.stops \/ page < MaxPages
    /\ raw \in Nat
    /\ got \in [Rows -> Nat]
    /\ changed \subseteq Rows
    /\ capped \in BOOLEAN

InWindow(r) == query.from <= when[r] /\ when[r] <= query.to
Wanted(r) == upstream[r] # "absent" /\ InWindow(r) /\ Asked(r) /\ r \in query.picks

\* Positions in the upstream's list move when a row comes, goes or changes, so a
\* fetch of several pages is only held to a network that stood still.
Steady(r) == changed = {} \/ (profile.pages = "one" /\ r \notin changed)

\* The upstream was not asked for less than the caller meant.
FilterSentInFull ==
    /\ {s \in Both : Wants(s)} \subseteq Sent
    /\ StatusSent => Sent \cap profile.narrow = {}

\* One page stands for the whole answer.
OnePageOnly == profile.pages = "first" \/ ("single" \in profile.stops /\ query.limit > 0)

Followed == ~OnePageOnly /\ ~capped /\ FilterSentInFull

Unlimited == query.limit = 0 \/ "summary" \in profile.flags

\* Row r is one the adapter's slices reach.
Reached(r) ==
    /\ Reading(r) <= query.to
    /\ profile.walk = "skipping" => Calendar(Reading(r)) < Calendar(query.to)

\* A call without a limit, and every earnings summary, is made from every row of
\* the window that stood still and matches, whatever the adapter's slices, pages
\* and filters, unless the adapter reads one page only, hits its page cap, or
\* narrows the status it sends.  The walk of webgains misses rows of the last
\* calendar day of the window, awin in summer those of its last hour (it sends a
\* UTC clock as London's), and no others.
UnlimitedIsComplete ==
    (pc = "done" /\ Unlimited /\ Followed)
        => \A r \in Rows : Wanted(r) /\ Steady(r) /\ Reached(r) => got[r] > 0

\* Row r lies where two slices meet and the upstream answers it for both.
OnSeam(r) ==
    \E t \in query.from .. query.to :
        /\ t > query.from /\ t < query.to /\ (t - query.from) % Step = 0
        /\ IF profile.grain = "day"
           THEN Calendar(Reading(r)) = Calendar(t)
           ELSE Reading(r) = t

\* A row is counted twice only where two slices of chunkDateRange meet, and never
\* three times, while the network stands still.  A summary adds it twice.
TwiceOnlyOnSeams ==
    \A r \in Rows :
        Steady(r) => got[r] <= (IF profile.walk = "sliced" /\ OnSeam(r) THEN 2 ELSE 1)

\* The fetch ends at the limit before a filter the upstream does not apply.
StopsOnRawRows == "stops" \in profile.stops \/ (profile.pages = "one" /\ "sized" \in profile.stops)

\* A limit only shortens the answer: either it is full, or nothing that matches is
\* missing, unless the fetch stops on rows that are filtered later.  The rows of a
\* seam that come twice and those of a whole day count towards the limit, as they
\* do in the code.
LimitHidesNothing ==
    (/\ pc = "done" /\ query.limit > 0
     /\ Followed /\ changed = {}
     /\ StopsOnRawRows => (StatusSent \/ query.status = {}) /\ Rows \subseteq query.picks)
        => \/ Copies(got) >= query.limit
           \/ \A r \in Rows : Wanted(r) /\ Reached(r) => got[r] > 0
=============================================================================
