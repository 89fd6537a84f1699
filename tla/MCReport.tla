------------------------------ MODULE MCReport ------------------------------
(***************************************************************************)
(* Three rows and every adapter.  Days are two ticks and slices two days,  *)
(* so the windows below start and end inside a day, are cut once or twice, *)
(* and end within a day of a slice or on its end.  A row may lie before    *)
(* the window on its first day, where two slices meet, or on the next day. *)
(***************************************************************************)
EXTENDS Report, Earnings, Programmes, Partners, Clicks

MCRows == 1..3
Query(to, limit, status) ==
    [from |-> 1, to |-> to, limit |-> limit, status |-> status, picks |-> MCRows]
CallsOf(profiles, queries) == [profile : profiles, query : queries]

\* The last two ask for rows of an age: the oldest row is not.
MCReports ==
    {Query(6, 0, {}), Query(9, 0, {}), Query(6, 2, {})}
        \cup {Query(6, limit, {status}) : limit \in {0, 2}, status \in Both}
        \cup {[Query(6, limit, {}) EXCEPT !.picks = MCRows \ {1}] : limit \in {0, 2}}
MCProgrammes ==
    {Query(6, limit, status) : limit \in {0, 2}, status \in {{}, {"pending"}, {"approved"}}}

MCActivity == {Query(6, 0, {}), Query(9, 0, {}), Query(6, 2, {})}

\* A summary is asked with a limit, which it drops.
MCCalls ==
    CallsOf(Adapters, MCReports)
        \cup CallsOf(Summaries, {Query(6, 2, {})})
        \cup CallsOf(Catalogues \cup Rosters, MCProgrammes)
        \cup CallsOf(Performances \cup ClickReports, MCActivity)
=============================================================================
