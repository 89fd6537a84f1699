----------------------------- MODULE UpdateCheck ------------------------------
(***************************************************************************)
(* The update check and the opt-in silent update                           *)
(* (src/shared/update-check.ts, src/cli/update.ts): servers that start,    *)
(* and CLI commands, each its own process, over one update-check.json.     *)
(*                                                                         *)
(* Time is counted in ticks; a UTC day is Day of them.  The package is     *)
(* installed from npm and no environment variable overrides a setting.  On *)
(* other surfaces a start only notifies, like a start with the silent      *)
(* update switched off.                                                    *)
(***************************************************************************)
EXTENDS Naturals, FiniteSets

CONSTANTS
    Processes,      \* processes that may run at once
    Day,            \* ticks of a UTC day
    Soak,           \* minReleaseAgeHours, in ticks
    MaxVersion,     \* bound: versions published
    MaxReleases,    \* bound: times the registry's latest changes
    MaxTime         \* bound: the clock

ASSUME BoundsAssumption ==
    {Day, Soak, MaxVersion, MaxReleases, MaxTime} \subseteq Nat \ {0}

VARIABLES
    now,        \* the clock
    published,  \* the registry's latest (external)
    releases,   \* how often that has changed
    installed,  \* the version a process started now runs
    saved,      \* update-check.json; 0: a field that is not there
    process,    \* the checks that are running
    choice,     \* ghost: the user's last enable or disable
    reverted,   \* ghost: a check was out then, and may write the earlier choice back
    known,      \* ghost: when a check first heard of each version (0: never)
    hasty       \* ghost: silent updates against the choice or ahead of the soak

updateVars == <<now, published, releases, installed, saved, process, choice, reverted, known, hasty>>

Versions == 1 .. MaxVersion
NoState == [day |-> 0, latest |-> 0, seen |-> 0, auto |-> FALSE]
Idle == [pc |-> "idle"]

UpdateInit ==
    /\ now = 1
    /\ published = 1
    /\ releases = 0
    /\ installed = 1
    /\ saved = NoState
    /\ process = [p \in Processes |-> Idle]
    /\ choice = FALSE
    /\ reverted = FALSE
    /\ known = [v \in Versions |-> IF v = installed THEN 1 ELSE 0]
    /\ hasty = FALSE

Today == 1 + now \div Day
Out(p) == process[p].pc \in {"fetching", "served"}

\* Every other process that is at work sees its file change under it.
Disturbed(p) ==
    [q \in Processes |->
        IF q = p \/ process[q].pc \in {"idle", "installing"} THEN process[q]
        ELSE [process[q] EXCEPT !.mixed = TRUE]]

-----------------------------------------------------------------------------
(* checkForUpdate. *)

NeedsFetch(kind) == kind # "start" \/ saved.day # Today \/ saved.latest = 0

\* What follows a check: a start that is not silent only notifies, so does "check".
Installs(kind, silent) == kind = "update" \/ (kind = "start" /\ silent)

\* A process on its way to install a version; willing (ghost) says whether the user
\* wants a silent update, mixed (ghost) whether the file has changed under it.
Deciding(kind, latest, current, willing, mixed) ==
    [pc |-> "deciding", kind |-> kind, latest |-> latest, current |-> current,
     willing |-> willing, mixed |-> mixed]

Willing == choice \/ reverted

\* A process waiting for the registry; read is the file as it was before.
Fetching(kind) ==
    [pc |-> "fetching", kind |-> kind, read |-> saved, current |-> installed, began |-> now,
     latest |-> 0, willing |-> Willing, mixed |-> FALSE]

Begin(p, kind) ==
    /\ process[p] = Idle
    /\ NeedsFetch(kind) \/ Installs(kind, saved.auto)
    /\ process' = [process EXCEPT ![p] =
            IF NeedsFetch(kind) THEN Fetching(kind)
            ELSE Deciding(kind, saved.latest, installed, Willing, FALSE)]
    /\ UNCHANGED <<now, published, releases, installed, saved, choice, reverted, known, hasty>>

\* The registry answers with the version it has at some moment of the request.
Serve(p) ==
    /\ process[p].pc = "fetching"
    /\ process' = [process EXCEPT ![p].pc = "served", ![p].latest = published]
    /\ UNCHANGED <<now, published, releases, installed, saved, choice, reverted, known, hasty>>

\* checkForUpdate returns the version.
Returned(p, latest) ==
    LET this == process[p]
    IN  IF latest # 0 /\ Installs(this.kind, this.read.auto)
        THEN Deciding(this.kind, latest, this.current, this.willing, this.mixed) ELSE Idle

\* Bug variant: the soak clock goes on when a new version appears.
FirstSeenKept(p) ==
    IF process[p].read.seen # 0 THEN process[p].read.seen ELSE process[p].began

\* The soak clock starts again with a version that is not the one last seen.
FirstSeen(p) ==
    IF process[p].latest = process[p].read.latest /\ process[p].read.seen # 0
    THEN process[p].read.seen ELSE process[p].began

\* Bug variant: the check of a day counts for the days after it.
DayOfCheckLate(p) == 2 + process[p].began \div Day

DayOfCheck(p) == 1 + process[p].began \div Day

\* The write after the fetch: what was read before it, with the answer.
WriteBack(p) ==
    /\ process[p].pc = "served"
    /\ saved' = [process[p].read EXCEPT !.day = DayOfCheck(p), !.latest = process[p].latest,
                                        !.seen = FirstSeen(p)]
    /\ process' = [Disturbed(p) EXCEPT ![p] = Returned(p, process[p].latest)]
    /\ known' = [known EXCEPT ![process[p].latest] =
            IF @ = 0 \/ process[p].began < @ THEN process[p].began ELSE @]
    /\ UNCHANGED <<now, published, releases, installed, choice, reverted, hasty>>

\* The fetch fails: the version read before it is used, if there is one.
FetchFails(p) ==
    /\ Out(p)
    /\ process' = [process EXCEPT ![p] = Returned(p, process[p].read.latest)]
    /\ UNCHANGED <<now, published, releases, installed, saved, choice, reverted, known, hasty>>

-----------------------------------------------------------------------------
(* applyUpdate. *)

Soaked == saved.seen # 0 /\ now >= saved.seen + Soak

Decide(p) ==
    /\ process[p].pc = "deciding"
    /\ LET this == process[p]
           goes == this.latest > this.current /\ (this.kind = "update" \/ Soaked)
           asked == this.willing /\ (this.mixed \/ now >= known[this.latest] + Soak)
       IN  /\ process' = [process EXCEPT ![p] =
                IF goes THEN [pc |-> "installing", latest |-> this.latest] ELSE Idle]
           /\ hasty' = (hasty \/ (goes /\ this.kind = "start" /\ ~asked))
    /\ UNCHANGED <<now, published, releases, installed, saved, choice, reverted, known>>

\* npm ends, with the version installed or not.
InstallEnds(p) ==
    /\ process[p].pc = "installing"
    /\ installed' \in {installed, process[p].latest}
    /\ process' = [process EXCEPT ![p] = Idle]
    /\ UNCHANGED <<now, published, releases, saved, choice, reverted, known, hasty>>

-----------------------------------------------------------------------------
(* The user, the registry and the clock. *)

SetAutoUpdate(enabled) ==
    /\ saved.auto # enabled \/ choice # enabled
    /\ saved' = [saved EXCEPT !.auto = enabled]
    /\ choice' = enabled
    /\ reverted' = \E p \in Processes : Out(p)
    /\ UNCHANGED <<now, published, releases, installed, process, known, hasty>>

\* A release, or one that is taken back.
Publish(version) ==
    /\ releases < MaxReleases
    /\ version # published
    /\ published' = version
    /\ releases' = releases + 1
    /\ UNCHANGED <<now, installed, saved, process, choice, reverted, known, hasty>>

TimePasses ==
    /\ now < MaxTime
    /\ now' = now + 1
    /\ UNCHANGED <<published, releases, installed, saved, process, choice, reverted, known, hasty>>

UpdateNext ==
    \/ \E p \in Processes :
        \/ \E kind \in {"start", "check", "update"} : Begin(p, kind)
        \/ Serve(p) \/ WriteBack(p) \/ FetchFails(p) \/ Decide(p) \/ InstallEnds(p)
    \/ \E enabled \in BOOLEAN : SetAutoUpdate(enabled)
    \/ \E version \in Versions : Publish(version)
    \/ TimePasses

UpdateSpec == UpdateInit /\ [][UpdateNext]_updateVars

-----------------------------------------------------------------------------
(* Properties. *)

FileType ==
    [day : 0 .. Today, latest : 0 .. MaxVersion, seen : 0 .. now, auto : BOOLEAN]

UpdateTypeOK ==
    /\ now \in 1 .. MaxTime
    /\ {published, installed} \subseteq Versions
    /\ saved \in FileType
    /\ \A p \in Processes :
        /\ process[p].pc \in {"idle", "fetching", "served", "deciding", "installing"}
        /\ Out(p) => process[p].read \in FileType /\ process[p].began \in 1 .. now
        /\ process[p].pc \in {"deciding", "installing"} => process[p].latest \in Versions
    /\ known \in [Versions -> 0 .. now]
    /\ {choice, reverted, hasty} \subseteq BOOLEAN

\* A server installs a release on its own only if the user's last word at its start
\* was to let it, and no sooner than Soak after a check first heard of that release
\* (PRIVACY.md:114-115).  Two races are excused: the word was given while a check
\* was out, whose write brings the earlier word back (line 160), and another process
\* wrote the file during the check, so that the age read at line 320 may be that of
\* another release.
SilentUpdatesAsAsked == ~hasty
=============================================================================
