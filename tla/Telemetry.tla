------------------------------ MODULE Telemetry ------------------------------
(***************************************************************************)
(* Opt-in telemetry of one installation (src/shared/telemetry.ts) and the  *)
(* backend that ingests it (telemetry-cloudflare/src/index.ts).            *)
(*                                                                         *)
(* Server processes share telemetry.json.  Reading or rewriting it is      *)
(* synchronous, but flushTelemetry reads it, awaits the request, and then  *)
(* writes back the state it had read.  The request may time out on the     *)
(* client while the backend goes on with it.                               *)
(*                                                                         *)
(* Counters are one number per day: network, operation and outcome do not  *)
(* matter here.  The environment override is unset, so the file decides.   *)
(* The installation and the backend agree on the date.                     *)
(***************************************************************************)
EXTENDS Naturals, Sequences

CONSTANTS
    Procs,      \* server processes of the installation
    MonthDays,  \* days in a month
    ReceiptDays, \* how old a receipt's day may be (35)
    MaxDay,     \* bound: the calendar stops here
    MaxCount,   \* the cap of a daily counter (1,000,000)
    MaxCalls,   \* bound: calls recorded a day
    MaxIds      \* bound: monthly ids minted

ASSUME CalendarAssumption == /\ {MonthDays, MaxCount} \subseteq Nat \ {0}
                             /\ {ReceiptDays, MaxDay, MaxCalls, MaxIds} \subseteq Nat

VARIABLES
    today,      \* utcDay()
    file,       \* telemetry.json; a missing file reads like a disabled one
    mintedFor,  \* ghost: mintedFor[id] is the month id was minted for
    flush,      \* flush[p]: the state process p read, while its request is out
    wire,       \* wire[p]: p's request, as far as the backend got with it
    receipts,   \* ingest_receipts: <<day, id>>
    purged,     \* the day the cron last deleted receipts
    usage,      \* usage[<<day, id>>]: what usage_daily got from this id's summary
    recorded,   \* ghost: recorded[day]: calls recorded on that day
    wanted      \* ghost: what the user last asked for

backend == <<receipts, purged, usage>>
telemetryVars == <<today, file, mintedFor, flush, wire, backend, recorded, wanted>>

Days == 0..MaxDay
Ids == 1..MaxIds
Month(day) == day \div MonthDays

NoId == 0
NoDay == MaxDay + 1
Disabled == [consent |-> FALSE, month |-> 0, id |-> NoId, last |-> NoDay,
             pending |-> [day \in Days |-> 0]]
NoFlush == [pc |-> "idle", state |-> Disabled, day |-> NoDay]
NoRequest == [pc |-> "none", day |-> NoDay, id |-> NoId, count |-> 0]

TelemetryInit ==
    /\ today = 0
    /\ file = Disabled
    /\ mintedFor = <<>>
    /\ flush = [p \in Procs |-> NoFlush]
    /\ wire = [p \in Procs |-> NoRequest]
    /\ receipts = {}
    /\ purged = NoDay
    /\ usage = [k \in Days \X Ids |-> 0]
    /\ recorded = [day \in Days |-> 0]
    /\ wanted = FALSE

\* Bug variant of ensureMonthlyId: only a missing id is replaced.
EnsuredOnce(state, day) ==
    IF state.id # NoId THEN state
    ELSE [state EXCEPT !.month = Month(day), !.id = Len(mintedFor) + 1]

\* ensureMonthlyId: a fresh random id on the first use in a month.
Ensured(state, day) ==
    IF state.month = Month(day) /\ state.id # NoId THEN state
    ELSE [state EXCEPT !.month = Month(day), !.id = Len(mintedFor) + 1]

\* The id of state, when it was just drawn.
Mint(state) ==
    /\ state.id <= MaxIds
    /\ mintedFor' = IF state.id > Len(mintedFor) THEN Append(mintedFor, Month(today))
                    ELSE mintedFor

(***************************************************************************)
(* setTelemetryConsent and recordTelemetry                                 *)
(***************************************************************************)
Enable ==
    /\ wanted' = TRUE
    /\ file' = Ensured([file EXCEPT !.consent = TRUE], today)
    /\ Mint(file')
    /\ UNCHANGED <<today, flush, wire, backend, recorded>>

\* The file becomes { consent: false }: id and counters are gone.
Disable ==
    /\ wanted' = FALSE
    /\ file' = Disabled
    /\ UNCHANGED <<today, mintedFor, flush, wire, backend, recorded>>

\* Bug variant of recordTelemetry's counter: no cap.
AddUncapped(count) == count + 1

Add(count) == IF count < MaxCount THEN count + 1 ELSE MaxCount

Record ==
    /\ file.consent
    /\ recorded[today] < MaxCalls
    /\ file' = [Ensured(file, today) EXCEPT !.pending[today] = Add(@)]
    /\ Mint(file')
    /\ recorded' = [recorded EXCEPT ![today] = @ + 1]
    /\ UNCHANGED <<today, flush, wire, backend, wanted>>

(***************************************************************************)
(* flushTelemetry                                                          *)
(***************************************************************************)
Due(state) == {day \in Days : state.pending[day] > 0 /\ day < today /\ day # state.last}

\* No completed day is waiting: the file is rewritten, with this month's id.
FlushNothing(p) ==
    /\ flush[p].pc = "idle"
    /\ file.consent
    /\ Due(file) = {}
    /\ file' = Ensured(file, today)
    /\ Mint(file')
    /\ UNCHANGED <<today, flush, wire, backend, recorded, wanted>>

\* The oldest completed day goes out; the id is only drawn in memory.
FlushSend(p) ==
    LET state == Ensured(file, today)
        day == CHOOSE d \in Due(file) : \A e \in Due(file) : d <= e
    IN
    /\ flush[p].pc = "idle"
    /\ wire[p].pc = "none"
    /\ file.consent
    /\ Due(file) # {}
    /\ Mint(state)
    /\ flush' = [flush EXCEPT ![p] = [pc |-> "sent", state |-> state, day |-> day]]
    /\ wire' = [wire EXCEPT ![p] = [pc |-> "sent", day |-> day, id |-> state.id,
                                     count |-> state.pending[day]]]
    /\ UNCHANGED <<today, file, backend, recorded, wanted>>

\* The 2 s timeout, a network error, or a response that is not ok.
FlushFails(p) ==
    /\ flush[p].pc = "sent"
    /\ flush' = [flush EXCEPT ![p] = NoFlush]
    /\ UNCHANGED <<today, file, mintedFor, wire, backend, recorded, wanted>>

\* The state that was read before the request is written back.
FlushWrites(p) ==
    LET day == flush[p].day IN
    /\ flush[p].pc = "sent"
    /\ wire[p].pc = "accepted"
    /\ file' = [flush[p].state EXCEPT !.last = day, !.pending[day] = 0]
    /\ flush' = [flush EXCEPT ![p] = NoFlush]
    /\ wire' = [wire EXCEPT ![p] = NoRequest]
    /\ UNCHANGED <<today, mintedFor, backend, recorded, wanted>>

(***************************************************************************)
(* ingest, on the backend                                                  *)
(***************************************************************************)
Key(p) == <<wire[p].day, wire[p].id>>

\* Bug variant: every summary is taken, the receipts are not looked at.
ReceiptUnchecked(p) ==
    /\ wire[p].pc = "sent"
    /\ wire' = [wire EXCEPT ![p].pc = "receipted"]
    /\ UNCHANGED <<today, file, mintedFor, flush, backend, recorded, wanted>>

\* INSERT OR IGNORE: the summary of a day and id is taken once.
Receipt(p) ==
    /\ wire[p].pc = "sent"
    /\ receipts' = receipts \cup {Key(p)}
    /\ wire' = [wire EXCEPT ![p].pc = IF Key(p) \in receipts THEN "accepted" ELSE "receipted"]
    /\ UNCHANGED <<today, file, mintedFor, flush, purged, usage, recorded, wanted>>

\* The batch that adds the counters.
AddUsage(p) ==
    /\ wire[p].pc = "receipted"
    /\ usage' = [usage EXCEPT ![Key(p)] = @ + wire[p].count]
    /\ wire' = [wire EXCEPT ![p].pc = "accepted"]
    /\ UNCHANGED <<today, file, mintedFor, flush, receipts, purged, recorded, wanted>>

\* The request is lost on its way, rejected, or the backend dies with it.
Drop(p) ==
    /\ wire[p].pc # "none"
    /\ wire' = [wire EXCEPT ![p] = NoRequest]
    /\ flush' = [flush EXCEPT ![p] = NoFlush]
    /\ UNCHANGED <<today, file, mintedFor, backend, recorded, wanted>>

\* Bug variant of Purge: the receipts of the last day they are needed go too.
PurgeEarly ==
    /\ purged # today
    /\ purged' = today
    /\ receipts' = {k \in receipts : k[1] + ReceiptDays > today}
    /\ receipts' # receipts
    /\ UNCHANGED <<today, file, mintedFor, flush, wire, usage, recorded, wanted>>

\* The daily cron: DELETE ... WHERE day < date('now', '-35 days').  A run that
\* fails before its batch, or finds no such receipt, changes nothing.
Purge ==
    /\ purged # today
    /\ purged' = today
    /\ receipts' = {k \in receipts : k[1] + ReceiptDays >= today}
    /\ receipts' # receipts
    /\ UNCHANGED <<today, file, mintedFor, flush, wire, usage, recorded, wanted>>

NextDay ==
    /\ today < MaxDay
    /\ today' = today + 1
    /\ UNCHANGED <<file, mintedFor, flush, wire, backend, recorded, wanted>>

Flush(p) == FlushNothing(p) \/ FlushSend(p) \/ FlushFails(p) \/ FlushWrites(p)
Ingest(p) == Receipt(p) \/ AddUsage(p) \/ Drop(p)

TelemetryNext ==
    \/ Enable \/ Disable \/ Record \/ Purge \/ NextDay
    \/ \E p \in Procs : Flush(p) \/ Ingest(p)

TelemetrySpec == TelemetryInit /\ [][TelemetryNext]_telemetryVars

-----------------------------------------------------------------------------
(***************************************************************************)
(* Properties                                                              *)
(***************************************************************************)
States == [consent : BOOLEAN, month : Nat, id : Ids \cup {NoId}, last : Days \cup {NoDay},
           pending : [Days -> 0..MaxCount]]

\* Every variable has its type.
TelemetryTypeOK ==
    /\ today \in Days
    /\ file \in States
    /\ mintedFor \in Seq(Nat)
    /\ flush \in [Procs -> [pc : {"idle", "sent"}, state : States, day : Days \cup {NoDay}]]
    /\ wire \in [Procs -> [pc : {"none", "sent", "receipted", "accepted"},
                            day : Days \cup {NoDay}, id : Ids \cup {NoId}, count : 0..MaxCount]]
    /\ receipts \subseteq Days \X Ids
    /\ purged \in Days \cup {NoDay}
    /\ usage \in [Days \X Ids -> Nat]
    /\ recorded \in [Days -> 0..MaxCalls]
    /\ wanted \in BOOLEAN

\* Timeouts, retries and overlapping processes never make the backend count a
\* day twice under one id, nor more calls than were recorded, as long as the
\* receipts of that day are kept.  An older day that is still pending is taken
\* again by every flush that follows a purge.
UsageNeverInflated ==
    \A day \in Days, id \in Ids :
        usage[<<day, id>>] <= recorded[day] \/ today > day + ReceiptDays

\* "A random identifier resets monthly": whatever state a late flush wrote back,
\* no request leaves with an id of another month than the one it is sent in.
IdResetsMonthly ==
    [][\A p \in Procs : wire[p].pc = "none" /\ wire'[p].pc = "sent" =>
           mintedFor'[wire'[p].id] = Month(today)]_telemetryVars

\* "You can disable this anytime", "Disabling immediately deletes the local
\* monthly identifier and pending counters": consent is on only if the user's last
\* word was yes.
ConsentFollowsUser == file.consent => wanted
=============================================================================
