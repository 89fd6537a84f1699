# affiliatemcp: specifications, checks and proofs

TLA+ models of the parts of affiliatemcp in which the order of events matters,
TLC configurations that check them on small instances, and TLAPS proofs of their
main invariants. Paths are relative to the repository.

## 1. The system

affiliatemcp gives an assistant access to affiliate networks. It runs locally (a
stdio MCP server, a CLI, a desktop shell) and hosted: a Cloudflare Worker for
accounts, billing and credentials (`hosted/`), and a transport that serves MCP
calls (`src/hosted-transport/`). Two more backends stand beside it: telemetry
(`telemetry-cloudflare/`) and the licence issuer (`issuer/`).

Two execution models matter.

* **Node processes** run one callback at a time, so code between two awaits is one
  step. What races is what an await separates, and separate processes that share a
  file under the config directory.
* **Workers on KV** have no lock and no transaction. Every `kv.get`, `kv.put` and
  `kv.delete` is an await; other invocations run there, and an invocation may die
  there.

### Inventory

| component | state | operations | what is hard | what makes it correct |
|---|---|---|---|---|
| Resilience (`src/shared/resilience.ts`) | a breaker per `network:operation`: counter, `openedAt` | `withResilience`: attempt, timeout, backoff, open, half-open, close | overlapping calls on one breaker | counter and circuit agree; a bounded number of retries gets past an open circuit; the cooldown ends; calls return |
| Meter (`hosted/src/meter.ts`) | `meter:<user>`: window starts | `consumeFreeWindow` | lock-free read-modify-write; windows that age out; KV expiry | no unjustified refusal, no double charge, no extra window but by a race |
| OAuth server (`hosted/src/oauth.ts`, `routes/oauth.ts`) | pending requests, handoffs, codes, refresh tokens | `/authorize`, consent page and form, `/token` | get-then-delete of single-use keys; retries; crashes | tokens only for an approved request and its own client; no more pairs than overlapping requests |
| Billing (`hosted/src/billing.ts`, `routes/billing.ts`) | `sub:`, `stripe-sub:` and `evt:` keys | Stripe webhook, checkout, portal, entitlement, meter | events out of order, duplicated, concurrent; crash before the marker | the record says what Stripe said; a marker means handled |
| Account routes (`hosted/src/routes/account.ts`) | the keys of the other parts | export, delete | webhooks and digest during a deletion | complete, and final |
| Scheduled digest (`hosted/src/digest.ts`) | none (a roster in memory) | list, re-read, compose, send | the roster is stale | only entitled, existing users |
| Credential vault (`hosted/src/vault.ts`) | wrapped data key and blobs per user | put, get, delete one, delete all, rotate the master key | first stores that race; deletion or store during a rotation; interrupted walks | what is stored can be read; a deletion leaves nothing; the old secret can be dropped after a rotation |
| Accounts (`hosted/src/index.ts`, `auth-link.ts`, `routes/account.ts`) | counters, pending links, users, the index from addresses | request link, callback, `getOrCreateUser`, delete | two first sign-ins, or a sign-in and a deletion, of one address | one account per address; a deletion leaves nothing; a bounded overshoot of the limiter |
| Hosted transport (`src/hosted-transport/`) | rate-limit buckets, audit lines | the pipeline's gates in order | credentials that change between the gates and the request | a call uses its own user's credentials |
| Token caches (`src/networks/rakuten/auth.ts` and its like) | a token and a refresh in flight per identity | get, refresh, 401 retry, reset | refreshes that overlap, settle late or fail at once | callers share a refresh of their own; no token reaches another user |
| Network adapters (`src/networks/`) | none | six listing operations: slices, pages, filters, limits | 86 adapters, each with its own arithmetic, over a report that moves while it is read | every row of the window once; a limit only shortens |
| Telemetry (`src/shared/telemetry.ts`, `telemetry-cloudflare/`) | `telemetry.json`; receipts and usage on the backend | consent, record, flush; ingest, deletion of old receipts | timeouts, retries, processes sharing a file, month ends | never counted twice under one id; ids last a month; consent is respected |
| Cache (`src/shared/cache.ts`) | one file per entry | get, set, clear, stats | a fetch that ends after `clearCache` | no stale answer beyond its TTL |
| Update check (`src/shared/update-check.ts`, `src/cli/update.ts`) | `update-check.json` | check, enable, disable, silent and explicit update | a state read before a fetch and written after it, by several processes | the user's setting wins; nothing is installed early |
| Brand store (`src/shared/brand*.ts`) | JSON files | register, merge, resolve | processes that share the files | no brand is lost |
| Brand data (`src/brand-data/`) | local snapshots | pull, query, caps, windows | a pull that stops halfway | complete or absent; window arithmetic |
| Licence (`src/core/entitlement.ts`, the account screen in `desktop/renderer/app.js`, `issuer/`) | `entitlement.json`; account and event keys in KV | subscribe, check, sign out; checkout, webhook, issue | a refresh that ends after a sign-out; events out of order; a token that outlives its record | premium ends within a token's life; the file holds what the user last settled on |
| CLI, desktop shell, tool generator, pages | little or none | prompts, HTML, dispatch | - | - |

Interactions: the sign-in callback feeds the OAuth flow (`handleCallback` stores a
handoff); account deletion and the digest use the subscription record the webhook
writes; the pipeline calls the meter and the vault over HTTP, and its calls share the
adapters' token caches and breakers; rotation walks over keys that live requests write.

## 2. Plan

Done, in this order: Resilience, Meter, Authorization and OAuth, Subscription,
Telemetry, Vault; proofs about Resilience, Meter and Vault; Networks and Report,
TokenCache and Pipeline, Accounts; Earnings and Programmes, Licence, UpdateCheck,
Partners and Clicks; proofs about OAuth (with its refinement), Pipeline on TokenCache,
Licence, Subscription and Accounts, the leak bound of Resilience and the quota of Meter;
proofs about Telemetry, UpdateCheck and Report.

| next | models | composes | why |
|---|---|---|---|
| Cache | `withCache`, `clearCache` and the tools' key and page arithmetic | Report | whose answers a page is cut from, and for how long |
| Accounts with OAuth | refresh tokens that outlive the account | Accounts, OAuth | what a deleted user can still do |

Abstract specifications worth stating next: an account store with atomic
operations, and a settings register that Telemetry, Licence and UpdateCheck
implement up to their lost updates.

## 3. The modules

Bug variants of some definitions stand beside the real ones. They are never part
of `Next`; each is a plausible slip, kept to show that a property notices it.
Variables marked *ghost* record history for the properties and guard no action.
Telemetry, Vault and UpdateCheck share a proof module with other components, so their
`Init`, `Next`, `Spec`, `TypeOK` and `vars` carry the component's name (`TelemetrySpec`).

### Resilience

One breaker key. `failures` is `consecutiveFailures`; `openFor` is the age of
`openedAt`, or `Null`. A call is idle, attempting or sleeping. `FailFast`, `Enter`
and `HalfOpen` are the entry of `withResilience` (lines 91-118), `Succeed`,
`BackOff` and `GiveUp` the three ways an attempt settles, `Retry` the end of the
backoff. `Errors`, `ClassifyError` and `IsRetryable` keep every class the code
tells apart. Backoff lengths and jitter are left out.

### Meter

`Start` is `Date.now()` before the read, `Get` the read, `Keep` and `Put` the
decision without and with a write. `decideFreeWindow` is the operators `Prune`,
`Inside`, `Full`, `Allowed`, `NextWindows` (`resetAt`, which it also returns, is left
out). `Expire` is the KV TTL. A
list of windows is a set: it is written sorted and its entries are distinct.
`Latency` bounds how old a request gets, and `WeeklyQuota` is stated with it. `opened` and
`raced` are ghosts: the windows opened so far, and those of them that were stored while another request
was between its read and its end.

### Authorization and OAuth

`Authorization` is the promise: a user approves a request, and only then may the
owner of that request be given tokens of that user. `OAuth` models the four kinds
of keys. Every handler gets a key, deletes it, then works (`Get`, `Delete`, and
`ShowConsent`, `Approve`, `Deny`, `TokenFromAuthCode`, `TokenFromRefresh` and
their refusals). `Lapse` is the TTL: a key may lapse between read and use. A code
exchange is tried with every client, redirect URI and verifier. Records never
change while stored, so each kind is a sequence and `present` says what KV holds.
`Authorizes` is the refinement; it maps `asked` to `DOMAIN asked` and keeps the
other two variables, and `granted` names the request whose *verifier* was shown.

### Subscription

One user with several Stripe subscriptions. `Completed`, `Updated` and `Deleted`
are Stripe (external): an event is deliverable, in any order, from when it is
emitted until its marker is stored. The webhook is `Receive`, then
`PutCheckout` and `PutReverseIndex`, or `LookUp` (a user found
through the reverse index), `GetExisting` and `PutUpdate`, or
`Ignore`, then `Mark`; `Swallow` is the handler's catch, `Crash` a death at an
await. `DeletionReads`, `DeletionUnindexes`, `DeletionEnds` are
`deleteSubscription`; `Roster`, `Compose`, `Skip`, `ComposeFails`, `Send`, `Sent` are the digest for this
user: `Compose` is the re-read of the record, after which composing is under way, and
`Send` the email, for which nothing is read again. `digests` counts the rosters the user was put on,
which the bound needs. A checkout made elsewhere carries no tier of ours (`TierOf` is `"none"`), so
its events are ignored; a checkout may come without an email. `orderly` and `disturbed` are
ghosts. Webhooks, deletion and digest overlap in one run.

### Telemetry

One `telemetry.json` and several processes. `FlushSend` reads the file, draws the
month's id in memory and sends; `FlushWrites` writes that same state back;
`FlushFails` is the timeout, after which the request may still reach the backend
(`wire`). `Receipt` and `AddUsage` are the two database steps of `ingest`; `Purge` is the daily
cron, which deletes receipts of days more than `ReceiptDays` (35) old, while a summary of any day is taken. Counters are one number
a day. A process has one request on its way at a time.

### Vault

`GenerateKey` or `UnwrapKey`, `StoreKey`, `StoreBlob` are `putCredentials`;
`ListUser`, `DeleteBlob`, `DeleteKey` are `deleteUser`; `ListKeys`, `ReadKey`,
`WriteKey`, `EndWalk`, `InterruptWalk` are `rotateMasterKey`; `Deploy` is the
operator's change of secret. Encryption is perfect: a blob is the number of its
data key. `GetCredentials` has the code's outcomes in the code's order; its two
reads are one. A rotation starts after the new secret is deployed, as the
procedure says, while old invocations may still run.

### Accounts

`RequestLink` and `MintLink` are the read and the write of the limiter's counter, the
second with the link it leads to; `OpenLink`, `ConsumeLink`, `FindUser`, `MissUser`,
`CreateUser`, `IndexUser` are `handleCallback`; `ReadAccount`, `Unindex`,
`DeleteRecord`, `EmptyVault`, `DropBilling` are `handleDeleteAccount`. A session is
checked by its signature alone, so `sessions` only grows, and `StoreCredentials` works
for a user who is gone, as the route does. `overlaps`, `racing`, `late` and `erased` are
ghosts. `DropBilling` is `deleteSubscription`, which Subscription models in detail, and
`EmptyVault` is `deleteUser`, which Vault does.

### TokenCache and Pipeline

`Pipeline` is `executeHostedToolCall`: `Entitlement`, `Meter`, the rate limit (`Admit`),
`NetworkCap`, `Overlay`, one step per await, each with the answers of the service behind
it, among them that it fails. `Connect` is the user in another window. What is dispatched
goes to `TokenCache`, the Rakuten adapter's tokens and refreshes in flight, which all calls of
the process share. An exchange of credentials for a token has a number, and a promise and
its token go by that number. `RefreshToken` keeps a quirk of the source: without credentials
the refresh throws before its first await, and the entry is stored after the
`finally` block that should remove it. `VerifyAuth` forgets every identity's
tokens; `Unauthorised` is the one retry after a 401. Of the networks the hosted connector
offers Rakuten is the one that keeps a token between calls; the others that cache one
(TradeDoubler, Admitad and so on) run locally, with a single identity.

### Networks, Earnings, Programmes, Partners, Clicks and Report

Every adapter fetches its reports in the same way with different parameters. It cuts the
window into slices, asks for each page by page, drops what the filters refuse,
and cuts the rest at the limit. `Networks` states the parameters of each adapter's
`listTransactions` as a profile, in the words its header defines; `Earnings` those of
`getEarningsSummary`, which adds the rows up and drops the caller's limit, and
`Programmes` those of `listProgrammes`, whose filter is a relationship (`"approved"` stands
for joined, `"pending"` for every other one) and which has no window. `Partners` has the
advertiser adapters' `listMediaPartners` (no window, `"approved"` for active) and
`getProgrammePerformance` (`RolledUp`: rows added up without the limit, and no status),
`Clicks` the `listClicks` of the ten adapters that have one. A profile's `sent` are the statuses the adapter sends upstream when a caller asks for one alone, and
`narrow` those it sends as fewer of the network's own statuses than it maps to them; in the
model such a network has one more status (`"claim"`, `"locked"`), which the upstream does not answer. A
query's `picks` are the rows the caller's age and programme filters let through; where an adapter ignores
such a filter (impact-advertiser the age) its queries are those with every row. `Reading` is the time of a row as the
upstream reads the window's times: `Ahead` later for awin, which sends a UTC clock as London's.
`Report` is the engine. `Request` is one upstream request
with what the loop around it then does, `Fail` an error that reaches the caller, `Change` the
network: a row arrives, or its status changes, while the call walks. The upstream lists
rows oldest first and answers a page by position. `OneRequest` stands for a request whose
answer the adapter treats as complete, `FirstPage` for one that names a page and stops
there. Where an adapter's own page loop is a function of its own, the profile has a
second definition for it (`ImpactFetch`).

No profile: coupang-partners, everflow-advertiser, flexoffers, monetizze, skimlinks and
value-commerce where they refuse an operation; amazon-creators, awin-advertiser,
cj-advertiser, digistore24, growsurf, leaddyno, partnero, partnerstack-advertiser, shopmy
and flipkart where the programmes need no upstream list; the search feeds of connexity and
lomadee; and the programmes of partnerize (a request per status), tradedoubler (three times the limit)
and value-commerce-advertiser, whose loops the profiles do not fit. The performance of
value-commerce-advertiser (fifty times the limit) and tradedoubler-advertiser (one
`pending_status`) has none either, nor the polling of an Impact report that is not ready.

### Licence

The desktop app and its issuer. `Open`, `Subscribe`, `CheckNow`, `SignOut` are the buttons
of the account screen, with what the page shows as their guard; `CheckoutEnds` and
`RefreshEnds` are the writes of `startCheckout` and `refreshEntitlement` after their
request, `Refreshed` what the second one stores: the settings it read before. `Checkout`,
`Entitlement` (with `Mint`), `Receive`, `PutRecord`, `Swallow`, `Mark` are the
issuer's handlers. `request` holds both the requests of the app and what they read;
`Lost` is a request or an answer that gets lost. Stripe's events come in any order,
repeatedly, and through overlapping invocations. `standing`, `intended` and
`tangled` are ghosts.

### UpdateCheck

Processes over one `update-check.json`. `Begin` is the start of a server, or of `update` and
`update check`: it reads the file, and the registry is asked (`Serve`) unless the day's answer is
there. `WriteBack` writes what was read before the request with the answer in it;
`FetchFails` falls back on the version read. `Decide` is `applyUpdate` after the
check, which reads the age of the release from the file *again*; `InstallEnds` is npm.
`SetAutoUpdate` is `update enable` and `disable`. A release may be taken back
(`Publish`), and days pass (`TimePasses`). `saved` is the file. `choice`, `reverted`, `known`, `hasty` and a process's `willing` and `mixed` are ghosts.

## 4. What the runs check

| run | bounds | states | shows |
|---|---|---|---|
| `resilience` | 3 calls, 2 retries, threshold 2, cooldown 2 | 4,807 | `OpenIffTripped`: open exactly when the counter is at the threshold. `LeakBounded`: retries past an open circuit are bounded by the retry budgets in flight. `CooldownLifts`, `CallsReturn`: liveness |
| `meter` | 2 requests, N = 2, week 11, window 3, clock to 17 | 2,906,065 | `StoredWindowsApart`, `RefusalsJustified`, `WeeklyQuota`: of windows opened outside a race never more than N in a week |
| `oauth` | 2 invocations, 2 users, 2 clients, 2 requests, 1 handoff, 1 code, 3 token pairs | 375,109 | `PairsBoundedByOverlap`, and the refinement `Authorizes` |
| `subscription` | 2 invocations, 2 subscriptions, a third from a payment link, 3 activities (events, deletions, digests), 1 crash | 5,076,187 | `OrderlySync`, `DeletionIsComplete`, `ComposeRespectsEnding` |
| `telemetry` | 2 processes, 3 days in 2 months, cap 1, 2 calls a day, 2 ids, receipts kept a day | 716,117 | `UsageNeverInflated`, `IdResetsMonthly` |
| `telemetry_consent` | same | - | counterexample, see findings |
| `vault` | 2 invocations, 2 users, 2 networks, 2 data keys, 2 walks | 1,737,393 | `SequentialIsReadable`, `NothingLeft`, `NoOldKeyLeft` |
| `accounts` | 1 address, 2 invocations, limit 1, 3 links, 2 users, 1 crash | 2,325,433 | `LimitOvershootsByRaces`, `OneAccountPerAddress`, `ErasedLeavesNothing` |
| `pipeline` | 3 calls, 2 users, 2 networks, cap 1, 1 version of credentials, 3 exchanges | 1,513,636 | `TokenIsCallers`, `ExchangesShared`, `OnlyMissingCredentialsStick` |
| `report` | 83 profiles of reports, 72 of summaries, 65 of programme lists, 15 of partners, 20 of performance, 10 of clicks; 3 rows at 3 instants, 9 queries, a day of 2 ticks, slices of 4, pages of 1, 2 pages a slice, a zone 1 tick ahead, 1 change | 3,162,496 | `UnlimitedIsComplete`, `TwiceOnlyOnSeams`, `LimitHidesNothing` |
| `licence` | 2 requests, 1 invocation of the webhook, tokens of 2 ticks, 2 checkouts, 2 events, clock to 4 | 1,774,744 | `LocksInTime`, `StoreFollowsUser` |
| `update` | 2 processes, days and soak of 2 ticks, 2 versions, 1 change of the registry, clock to 4 | 3,125,595 | `SilentUpdatesAsAsked` |

**Why the bounds are enough.** Every race named here is between two parties at two
awaits; two overlapping invocations and, where a third party takes part (a call
that finds the circuit open, a rotation, a deletion, a digest), that one as well,
produce each of them. Retries, threshold and cooldown above one separate "the
last" from "the only" one. The meter's clock passes a week and a half, so a
window ages out while a newer one is stored. Two clients and two users let a
credential reach the wrong one. Two subscriptions and three events give a
checkout, a change and a late event of another subscription. Three days cross a
month end, and with receipts kept for one day the third deletes those of the first; a cap of one and two calls a day reach the cap. Two data keys let a
deleted user connect again; a second walk is the documented re-run. One address is
enough for Accounts, whose keys are all per address or per user; two users are two
accounts that compete for it. Three exchanges are a refresh, its successor, and one that
a reset lets run beside them. A row of the report may lie before the window on its first day,
where two slices meet, or on the next day, which is the last; three rows on pages
of one, with a cap of two, reach the next page, the last one and the cap. In Licence two events are a
checkout and what ends it, the clock passes the life of a token minted before, and two keys are a subscription and
the one that replaces it. In UpdateCheck the clock passes the soak of a release that appears after the
first check, across a change of day. Bounds appear
as guards in the modules and as `bound:` in the comments of their constants.

**Symmetry** is over invocations, processes, users, clients or networks that are
interchangeable, and is not used in the run with liveness properties, nor in Report,
whose rows have an order.

**Deadlock** is checked for Resilience, Meter and Vault. The other modules stop
when the bounds on what may be minted or emitted are used up, so their
configurations switch it off.

**Fairness** is assumed in Resilience alone. An attempt settles, because
`runWithTimeout` races it against a timer (lines 172-197); a backoff sleep is a timer
too; time passes. Nobody is obliged to call, and no outcome of an attempt is
promised. The KV programs promise nothing about progress: an invocation may die.

### Findings

* `telemetry_consent`: a flush that is out while the user disables telemetry
  writes the old state back, with consent on.

Divergences met on the way that have no run of their own:

* `PRIVACY.md:28` says that an installation sends at most one summary for
  each active day. The first flush of a month draws its id in memory and stores it only with a good
  answer; when the backend counted the summary but the answer is late, the next flush sends the same day under
  another id, and it is counted again.
* `hosted/src/digest.ts:193-195` says that a subscription cancelled, or an account deleted,
  mid-run must not be emailed. The record is read again before each type, but `composeDigest` is awaited
  between that read (197) and the email (220): who cancels, or deletes the account, in between still gets that
  digest (`Send` reads nothing again). `ComposeRespectsEnding` says what the re-read does give.
* `src/tools/paging-exclusions.ts:4-14` says that every adapter it
  does not list pulls the complete result when no limit is given. accesstrade reads the
  first 1000 rows of a slice and is not listed, so a caller who pages through such a report
  never sees the rest and is not told. The same holds for the other profiles with `FirstPage`.
* `src/networks/rakuten/auth.ts:105-109` says of the table of refreshes in flight that the others
  await the same promise. A refresh that starts without credentials leaves its rejected
  promise there: every later refresh of that identity is
  answered with it, also when the credentials are there, until `verifyAuth` or a
  restart. `OnlyMissingCredentialsStick` says that nothing else stays.
* `src/core/entitlement.ts:19` says that the app refreshes online on launch. Nothing calls
  `refreshEntitlement` but the button "I've paid - check now", so a paying user who is
  online is locked out when the token expires, until the button is pressed.
* `PRIVACY.md:114-115` says that only a release known for the soak window is installed. Two
  checks at once can leave one release with the age of another
  (`src/shared/update-check.ts:160`, read at 320); `SilentUpdatesAsAsked` says that
  nothing else does.
* A second "subscribe" replaces the account key of a subscription that may be paid for
  (`src/core/entitlement.ts:201`), and the app then has no way to reach the first.
* The issuer handles an update that comes after the deletion (`issuer/src/index.ts:167`): the record is active again.
* `src/shared/cache.ts:94-97` says that the key changes with the credential. The
  prefix is the slug in capitals, hyphens kept, so for affiliate-future, commission-factory,
  involve-asia, optimise-media, value-commerce and the like no variable matches and it never does.
* `listProgrammes` without a relationship returns the joined programmes only on
  accesstrade, awin, cj, tradetracker, adtraction and partnerize, and all of them elsewhere.

* `hosted/src/meter.ts:25-28` says that two racing calls get at most one extra window and that one bonus report is
  the worst case. A call inside a window that is about to end, which finds that an older window has
  aged out, writes its list back without that one; if it is slow, a call after the window's end
  has opened the next one meanwhile, and the write drops it. The same can
  happen when the next old window ages out. With N = 3, a week of 15 and windows of 3, opened at
  0, 6 and 14, calls at 16 and 22 that write late lose the windows of 17 and 23 in this way, and
  14, 17, 20, 23 and 26 are five separate windows within one week. With two windows a week nothing is left to age
  out for a second race.
* `hosted/src/meter.ts:115-117` says a call inside an open window and a refused call are
  read-only. Both write when an older window has aged out, and such a write rests on a
  stale read.
* `hosted/src/oauth.ts:348-352`: codes are single use, but two overlapping exchanges of one
  code both read it before either deletes it. `PairsBoundedByOverlap` says what holds.
* `hosted/src/routes/account.ts:18-19`: a checkout event delivered after an account
  deletion writes a new active record, and the digest composes for it.
* The backend forgets receipts of days more than 35 days old
  (`telemetry-cloudflare/src/index.ts:170`) and takes summaries of any day. A day that is still pending by then,
  because its answer was late each time, is counted again under its own id by every flush that follows a purge. That takes
  an installation whose every flush of five weeks failed after the backend had counted the day;
  `UsageNeverInflated` speaks of days whose receipts are kept.
* `hosted/README.md:487` asks to confirm `skipped: 0` on a re-run of the rotation; keys
  already rotated are counted as skipped. `NoOldKeyLeft` says what a finished walk
  does guarantee.
* These adapters send a status upstream as fewer of the network's own statuses than they map to
  it, so a report filtered by that one status misses rows an unfiltered report labels with it: flipkart,
  daisycon and daisycon-advertiser for pending and for others; adtraction and adtraction-advertiser
  for pending; 2performant, commission-factory, ehub, flexoffers, impact-advertiser,
  indoleads, skimlinks and travelpayouts for others (flipkart sends
  `pending` and maps `tentative` to it as well, `src/networks/flipkart/adapter.ts:215-246`;
  daisycon sends `open` and maps `pending` as well, `src/networks/daisycon/adapter.ts:204`, `:241`). Of programme lists accesstrade's, of
  partner lists everflow-advertiser's does so: a filter on inactive ones
  leaves out those that are suspended (`src/networks/everflow-advertiser/adapter.ts:311`, `:905`). In some
  of these the further statuses are spellings the network may never use; the code does not say.
* awin sends its window as a UTC clock reading with `timezone=Europe/London`
  (`src/networks/awin/adapter.ts:770`, `:1278-1280`). In summer London is an hour ahead, so what is asked for is the window an hour earlier: its last
  hour is missed, and the hour before it comes instead. The comment there (766-769) wants the dashboard's
  numbers, which windows of whole London days would give, so it is listed here and not as a finding.

### What the properties do not promise

`WeeklyQuota` does not count windows opened in a race; with them a week can hold more than
N + 1 (see the divergences).
`SequentialIsReadable` and `NothingLeft` hold for users none of whose stores and
deletions overlapped each other, or a deletion a re-wrapping; inside such an overlap credentials can be lost or
left behind. `OrderlySync` needs events one after the other and no swallowed
error; otherwise the record can be left behind Stripe. `UsageNeverInflated` is per
id, and only for days whose receipts are kept.
`RefusalsJustified` is about the refusal and not about the `resetAt` that goes with it.
`Authorizes` says that nothing is granted without approval; a consent page
shown for a request that is gone would not break it. `SequentialIsReadable` is about a Worker that holds the master
key the data key is wrapped under, so it never meets `provider_mismatch`, which a Worker on the other side of a
deployment gets; `NoOldKeyLeft` says when no Worker with the new key does.
Lost counters, and a circuit that a late success closes before its cooldown is
over, are allowed by the code and by the models.

`OneAccountPerAddress` allows a stray account for a crash, and for two sign-ins or two deletions of
one address that overlap: these do happen. `ErasedLeavesNothing` excuses what
is stored in the vault during or after a deletion, with a session that outlives the
account. `ExchangesShared` allows one more exchange for each `verifyAuth`.
`ComposeRespectsEnding` needs events in order, like `OrderlySync`, and a deletion no webhook ran into, and
says nothing of an ending that comes while a digest is being composed: that one is still emailed (see the divergences).
`LocksInTime` goes by the event the webhook stored last, which need not be the one Stripe sent last. `StoreFollowsUser`
excuses a refresh that was out when the user signed out or subscribed, and
`SilentUpdatesAsAsked` a check that was out when the setting changed, or during which another process
wrote the file: these races happen.
The properties of Report excuse adapters that read a first page only, slices left at the
page cap, the narrow status filters above, the last day of a webgains
window (its walk leaves a day between slices), the last hour of an awin one, and rows on the seam of two slices, which the adapters
that use `chunkDateRange` return twice. A fetch of several pages is held to a network
that stands still: positions move when it does not.
`LimitHidesNothing` excuses an adapter that stops at the limit before it has applied a status, age or programme
filter the upstream does not apply. It counts rows as the answer does: a row of a seam that comes twice, or one of a whole day outside the
window, uses up the limit too.

Further hazards of this code that no property covers: a cached answer stored after
`clearCache` (`src/shared/cache.ts:206`); a refresh token lost by a crash between its
deletion and its successor (`hosted/src/oauth.ts:392`); a temporary file that two
processes share (`src/shared/telemetry.ts:283`); a telemetry receipt stored before a batch
that fails (`telemetry-cloudflare/src/index.ts:48`); a start counted during a flush and
lost by its write-back (`src/server.ts:98`); a Solo network cap that holds at the call but
not where networks are connected; the pages of one answer cut out of different fetches
(`src/tools/generate.ts:470-487`); breakers keyed by network and operation alone, so
that in the hosted transport one user's failures open the circuit for all.

## 5. What is proved

TLAPS proves these for every value of the constants that meets the named
assumptions; the runs above show the same formulas on an instance.

| module | theorem | says | assumptions |
|---|---|---|---|
| SharedProofs: Resilience | `BreakerTypes`, `BreakerAgrees`, `LeakStaysBounded`, `FailuresStayBounded` | `TypeOK`, `OpenIffTripped`, `LeakBounded`, `FailuresBounded` | `CallsAssumption`: finitely many calls, and some; `ConfigAssumption` |
| SharedProofs: Telemetry | `TelemetryTypes`, `UsageIsGenuine`, `IdsLastAMonth` | `TelemetryTypeOK`, `UsageNeverInflated`, the action property `IdResetsMonthly` | `CalendarAssumption` |
| SharedProofs: UpdateCheck | `UpdateTypes`, `SilentUpdatesHold` | `UpdateTypeOK`, `SilentUpdatesAsAsked` | `BoundsAssumption` |
| KvProofs: Meter | `MeterTypes`, `ChargedOnce`, `RefusalsAreJustified`, `QuotaHoldsOutsideRaces` | `TypeOK`, `StoredWindowsApart`, `RefusalsJustified`, `WeeklyQuota` | finitely many requests; `KnobsAssumption` |
| KvProofs: Vault | `VaultTypes`, `SequentialStoresSuffice`, `DeletionLeavesNothing`, `OldSecretCanGo` | `VaultTypeOK`, `SequentialIsReadable`, `NothingLeft`, `NoOldKeyLeft` | `BoundsAssumption`, `UsersAssumption` |
| ReportProofs | `TypeCorrect`, `DoublesOnlyOnSeams`, `UnlimitedCallsComplete`, `LimitsOnlyShorten` | `TypeOK`, `TwiceOnlyOnSeams`, `UnlimitedIsComplete`, `LimitHidesNothing` | `RowsAssumption`, `SizesAssumption`, `InstantsAssumption`, `CallsAssumption` |
| OAuthProofs | `TypeCorrect`, `PairsBounded`, `TokensOnlyWhereApproved` | `TypeOK`, `PairsBoundedByOverlap`, the refinement `Authorizes` | finitely many invocations; `RegisteredAssumption`, `BoundsAssumption` |
| PipelineProofs | `TypeCorrect`, `NoTokenCrosses`, `OneExchangePerReset`, `OnlyUnsentRefreshesStick` | `TypeOK`, `TokenIsCallers`, `ExchangesShared`, `OnlyMissingCredentialsStick` | `NetworksAssumption`, `CapAssumption`, `TokenBoundsAssumption` |
| SubscriptionProofs | `TypeCorrect`, `RecordFollowsEvents`, `DeletionLeavesNothing`, `DigestEndsWithEntitlement` | `TypeOK`, `OrderlySync`, `DeletionIsComplete`, the action property `ComposeRespectsEnding` | `TierAssumption`, `TaggedAssumption`, `BoundsAssumption` |
| LicenceProofs | `TypeCorrect`, `PremiumEndsInTime`, `FileFollowsUser` | `TypeOK`, `LocksInTime`, `StoreFollowsUser` | `BoundsAssumption` |
| AccountsProofs | `TypeCorrect`, `LimiterOvershootsByRaces`, `AddressesKeepOneAccount`, `DeletionErases` | `TypeOK`, `LimitOvershootsByRaces`, `OneAccountPerAddress`, `ErasedLeavesNothing` | finitely many invocations; `LimitAssumption`, `AccountBoundsAssumption` |

The assumptions give the types of the constants, and that what runs at one time is finite. The bounds that
let TLC end (clocks, numbers of keys, events and crashes) are any natural numbers. Each
module has the same order: the inductive invariant, lemmas that say
what kinds of change a step can make to a variable, a lemma for each part of the invariant, and
the theorems. TLC has checked every inductive invariant on the run of its module.
SharedProofs and KvProofs extend several components that have no variable in common: each
theorem there is about one of them and uses nothing of the others.

`CallsAssumption` of Report types the profiles and the queries, and says two things more: a window that is cut is one the upstream
is asked for, by whole days where it is cut into days, and a fetch that stops on the rows as they
come back drops none of them but for its status and the caller's age and programme filters. The adapters' profiles are given to the run, so TLC evaluates
the assumption for every one of them.

* **Resilience.** The invariant adds two facts to the three properties. `RetryBudget`: a
  sleeping call has an attempt left, which the type of `attempt` needs.
  `InFlightBudget`: once the counter has reached the threshold, counter plus calls in flight
  is at most the threshold plus all calls but one. Every give-up moves one from
  the second term to the first, no call enters while the circuit is open, and the
  call that tripped it is no longer in flight; `FailuresBounded` alone is not
  inductive. Cardinality facts come from `FiniteSetTheorems`.
  `LeakBounded` counts retries of calls that others may still make, so `LeakBudget` adds to it
  what is left: `leaked` and all attempts left to calls in flight are within
  the budget. The sum is the size of a set of pairs (call, attempt left), which loses at least one pair for every
  retry. With no calls at all the bound would be negative, hence the assumption that there are some.
* **Meter.** A stored list is one that a request computed from a list it read; so the
  invariant says the same of stored and of read lists: windows apart, at most N,
  every one of them really opened. A refusal then has N witnesses in `opened`. Lists are
  finite, which the cardinality arguments need. For the quota, `QuotaKept` says that the store, and every
  list a request has read and not yet used, has each window opened outside a race, or a week has
  passed since: while such a window was stored nobody held an older list, and KV does not drop
  the key before its windows have aged out. A new window then joins a list of at most N that holds all others of its week.
* **Vault.** The three properties hold of a user as long as no two operations on
  that user overlapped. `UserOK` says what the worker of such a user knows: a minting one that
  there is no key, a storing one that its data key is the stored one, a deleting
  one that every blob left is on its list, a re-wrap that the key it read is the
  stored one. `SweepOK` says that a clean walk still has every old key on its
  list. The lemma for a step takes one user at a time and shows that another
  user's step leaves it alone.

* **OAuth.** `PairsBoundedByOverlap` counts pairs minted from a key plus invocations that
  hold it. A new holder needs the key in the store, so `SpentFirst` says that the key is gone before the
  first pair and never comes back: from then on the sum cannot grow, since an invocation mints one pair and lets
  go. The refinement needs `ApprovedOnly` (codes and tokens carry approved pairs of user and
  request) and `FormsSigned`; each handler is then one step of `Authorization` or none.
* **Pipeline.** `TokensOwned` follows an exchange along every way a token can take to a call:
  the cache, the table of refreshes in flight, a promise waited for, the token in hand. All four name an exchange of
  the same user, and every step of the token cache copies one into another.
  `RunningCounted` is `ExchangesShared` with the exchange in the table told apart from the
  forgotten ones: a reset turns the first into one of the second, and pays for it.
* **Telemetry.** `NothingInvented`: neither the file, nor a copy of it that a flush holds, nor a request on the wire counts
a call that was not recorded. `ReceiptFirst` and `OwedOnce`: counters come after the receipt, and a request whose receipt was
new is the only one that still owes its counters, so they are added once per id and day; both speak of days whose receipts
no purge can have deleted yet. `MonthsKept` ties the id in the
file, and in a flush's copy, to the month it was minted for, and gives the action property.
The day a flush sends is the oldest one pending, which exists by a least-element lemma.
* **UpdateCheck.** `WordKept`: where silent updates are on, in the file or in what a process read, the user chose
so or a check that was out when the setting changed brought it back. `AgesKnown`: a file, or a copy, that names a version gives it no age
greater than the time since a check first heard of it. `FileStill`: unless another process wrote in the meantime, a process
decides on the version and age that are in the file. A decision reads the setting before the check and the age after it, so all three are needed.
* **Report.** `Walked` says where the cursor can be. `Counted` bounds the copies of a row by what the slices
before the cursor and the current one may each have counted; only a seam makes that two.
`NothingMissed` says that each row an unlimited call owes is held once its slice, or its page of the
current slice, has been fetched. The place of a row in an answer is the number of rows before it (`Rank`), and the lemmas on it show
that the pages fetched so far are the first ones. For the limit, `LimitMet` says that a call holds enough rows or has missed none so
far; `RawKept`, that a loop which counts rows as they come back has kept all it counted, and `DistinctOnce` are needed for that.
The number of copies held is the size of a set of pairs, so it needs no sum over the rows and no induction over data.
* **Subscription.** `InSync`: while events come one after the other, there is an n such that the
  first n are handled, at most one invocation is at work, on event n + 1, and
  the record reflects event n or already n + 1. A crash leaves n as it is and a redelivery starts n + 1 again;
  the record after either is allowed for. `DeletionSoFar` says how far a deletion that no
  webhook ran into has come, and `IndexFollowsRecord` that the only reverse-index entry there
  can be is the one it reads. The action property follows from the same invariant.
* **Licence.** `TokensInTime` holds of every token there is, in the file, in an answer on its way, and in what a request
  read before it was sent: it is of a key whose last stored event is a paid one, or expires
  within a life of the moment that ended. `RecordsAsHeard` ties the issuer's record, from
  which tokens are minted, to that event. An earlier form excused keys with events out of order; the proof showed that
  no excuse is needed. `RefreshesFollowUser`: an answer that is still to be written is for the user's key, or the
  file is already `tangled`.
* **Accounts.** `Limiter` adds to the requests let through those that have read the counter and not yet written it,
  and bounds the sum by each count that may be written next. `StraysPaid` adds to the stray
  accounts the creations and deletions under way, each of which may still leave one; overlaps and crashes pay for
  them. Two are free: the first creation for an address without an account, and one deletion whose
  own user is still indexed. `Sound` says what a running invocation knows: its link was asked for, its user was created
  for its address, nobody else touches a user who is not yet indexed, and how far a deletion has come.

Model-checked only: liveness (`CooldownLifts`, `CallsReturn`), since fairness is out of
reach of the prover. Every safety invariant and action property of the passing runs is
proved, and the one refinement. `FailuresBounded` is proved only.

## 6. What is not modelled

* **KV's eventual consistency.** Reads see the last write. The races shown here
  need no stale replica; with one there are more.
* **Cryptography**: signatures, AES-GCM, PKCE hashes and random ids are perfect.
* **Clients' registration, metadata documents, checkout, portal, signature
  checks, HTML pages**: request validation without shared state.
* **A listing of more than one page**: `deleteUser` and the rotation are modelled
  with what their loops over all pages see; keys stored while a listing runs
  may be missed by it, as in the models.
* **Torn files**: a JSON file is read or replaced in one step.
* **The rest of the adapters**: single programmes, tracking links, searches and categories, the fields of a row and their parsing. Their state is the token
  caches, which TokenCache models for Rakuten.
* **Response cache, brand store, brand data**: the cache is opt-in, and its hazards are listed above; the
  stores read and write their files without an await in between.
* **The issuer's portal and success page, customer ids and emails.**
* **Rate-limiter buckets and audit lines** of the transport: the limiter may refuse any
  call, and the audit line records what has already happened.
* **CLI, desktop shell, tool generator**: I/O and dispatch without interleaved
  state. They are listed in `PROJECT.json` with the reason.
