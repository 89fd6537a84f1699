------------------------------ MODULE Accounts ------------------------------
(***************************************************************************)
(* Sign-in by magic link and account deletion in the hosted Worker         *)
(* (hosted/src/auth-link.ts, index.ts, routes/account.ts).  Identity is in *)
(* KV HOSTED_USERS: a counter per address (rl:), pending links, a record   *)
(* per user (user:) and an index from address to user (email-hash:).  KV   *)
(* has no transactions; an invocation moves from one await to the next,    *)
(* others run in between, and it may die at any of them.                   *)
(*                                                                         *)
(* A session token is checked by its signature alone, so it outlives the   *)
(* account.  The billing record is modelled in Subscription, the vault in  *)
(* Vault; here a user has something in the vault or nothing.  The counter  *)
(* per IP, and a failing send, only refuse a link.                         *)
(***************************************************************************)
EXTENDS Naturals, Sequences, FiniteSets

CONSTANTS
    Addresses,
    Slots,        \* invocations that may overlap
    MaxPerEmail,  \* RATE_LIMIT_MAX_PER_EMAIL
    MaxLinks,     \* bound: requests that the limiter lets through
    MaxUsers,     \* bound: users created
    MaxCrashes    \* bound: invocations that die

ASSUME LimitAssumption == MaxPerEmail \in Nat \ {0}
ASSUME AccountBoundsAssumption ==
    IsFiniteSet(Slots) /\ MaxLinks \in Nat /\ MaxUsers \in Nat /\ MaxCrashes \in Nat

VARIABLES
    count,      \* count[e]: rl:<emailHash>
    links,      \* every link asked for; live while its pending-link entry is there
    index,      \* index[e]: the user an address leads to, 0 for none
    users,      \* every user created; live while user:<id> is there
    vault,      \* users with vault entries
    sessions,   \* users somebody holds a session of
    slot,       \* slot[w]: where invocation w is
    crashes,    \* invocations that have died
    allowed,    \* ghost: allowed[e]: requests the limiter let through
    racing,     \* ghost: racing[e]: limiter reads while another was under way
    overlaps,   \* ghost: overlaps[e]: creations and deletions begun during another
    erased,     \* ghost: users whose deletion has ended
    late        \* ghost: users for whom data was stored during or after a deletion

mail == <<count, links, allowed, racing>>
identity == <<index, users, sessions, overlaps>>
data == <<vault, late>>
vars == <<mail, identity, data, slot, crashes, erased>>

Idle == [pc |-> "idle", email |-> "none", link |-> 0, user |-> 0, seen |-> 0]

Init ==
    /\ count = [e \in Addresses |-> 0]
    /\ allowed = [e \in Addresses |-> 0]
    /\ racing = [e \in Addresses |-> 0]
    /\ links = <<>>
    /\ index = [e \in Addresses |-> 0]
    /\ overlaps = [e \in Addresses |-> 0]
    /\ users = <<>>
    /\ sessions = {}
    /\ vault = {}
    /\ slot = [w \in Slots |-> Idle]
    /\ crashes = 0
    /\ erased = {}
    /\ late = {}

Go(w, pc) == slot' = [slot EXCEPT ![w].pc = pc]
End(w) == slot' = [slot EXCEPT ![w] = Idle]
Under(e, pcs) == {w \in Slots : slot[w].email = e /\ slot[w].pc \in pcs}

-----------------------------------------------------------------------------
(* dispatchMagicLink *)

\* Bug variant: the request that reaches the limit is let through.
RequestLinkUnlimited(w, e) ==
    /\ slot[w] = Idle
    /\ count[e] <= MaxPerEmail
    /\ slot' = [slot EXCEPT ![w] = [Idle EXCEPT !.pc = "bumping", !.email = e, !.seen = count[e]]]
    /\ racing' = [racing EXCEPT ![e] = @ + (IF Under(e, {"bumping"}) = {} THEN 0 ELSE 1)]
    /\ UNCHANGED <<count, links, allowed, identity, data, crashes, erased>>

\* bumpRateLimit reads the counter; over the limit nothing else happens.
RequestLink(w, e) ==
    /\ slot[w] = Idle
    /\ count[e] < MaxPerEmail
    /\ slot' = [slot EXCEPT ![w] = [Idle EXCEPT !.pc = "bumping", !.email = e, !.seen = count[e]]]
    /\ racing' = [racing EXCEPT ![e] = @ + (IF Under(e, {"bumping"}) = {} THEN 0 ELSE 1)]
    /\ UNCHANGED <<count, links, allowed, identity, data, crashes, erased>>

\* It writes the count it read plus one; then the link is minted, unless the
\* counter per IP refuses.
MintLink(w, minted) ==
    LET e == slot[w].email
    IN  /\ slot[w].pc = "bumping"
        /\ count' = [count EXCEPT ![e] = slot[w].seen + 1]
        /\ allowed' = [allowed EXCEPT ![e] = @ + 1]
        /\ Len(links) < MaxLinks
        /\ links' = Append(links, [email |-> e, live |-> minted])
        /\ End(w)
        /\ UNCHANGED <<racing, identity, data, crashes, erased>>

\* The counter's TTL runs out (external).
WindowEnds(e) ==
    /\ count[e] > 0
    /\ count' = [count EXCEPT ![e] = 0]
    /\ allowed' = [allowed EXCEPT ![e] = 0]
    /\ racing' = [racing EXCEPT ![e] = Cardinality(Under(e, {"bumping"}))]
    /\ UNCHANGED <<links, identity, data, slot, crashes, erased>>

-----------------------------------------------------------------------------
(* handleCallback *)

OpenLink(w, l) ==
    /\ slot[w] = Idle
    /\ links[l].live
    /\ slot' = [slot EXCEPT ![w] = [Idle EXCEPT !.pc = "opened", !.email = links[l].email,
                                                !.link = l]]
    /\ UNCHANGED <<mail, identity, data, crashes, erased>>

\* The link is deleted; it may turn out to have expired.
ConsumeLink(w, expired) ==
    /\ slot[w].pc = "opened"
    /\ links' = [links EXCEPT ![slot[w].link].live = FALSE]
    /\ IF expired THEN End(w) ELSE Go(w, "consumed")
    /\ UNCHANGED <<count, allowed, racing, identity, data, crashes, erased>>

Creating == {"creating", "indexing"}
Deleting == {"unindexing", "unusering"}

Overlap(e, pcs) ==
    overlaps' = [overlaps EXCEPT ![e] = @ + (IF Under(e, pcs) = {} THEN 0 ELSE 1)]

\* getOrCreateUser finds the user, and the session is issued.
FindUser(w) ==
    LET e == slot[w].email
    IN  /\ slot[w].pc = "consumed"
        /\ index[e] # 0
        /\ sessions' = sessions \cup {index[e]}
        /\ End(w)
        /\ UNCHANGED <<mail, index, users, overlaps, data, crashes, erased>>

MissUser(w) ==
    /\ slot[w].pc = "consumed"
    /\ index[slot[w].email] = 0
    /\ Overlap(slot[w].email, Creating)
    /\ Go(w, "creating")
    /\ UNCHANGED <<mail, index, users, sessions, data, crashes, erased>>

\* The record comes first, the index after it.
CreateUser(w) ==
    /\ slot[w].pc = "creating"
    /\ Len(users) < MaxUsers
    /\ users' = Append(users, [email |-> slot[w].email, live |-> TRUE])
    /\ slot' = [slot EXCEPT ![w].pc = "indexing", ![w].user = Len(users')]
    /\ UNCHANGED <<mail, index, sessions, overlaps, data, crashes, erased>>

IndexUser(w) ==
    /\ slot[w].pc = "indexing"
    /\ index' = [index EXCEPT ![slot[w].email] = slot[w].user]
    /\ sessions' = sessions \cup {slot[w].user}
    /\ End(w)
    /\ UNCHANGED <<mail, users, overlaps, data, crashes, erased>>

-----------------------------------------------------------------------------
(* handleDeleteAccount, with any session of the user *)

\* Bug variant: without a user record there is nothing left to delete.
ReadAccountKnown(w, u) ==
    /\ slot[w] = Idle
    /\ u \in sessions
    /\ IF users[u].live
       THEN /\ slot' = [slot EXCEPT ![w] = [Idle EXCEPT !.pc = "unindexing",
                                                        !.email = users[u].email, !.user = u]]
            /\ erased' = erased
       ELSE slot' = slot /\ erased' = erased \cup {u}
    /\ Overlap(users[u].email, IF users[u].live THEN Deleting ELSE {})
    /\ UNCHANGED <<mail, index, users, sessions, data, crashes>>

\* Without a user record there is still the vault (and the billing record) to delete.
ReadAccount(w, u) ==
    /\ slot[w] = Idle
    /\ u \in sessions
    /\ slot' = [slot EXCEPT ![w] = [Idle EXCEPT !.email = users[u].email, !.user = u,
                  !.pc = IF users[u].live THEN "unindexing" ELSE "emptying"]]
    /\ Overlap(users[u].email, IF users[u].live THEN Deleting ELSE {})
    /\ UNCHANGED <<mail, index, users, sessions, data, crashes, erased>>

\* Bug variant: the entry that leads from the address is forgotten.
UnindexForgotten(w) ==
    /\ slot[w].pc = "unindexing"
    /\ Go(w, "unusering")
    /\ UNCHANGED <<mail, identity, data, crashes, erased>>

\* The entry goes, whichever user it leads to by now.
Unindex(w) ==
    /\ slot[w].pc = "unindexing"
    /\ index' = [index EXCEPT ![slot[w].email] = 0]
    /\ Go(w, "unusering")
    /\ UNCHANGED <<mail, users, sessions, overlaps, data, crashes, erased>>

DeleteRecord(w) ==
    /\ slot[w].pc = "unusering"
    /\ users' = [users EXCEPT ![slot[w].user].live = FALSE]
    /\ Go(w, "emptying")
    /\ UNCHANGED <<mail, index, sessions, overlaps, data, crashes, erased>>

EmptyVault(w) ==
    /\ slot[w].pc = "emptying"
    /\ vault' = vault \ {slot[w].user}
    /\ Go(w, "unbilling")
    /\ UNCHANGED <<mail, identity, late, crashes, erased>>

\* deleteSubscription (Subscription), and the deletion is answered.
DropBilling(w) ==
    /\ slot[w].pc = "unbilling"
    /\ erased' = erased \cup {slot[w].user}
    /\ End(w)
    /\ UNCHANGED <<mail, identity, data, crashes>>

-----------------------------------------------------------------------------
(* The vault routes want a session, and do not look at the user record.    *)

BeingDeleted(u) ==
    \E w \in Slots : slot[w].user = u /\ slot[w].pc \in Deleting \cup {"emptying", "unbilling"}

Late(u) == late' = IF BeingDeleted(u) \/ u \in erased THEN late \cup {u} ELSE late

StoreCredentials(u) ==
    /\ u \in sessions \ vault
    /\ vault' = vault \cup {u}
    /\ Late(u)
    /\ UNCHANGED <<mail, identity, slot, crashes, erased>>

\* An invocation dies (external).
Crash(w) ==
    /\ slot[w] # Idle
    /\ crashes < MaxCrashes
    /\ crashes' = crashes + 1
    /\ End(w)
    /\ UNCHANGED <<mail, identity, data, erased>>

-----------------------------------------------------------------------------
SignIn(w) ==
    \/ \E e \in Addresses : RequestLink(w, e)
    \/ \E minted \in BOOLEAN : MintLink(w, minted)
    \/ \E l \in DOMAIN links : OpenLink(w, l)
    \/ \E expired \in BOOLEAN : ConsumeLink(w, expired)
    \/ FindUser(w) \/ MissUser(w) \/ CreateUser(w) \/ IndexUser(w)

Delete(w) ==
    \/ \E u \in DOMAIN users : ReadAccount(w, u)
    \/ Unindex(w) \/ DeleteRecord(w) \/ EmptyVault(w) \/ DropBilling(w)

Next ==
    \/ \E w \in Slots : SignIn(w) \/ Delete(w) \/ Crash(w)
    \/ \E u \in DOMAIN users : StoreCredentials(u)
    \/ \E e \in Addresses : WindowEnds(e)

Spec == Init /\ [][Next]_vars

-----------------------------------------------------------------------------
(* Properties. *)

TypeOK ==
    /\ count \in [Addresses -> 0..MaxPerEmail]
    /\ links \in Seq([email : Addresses, live : BOOLEAN])
    /\ index \in [Addresses -> 0..MaxUsers]
    /\ users \in Seq([email : Addresses, live : BOOLEAN])
    /\ vault \cup late \cup erased \cup sessions \subseteq 1..MaxUsers
    /\ slot \in [Slots -> [pc : {"idle", "bumping", "opened", "consumed", "emptying", "unbilling"}
                                \cup Creating \cup Deleting,
                           email : Addresses \cup {"none"}, link : 0..MaxLinks,
                           user : 0..MaxUsers, seen : 0..MaxPerEmail]]
    /\ crashes \in 0..MaxCrashes
    /\ allowed \in [Addresses -> Nat]
    /\ racing \in [Addresses -> Nat]
    /\ overlaps \in [Addresses -> Nat]

\* auth-link.ts: "concurrent requests can slightly overshoot".  In a window the
\* limiter lets through MaxPerEmail requests, and one more for every request that
\* read the counter while another was about to write it, however late its write.
LimitOvershootsByRaces == \A e \in Addresses : allowed[e] <= MaxPerEmail + racing[e]

Moving(u) == \E w \in Slots : slot[w].user = u /\ slot[w].pc \in {"indexing", "unusering"}

Strays(e) ==
    {u \in DOMAIN users : users[u].email = e /\ users[u].live /\ index[e] # u /\ ~Moving(u)}

\* An address leads to a live account of its own or to none, and an account that
\* its address does not lead to comes from a crash, or from two sign-ins or two
\* deletions of one address that overlapped: in particular none is lost when a
\* sign-in runs into a deletion.
OneAccountPerAddress ==
    \A e \in Addresses :
        /\ index[e] # 0 => users[index[e]] = [email |-> e, live |-> TRUE]
        /\ Cardinality(Strays(e)) <= overlaps[e] + crashes

\* account.ts: "complete account deletion".  When a deletion has ended, whatever
\* died or ran beside it, the account is gone for good, and so is all that was not
\* stored during or after a deletion.
ErasedLeavesNothing ==
    \A u \in erased :
        /\ ~users[u].live
        /\ \A e \in Addresses : index[e] # u
        /\ u \in vault => u \in late
=============================================================================
