--------------------------- MODULE AccountsProofs ---------------------------
(***************************************************************************)
(* Sign-in and deletion: no matter how many invocations overlap or die, the *)
(* limiter overshoots by races only, an address has at most one account    *)
(* for every overlap or crash too many, and a deletion that has ended has  *)
(* left nothing behind.                                                    *)
(***************************************************************************)
EXTENDS Accounts, FiniteSetTheorems, SequenceTheorems, TLAPS

Reading == {"bumping", "opened", "consumed", "creating"}   \* no user known yet
Ending == {"emptying", "unbilling"}                        \* the record is gone

\* What a running invocation knows is of its address: a link that was asked for,
\* a user that was created for it.
Knows(i, accounts, pending) ==
    /\ i.pc # "idle" => i.email \in Addresses
    /\ i.pc = "idle" => i = Idle
    /\ i.pc = "bumping" => i.seen < MaxPerEmail
    /\ i.pc = "opened" => i.link \in DOMAIN pending
    /\ i.pc \in Reading => i.user = 0
    /\ i.pc \notin Reading \cup {"idle"} =>
           i.user \in DOMAIN accounts /\ accounts[i.user].email = i.email

SlotsKnow ==
    /\ Len(users) <= MaxUsers /\ Len(links) <= MaxLinks
    /\ \A w \in Slots : Knows(slot[w], users, links)

\* An address leads to a live user of its own, and somebody holds a session of it.
IndexLeads ==
    /\ sessions \cup erased \subseteq DOMAIN users
    /\ \A e \in Addresses : index[e] # 0 =>
        index[e] \in sessions /\ users[index[e]].email = e /\ users[index[e]].live

\* A user not indexed yet is the business of its creator alone.
CreatorsAlone ==
    \A w \in Slots : slot[w].pc = "indexing" =>
        /\ users[slot[w].user].live /\ slot[w].user \notin sessions
        /\ \A x \in Slots : slot[x].user = slot[w].user => x = w

\* How far a deletion has come.
DeletionSoFar ==
    \A w \in Slots :
        /\ slot[w].pc \in Deleting \cup Ending => slot[w].user \in sessions
        /\ slot[w].pc = "unusering" => index[slot[w].email] # slot[w].user
        /\ slot[w].pc \in Ending => ~users[slot[w].user].live
        /\ slot[w].pc = "unbilling" /\ slot[w].user \in vault => slot[w].user \in late

Gone == \A u \in erased : ~users[u].live /\ (u \in vault => u \in late)

\* The limiter: requests let through, and those about to be, are paid by the count,
\* by the races and, while a write is outstanding, by that one write; whatever count
\* is written next will do as well.
Writers(e) == Under(e, {"bumping"})
Spent(e) == allowed[e] + Cardinality(Writers(e))

LimiterAt(e) ==
    /\ Writers(e) = {} => Spent(e) <= count[e] + racing[e]
    /\ Spent(e) <= count[e] + 1 + racing[e]
    /\ \A w \in Writers(e) : Spent(e) <= slot[w].seen + 1 + racing[e]

Limiter == \A e \in Addresses : LimiterAt(e)

\* Strays are paid by overlaps and crashes, and so are those to come: a sign-in under
\* way may displace the user that its address leads to, unless there is none and it is the
\* first; a deletion under way may do so unless its own user is still to be unindexed.
Creators(e) == Under(e, Creating)
Deleters(e) == Under(e, {"unindexing"})

Unusering(u) == \E w \in Slots : slot[w].pc = "unusering" /\ slot[w].user = u
Pending(u) == users[u].live /\ ~Unusering(u)

First(e) == IF index[e] = 0 /\ Creators(e) # {} THEN 1 ELSE 0
Own(e) == IF \E w \in Deleters(e) : Pending(slot[w].user) THEN 1 ELSE 0

PaidAt(e) ==
    Cardinality(Strays(e)) + Cardinality(Creators(e)) + Cardinality(Deleters(e))
        <= overlaps[e] + crashes + First(e) + Own(e)

StraysPaid == \A e \in Addresses : PaidAt(e)

\* The inductive invariant.
Sound == SlotsKnow /\ IndexLeads /\ CreatorsAlone /\ DeletionSoFar /\ Gone
IndInv == TypeOK /\ Sound /\ Limiter /\ StraysPaid

-----------------------------------------------------------------------------
Known == TypeOK /\ SlotsKnow /\ IndexLeads

LEMMA InitIndInv == Init => IndInv
<1> SUFFICES ASSUME Init PROVE IndInv
  OBVIOUS
<1>1. TypeOK
  BY LimitAssumption, AccountBoundsAssumption DEF Init, TypeOK, Idle
<1>2. Sound
  BY AccountBoundsAssumption
  DEF Init, Idle, Sound, SlotsKnow, Knows, IndexLeads, CreatorsAlone, DeletionSoFar, Gone, Deleting, Ending
<1>3. \A e \in Addresses : Writers(e) = {} /\ Creators(e) = {} /\ Deleters(e) = {} /\ Strays(e) = {}
  BY DEF Init, Idle, Writers, Creators, Deleters, Under, Creating, Strays
<1>4. Limiter
  <2>1. \A e \in Addresses : allowed[e] = 0 /\ count[e] = 0 /\ racing[e] = 0
    BY DEF Init
  <2> QED
    BY <1>3, <2>1, FS_EmptySet DEF Limiter, LimiterAt, Spent
<1>5. StraysPaid
  <2>1. \A e \in Addresses : overlaps[e] = 0 /\ crashes = 0 /\ First(e) = 0 /\ Own(e) = 0
    BY <1>3 DEF Init, First, Own
  <2> QED
    BY <1>3, <2>1, FS_EmptySet DEF StraysPaid, PaidAt
<1> QED
  BY <1>1, <1>2, <1>4, <1>5 DEF IndInv

-----------------------------------------------------------------------------
(* Types. *)

Account == [email : Addresses, live : BOOLEAN]
PCs == {"idle", "bumping", "opened", "consumed", "emptying", "unbilling"} \cup Creating \cup Deleting
Invocation == [pc : PCs, email : Addresses \cup {"none"}, link : 0..MaxLinks,
               user : 0..MaxUsers, seen : 0..MaxPerEmail]

\* Users and links are numbered as they come; what marks one dead leaves the rest.
LEMMA Numbering ==
    ASSUME TypeOK
    PROVE  /\ users \in Seq(Account) /\ Len(users) \in Nat /\ DOMAIN users = 1..Len(users)
           /\ \A u \in DOMAIN users : users[u] \in Account
           /\ links \in Seq(Account) /\ Len(links) \in Nat /\ DOMAIN links = 1..Len(links)
           /\ \A l \in DOMAIN links : links[l] \in Account
<1>1. users \in Seq(Account) /\ links \in Seq(Account)
  BY DEF TypeOK, Account
<1> QED
  BY <1>1

LEMMA Marking ==
    ASSUME NEW s \in Seq(Account), NEW i \in DOMAIN s
    PROVE  [s EXCEPT ![i].live = FALSE] \in Seq(Account)
<1> DEFINE t == [s EXCEPT ![i].live = FALSE]
<1>1. Len(s) \in Nat /\ DOMAIN s = 1..Len(s) /\ s \in [1..Len(s) -> Account]
  OBVIOUS
<1>2. [s[i] EXCEPT !.live = FALSE] \in Account
  BY <1>1 DEF Account
<1>3. t \in [1..Len(s) -> Account]
  BY <1>1, <1>2
<1> QED
  BY <1>1, <1>3, SeqDef

Typed ==
    /\ count \in [Addresses -> 0..MaxPerEmail] /\ index \in [Addresses -> 0..MaxUsers]
    /\ users \in Seq(Account) /\ links \in Seq(Account)
    /\ vault \subseteq 1..MaxUsers /\ late \subseteq 1..MaxUsers
    /\ erased \subseteq 1..MaxUsers /\ sessions \subseteq 1..MaxUsers
    /\ slot \in [Slots -> Invocation] /\ crashes \in 0..MaxCrashes
    /\ allowed \in [Addresses -> Nat] /\ racing \in [Addresses -> Nat]
    /\ overlaps \in [Addresses -> Nat]

LEMMA TypedIsTypeOK == Typed <=> TypeOK
  BY DEF Typed, TypeOK, Invocation, PCs, Account

LEMMA StepTypeOK == TypeOK /\ SlotsKnow /\ IndexLeads /\ [Next]_vars => TypeOK'
<1> SUFFICES ASSUME Known, [Next]_vars PROVE Typed'
  BY TypedIsTypeOK, PTL DEF Known
<1> USE DEF Known
<1>0. Typed
  BY TypedIsTypeOK
<1>a. /\ Idle \in Invocation
      /\ \A i \in Invocation, pc \in PCs : [i EXCEPT !.pc = pc] \in Invocation
      /\ \A w \in Slots : slot[w] \in Invocation
  <2>1. Idle \in Invocation
    BY LimitAssumption, AccountBoundsAssumption DEF Invocation, PCs, Idle
  <2>2. \A i \in Invocation, pc \in PCs : [i EXCEPT !.pc = pc] \in Invocation
    BY DEF Invocation
  <2> QED
    BY <1>0, <2>1, <2>2 DEF Typed
<1>b. /\ DOMAIN users \subseteq 1..MaxUsers /\ \A u \in DOMAIN users : users[u] \in Account
      /\ DOMAIN links \subseteq 1..MaxLinks /\ \A l \in DOMAIN links : links[l] \in Account
  BY Numbering, AccountBoundsAssumption DEF SlotsKnow
<1>c. \A w \in Slots : slot[w].pc \in {"indexing", "unindexing", "unusering", "emptying", "unbilling"} =>
          slot[w].user \in DOMAIN users
  BY DEF SlotsKnow, Knows, Reading
<1>d. ASSUME NEW w \in Slots,
             \/ End(w) \/ Go(w, "consumed") \/ Go(w, "creating")
             \/ Go(w, "unusering") \/ Go(w, "emptying") \/ Go(w, "unbilling")
      PROVE  slot' \in [Slots -> Invocation]
  <2>1. PICK i \in Invocation : slot' = [slot EXCEPT ![w] = i]
    <3>1. CASE End(w)
      BY <1>a, <3>1 DEF End
    <3>2. ASSUME NEW pc \in PCs, Go(w, pc) PROVE \E i \in Invocation : slot' = [slot EXCEPT ![w] = i]
      <4>1. slot' = [slot EXCEPT ![w] = [slot[w] EXCEPT !.pc = pc]]
        BY <3>2 DEF Go
      <4> QED
        BY <1>a, <4>1
    <3> QED
      BY <1>d, <3>1, <3>2 DEF PCs, Creating, Deleting
  <2> QED
    BY <1>0, <2>1 DEF Typed
<1>e. ASSUME NEW e \in Addresses, NEW pcs, Overlap(e, pcs) PROVE overlaps' \in [Addresses -> Nat]
  <2> DEFINE n == IF Under(e, pcs) = {} THEN 0 ELSE 1
  <2>1. n \in Nat /\ overlaps' = [overlaps EXCEPT ![e] = overlaps[e] + n]
    BY <1>e DEF Overlap
  <2> HIDE DEF n
  <2> QED
    BY <1>0, <2>1 DEF Typed
<1>1. ASSUME NEW w \in Slots, NEW e \in Addresses, RequestLink(w, e) PROVE Typed'
  <2>1. [Idle EXCEPT !.pc = "bumping", !.email = e, !.seen = count[e]] \in Invocation
    BY <1>0, <1>a DEF Typed, Invocation, PCs, Idle
  <2>2. racing' \in [Addresses -> Nat]
    BY <1>0, <1>1 DEF RequestLink, Typed
  <2>3. slot' \in [Slots -> Invocation]
    BY <1>0, <1>1, <2>1 DEF RequestLink, Typed
  <2> QED
    BY <1>0, <1>1, <2>2, <2>3 DEF RequestLink, Typed, identity, data
<1>2. ASSUME NEW w \in Slots, NEW minted \in BOOLEAN, MintLink(w, minted) PROVE Typed'
  <2>1. slot[w].email \in Addresses /\ slot[w].seen + 1 \in 0..MaxPerEmail
    <3>1. slot[w].seen \in 0..MaxPerEmail /\ slot[w].seen < MaxPerEmail
      BY <1>2, <1>a DEF MintLink, SlotsKnow, Knows, Invocation
    <3> QED
      BY <1>2, <3>1, LimitAssumption DEF MintLink, SlotsKnow, Knows
  <2>2. count' \in [Addresses -> 0..MaxPerEmail] /\ allowed' \in [Addresses -> Nat]
    BY <1>0, <1>2, <2>1 DEF MintLink, Typed
  <2>3. links' \in Seq(Account)
    BY <1>0, <1>2, <2>1 DEF MintLink, Typed, Account
  <2> QED
    BY <1>0, <1>2, <1>d, <2>2, <2>3 DEF MintLink, Typed, identity, data
<1>3. ASSUME NEW w \in Slots, NEW l \in DOMAIN links, OpenLink(w, l) PROVE Typed'
  <2>1. links[l].email \in Addresses /\ l \in 0..MaxLinks
    BY <1>b DEF Account
  <2>2. [Idle EXCEPT !.pc = "opened", !.email = links[l].email, !.link = l] \in Invocation
    BY <1>a, <2>1 DEF Invocation, PCs, Idle
  <2>3. slot' \in [Slots -> Invocation]
    BY <1>0, <1>3, <2>2 DEF OpenLink, Typed
  <2> QED
    BY <1>0, <1>3, <2>3 DEF OpenLink, Typed, mail, identity, data
<1>4. ASSUME NEW w \in Slots, NEW expired \in BOOLEAN, ConsumeLink(w, expired) PROVE Typed'
  <2>1. links' \in Seq(Account)
    BY <1>0, <1>4, Marking DEF ConsumeLink, SlotsKnow, Knows, Typed
  <2>2. slot' \in [Slots -> Invocation]
    BY <1>4, <1>d DEF ConsumeLink
  <2> QED
    BY <1>0, <1>4, <2>1, <2>2 DEF ConsumeLink, Typed, identity, data
<1>5. ASSUME NEW w \in Slots, FindUser(w) PROVE Typed'
  <2>1. slot[w].email \in Addresses
    BY <1>5 DEF FindUser, SlotsKnow, Knows
  <2>2. sessions' \subseteq 1..MaxUsers
    <3>1. index[slot[w].email] \in DOMAIN users
      BY <1>5, <2>1 DEF FindUser, IndexLeads
    <3> QED
      BY <1>0, <1>b, <1>5, <3>1 DEF FindUser, Typed
  <2> QED
    BY <1>0, <1>5, <1>d, <2>2 DEF FindUser, Typed, mail, data
<1>6. ASSUME NEW w \in Slots, MissUser(w) PROVE Typed'
  <2>1. overlaps' \in [Addresses -> Nat]
    BY <1>6, <1>e DEF MissUser, SlotsKnow, Knows
  <2> QED
    BY <1>0, <1>6, <1>d, <2>1 DEF MissUser, Typed, mail, data
<1>7. ASSUME NEW w \in Slots, CreateUser(w) PROVE Typed'
  <2>1. slot[w].email \in Addresses
    BY <1>7 DEF CreateUser, SlotsKnow, Knows
  <2>2. users' \in Seq(Account) /\ Len(users') = Len(users) + 1
    BY <1>0, <1>7, <2>1 DEF CreateUser, Typed, Account
  <2>3. Len(users') \in 0..MaxUsers
    BY <1>7, <2>2, Numbering, AccountBoundsAssumption DEF CreateUser
  <2>4. [slot[w] EXCEPT !.pc = "indexing", !.user = Len(users')] \in Invocation
    BY <1>a, <2>3 DEF Invocation, PCs, Creating
  <2>5. slot' \in [Slots -> Invocation]
    BY <1>0, <1>7, <2>4 DEF CreateUser, Typed
  <2> QED
    BY <1>0, <1>7, <2>2, <2>5 DEF CreateUser, Typed, mail, data
<1>8. ASSUME NEW w \in Slots, IndexUser(w) PROVE Typed'
  <2>1. slot[w].user \in 1..MaxUsers
    BY <1>b, <1>c, <1>8 DEF IndexUser
  <2>2. slot[w].user \in 0..MaxUsers
    BY <2>1
  <2>3. index' \in [Addresses -> 0..MaxUsers] /\ sessions' \subseteq 1..MaxUsers
    BY <1>0, <1>8, <2>1, <2>2 DEF IndexUser, Typed
  <2> QED
    BY <1>0, <1>8, <1>d, <2>3 DEF IndexUser, Typed, mail, data
<1>9. ASSUME NEW w \in Slots, NEW u \in DOMAIN users, ReadAccount(w, u) PROVE Typed'
  <2>1. u \in 0..MaxUsers /\ users[u].email \in Addresses
    BY <1>b DEF Account
  <2>2. overlaps' \in [Addresses -> Nat]
    BY <1>9, <1>e, <2>1 DEF ReadAccount
  <2>3. [Idle EXCEPT !.email = users[u].email, !.user = u,
                     !.pc = IF users[u].live THEN "unindexing" ELSE "emptying"] \in Invocation
    BY <1>a, <2>1 DEF Invocation, PCs, Idle, Deleting
  <2>4. slot' \in [Slots -> Invocation]
    BY <1>0, <1>9, <2>3 DEF ReadAccount, Typed
  <2> QED
    BY <1>0, <1>9, <2>2, <2>4 DEF ReadAccount, Typed, mail, data
<1>10. ASSUME NEW w \in Slots, Unindex(w) PROVE Typed'
  <2>1. index' \in [Addresses -> 0..MaxUsers]
    <3>1. 0 \in 0..MaxUsers
      BY AccountBoundsAssumption
    <3> QED
      BY <1>0, <1>10, <3>1 DEF Unindex, Typed
  <2> QED
    BY <1>0, <1>10, <1>d, <2>1 DEF Unindex, Typed, mail, data
<1>11. ASSUME NEW w \in Slots, DeleteRecord(w) PROVE Typed'
  <2>1. users' \in Seq(Account)
    BY <1>0, <1>c, <1>11, Marking DEF DeleteRecord, Typed
  <2> QED
    BY <1>0, <1>11, <1>d, <2>1 DEF DeleteRecord, Typed, mail, data
<1>12. ASSUME NEW w \in Slots, EmptyVault(w) PROVE Typed'
  BY <1>0, <1>12, <1>d DEF EmptyVault, Typed, mail, identity
<1>13. ASSUME NEW w \in Slots, DropBilling(w) PROVE Typed'
  <2>1. slot[w].user \in 1..MaxUsers
    BY <1>b, <1>c, <1>13 DEF DropBilling
  <2> QED
    BY <1>0, <1>13, <1>d, <2>1 DEF DropBilling, Typed, mail, identity, data
<1>14. ASSUME NEW w \in Slots, Crash(w) PROVE Typed'
  BY <1>0, <1>14, <1>d, AccountBoundsAssumption DEF Crash, Typed, mail, identity, data
<1>15. ASSUME NEW u \in DOMAIN users, StoreCredentials(u) PROVE Typed'
  BY <1>0, <1>b, <1>15 DEF StoreCredentials, Late, Typed, mail, identity
<1>16. ASSUME NEW e \in Addresses, WindowEnds(e) PROVE Typed'
  <2>1. Cardinality(Under(e, {"bumping"})) \in Nat
    BY AccountBoundsAssumption, FS_Subset, FS_CardinalityType DEF Under
  <2> QED
    BY <1>0, <1>16, <2>1, LimitAssumption DEF WindowEnds, Typed, identity, data
<1>17. CASE UNCHANGED vars
  BY <1>0, <1>17 DEF vars, mail, identity, data, Typed
<1> QED
  BY <1>1, <1>2, <1>3, <1>4, <1>5, <1>6, <1>7, <1>8, <1>9, <1>10, <1>11, <1>12, <1>13, <1>14,
     <1>15, <1>16, <1>17 DEF Next, SignIn, Delete

-----------------------------------------------------------------------------
(* How a step moves. *)

\* Accounts are never forgotten, and none comes back to life.
Kept(us, vs) ==
    \A u \in DOMAIN us : /\ u \in DOMAIN vs /\ vs[u].email = us[u].email
                         /\ vs[u].live => us[u].live

LEMMA UsersKept ==
    ASSUME Known, [Next]_vars
    PROVE  Kept(users, users') /\ DOMAIN links \subseteq DOMAIN links'
<1>0. /\ users \in Seq(Account) /\ links \in Seq(Account)
      /\ \A w \in Slots : slot[w].pc = "unusering" => slot[w].user \in DOMAIN users
  BY Numbering DEF Known, SlotsKnow, Knows, Reading
<1>1. ASSUME NEW w \in Slots, CreateUser(w) PROVE Kept(users, users') /\ links' = links
  BY <1>0, <1>1 DEF CreateUser, Kept, mail
<1>2. ASSUME NEW w \in Slots, DeleteRecord(w) PROVE Kept(users, users') /\ links' = links
  BY <1>0, <1>2 DEF DeleteRecord, Kept, mail
<1>3. ASSUME NEW w \in Slots, NEW minted \in BOOLEAN, MintLink(w, minted)
      PROVE  users' = users /\ DOMAIN links \subseteq DOMAIN links'
  BY <1>0, <1>3 DEF MintLink, identity
<1>4. ASSUME NEW w \in Slots, NEW expired \in BOOLEAN, ConsumeLink(w, expired)
      PROVE  users' = users /\ DOMAIN links \subseteq DOMAIN links'
  BY <1>0, <1>4 DEF ConsumeLink, identity
<1>5. CASE users' = users /\ links' = links
  BY <1>5 DEF Kept
<1>6. ASSUME users' = users PROVE Kept(users, users')
  BY <1>6 DEF Kept
<1>7. \/ \E w \in Slots : CreateUser(w) \/ DeleteRecord(w)
      \/ \E w \in Slots : \E b \in BOOLEAN : MintLink(w, b) \/ ConsumeLink(w, b)
      \/ users' = users /\ links' = links
  BY DEF Next, SignIn, Delete, vars, mail, identity, RequestLink, OpenLink, FindUser, MissUser,
         IndexUser, ReadAccount, Unindex, EmptyVault, DropBilling, Crash, StoreCredentials, WindowEnds
<1> QED
  BY <1>1, <1>2, <1>3, <1>4, <1>5, <1>6, <1>7

\* One invocation moves at a time.
Alone(w) == \A x \in Slots \ {w} : slot'[x] = slot[x]

LEMMA Going ==
    ASSUME TypeOK, NEW w \in Slots, NEW pc, Go(w, pc)
    PROVE  /\ slot'[w].pc = pc /\ slot'[w].user = slot[w].user
           /\ slot'[w].email = slot[w].email /\ Alone(w)
  BY TypedIsTypeOK DEF Typed, Go, Alone, Invocation

LEMMA Stopping ==
    ASSUME TypeOK, NEW w \in Slots, End(w)
    PROVE  slot'[w] = Idle /\ Alone(w)
  BY TypedIsTypeOK DEF Typed, End, Alone

LEMMA StepSlotsKnow == Known /\ [Next]_vars => SlotsKnow'
<1> SUFFICES ASSUME Known, [Next]_vars PROVE SlotsKnow'
  OBVIOUS
<1> DEFINE Fine(w) == Alone(w) /\ Knows(slot'[w], users', links')
<1>0. /\ slot \in [Slots -> Invocation] /\ users \in Seq(Account) /\ links \in Seq(Account)
      /\ Len(users) <= MaxUsers /\ Len(links) <= MaxLinks
      /\ \A w \in Slots : Knows(slot[w], users, links) /\ slot[w] \in Invocation
      /\ \A u \in DOMAIN users : users[u] \in Account
      /\ \A l \in DOMAIN links : links[l] \in Account
  BY TypedIsTypeOK, Numbering DEF Known, SlotsKnow, Typed
<1>1. /\ Kept(users, users') /\ DOMAIN links \subseteq DOMAIN links'
      /\ Len(users') \in Nat /\ DOMAIN users' = 1..Len(users')
      /\ Len(links') \in Nat /\ DOMAIN links' = 1..Len(links')
  <2>1. TypeOK'
    BY StepTypeOK DEF Known
  <2>2. users' \in Seq(Account) /\ links' \in Seq(Account)
    BY <2>1 DEF TypeOK, Account
  <2> QED
    BY <2>2, UsersKept
<1>2. Len(users') <= MaxUsers /\ Len(links') <= MaxLinks
  <2>1. ASSUME NEW w \in Slots, CreateUser(w) PROVE Len(users') <= MaxUsers /\ links' = links
    BY <1>0, <2>1, AccountBoundsAssumption DEF CreateUser, mail
  <2>2. ASSUME NEW w \in Slots, DeleteRecord(w) PROVE Len(users') = Len(users) /\ links' = links
    BY <1>0, <2>2 DEF DeleteRecord, mail
  <2>3. ASSUME NEW w \in Slots, NEW b \in BOOLEAN, MintLink(w, b)
        PROVE  users' = users /\ Len(links') <= MaxLinks
    BY <1>0, <2>3, AccountBoundsAssumption DEF MintLink, identity
  <2>4. ASSUME NEW w \in Slots, NEW b \in BOOLEAN, ConsumeLink(w, b)
        PROVE  users' = users /\ Len(links') = Len(links)
    BY <1>0, <2>4 DEF ConsumeLink, identity
  <2>5. \/ \E w \in Slots : CreateUser(w) \/ DeleteRecord(w)
        \/ \E w \in Slots : \E b \in BOOLEAN : MintLink(w, b) \/ ConsumeLink(w, b)
        \/ users' = users /\ links' = links
    BY DEF Next, SignIn, Delete, vars, mail, identity, RequestLink, OpenLink, FindUser, MissUser,
           IndexUser, ReadAccount, Unindex, EmptyVault, DropBilling, Crash, StoreCredentials, WindowEnds
  <2> QED
    BY <1>0, <2>1, <2>2, <2>3, <2>4, <2>5
<1>3. \A w \in Slots : End(w) => Fine(w)
  BY <1>0 DEF End, Alone, Knows, Idle, Reading
<1>4. ASSUME NEW w \in Slots, NEW e \in Addresses, RequestLink(w, e) PROVE Fine(w)
  BY <1>0, <1>4 DEF RequestLink, Alone, Knows, Idle, Reading
<1>5. ASSUME NEW w \in Slots, NEW b \in BOOLEAN, MintLink(w, b) \/ ConsumeLink(w, b) PROVE Fine(w)
  <2>1. CASE End(w)
    BY <1>3, <2>1
  <2>2. CASE slot[w].pc = "opened" /\ Go(w, "consumed")
    <3>1. /\ slot'[w].pc = "consumed" /\ slot'[w].user = slot[w].user
          /\ slot'[w].email = slot[w].email /\ Alone(w)
      BY <1>0, <2>2 DEF Go, Alone, Invocation
    <3> QED
      BY <1>0, <2>2, <3>1 DEF Knows, Reading
  <2> QED
    BY <1>5, <2>1, <2>2 DEF MintLink, ConsumeLink
<1>6. ASSUME NEW w \in Slots, NEW l \in DOMAIN links, OpenLink(w, l) PROVE Fine(w)
  BY <1>0, <1>1, <1>6 DEF OpenLink, Alone, Knows, Idle, Reading, Account
<1>7. ASSUME NEW w \in Slots, FindUser(w) \/ IndexUser(w) \/ DropBilling(w) \/ Crash(w) PROVE Fine(w)
  BY <1>3, <1>7 DEF FindUser, IndexUser, DropBilling, Crash
<1>8. ASSUME NEW w \in Slots, MissUser(w) PROVE Fine(w)
  BY <1>0, <1>8 DEF MissUser, Go, Alone, Knows, Reading
<1>9. ASSUME NEW w \in Slots, CreateUser(w) PROVE Fine(w)
  <2>1. /\ Len(users') \in DOMAIN users' /\ users'[Len(users')].email = slot[w].email
        /\ slot[w].email \in Addresses
    BY <1>0, <1>9 DEF CreateUser, Knows
  <2>2. /\ slot'[w].pc = "indexing" /\ slot'[w].user = Len(users') /\ slot'[w].email = slot[w].email
        /\ Alone(w)
    BY <1>0, <1>9 DEF CreateUser, Alone, Invocation
  <2> QED
    BY <2>1, <2>2 DEF Knows, Reading
<1>10. ASSUME NEW w \in Slots, NEW u \in DOMAIN users, ReadAccount(w, u) PROVE Fine(w)
  <2>1. /\ slot'[w].pc \in {"unindexing", "emptying"} /\ slot'[w].user = u
        /\ slot'[w].email = users[u].email /\ Alone(w)
    BY <1>0, <1>10 DEF ReadAccount, Alone, Idle
  <2> QED
    BY <1>0, <1>1, <2>1 DEF Knows, Reading, Kept, Account
<1>11. ASSUME NEW w \in Slots, Unindex(w) \/ DeleteRecord(w) \/ EmptyVault(w) PROVE Fine(w)
  <2>1. /\ slot[w].pc \in {"unindexing", "unusering", "emptying"}
        /\ slot'[w].pc \in {"unusering", "emptying", "unbilling"} /\ slot'[w].user = slot[w].user
        /\ slot'[w].email = slot[w].email /\ Alone(w)
    <3>1. ASSUME NEW pc, Go(w, pc)
          PROVE  /\ slot'[w].pc = pc /\ slot'[w].user = slot[w].user
                 /\ slot'[w].email = slot[w].email /\ Alone(w)
      BY <1>0, <3>1 DEF Go, Alone, Invocation
    <3> QED
      BY <1>11, <3>1 DEF Unindex, DeleteRecord, EmptyVault
  <2> QED
    BY <1>0, <1>1, <2>1 DEF Knows, Reading, Kept
<1>12. slot' = slot \/ \E w \in Slots : Fine(w)
  BY <1>4, <1>5, <1>6, <1>7, <1>8, <1>9, <1>10, <1>11
  DEF Next, SignIn, Delete, StoreCredentials, WindowEnds, vars
<1>13. ASSUME NEW w \in Slots, slot'[w] = slot[w] PROVE Knows(slot'[w], users', links')
  BY <1>0, <1>1, <1>13 DEF Knows, Kept
<1> QED
  BY <1>2, <1>12, <1>13 DEF SlotsKnow, Alone

\* What is known of the users whose invocations are under way.
LEMMA UnderWay ==
    ASSUME Known, NEW w \in Slots
    PROVE  /\ slot[w].pc \in PCs
           /\ slot[w].pc \in Reading \cup {"idle"} => slot[w].user = 0
           /\ slot[w].pc \notin Reading \cup {"idle"} =>
                  /\ slot[w].user \in DOMAIN users /\ users[slot[w].user].email = slot[w].email
                  /\ slot[w].email \in Addresses
<1>1. slot[w] \in Invocation /\ Knows(slot[w], users, links)
  BY TypedIsTypeOK DEF Known, SlotsKnow, Typed
<1> QED
  BY <1>1 DEF Knows, Invocation, Idle

\* Where an invocation gets, and from where.
LEMMA Movement ==
    ASSUME Known, [Next]_vars
    PROVE  \/ slot' = slot
           \/ \E w \in Slots :
               /\ Alone(w)
               /\ \/ slot'[w].pc \in Reading \cup {"idle"}
                  \/ CreateUser(w) /\ slot'[w].pc = "indexing" /\ slot'[w].user = Len(users')
                     /\ slot'[w].email = slot[w].email
                  \/ /\ slot'[w].pc \in {"unindexing", "emptying"} /\ slot'[w].user \in sessions
                     /\ \E u \in DOMAIN users : ReadAccount(w, u) /\ slot'[w].user = u
                  \/ /\ slot'[w].user = slot[w].user /\ slot'[w].email = slot[w].email
                     /\ \/ Unindex(w) /\ slot'[w].pc = "unusering"
                        \/ DeleteRecord(w) /\ slot'[w].pc = "emptying"
                        \/ EmptyVault(w) /\ slot'[w].pc = "unbilling"
<1> DEFINE Moved(w) ==
        /\ Alone(w)
        /\ \/ slot'[w].pc \in Reading \cup {"idle"}
           \/ CreateUser(w) /\ slot'[w].pc = "indexing" /\ slot'[w].user = Len(users')
              /\ slot'[w].email = slot[w].email
           \/ /\ slot'[w].pc \in {"unindexing", "emptying"} /\ slot'[w].user \in sessions
              /\ \E u \in DOMAIN users : ReadAccount(w, u) /\ slot'[w].user = u
           \/ /\ slot'[w].user = slot[w].user /\ slot'[w].email = slot[w].email
              /\ \/ Unindex(w) /\ slot'[w].pc = "unusering"
                 \/ DeleteRecord(w) /\ slot'[w].pc = "emptying"
                 \/ EmptyVault(w) /\ slot'[w].pc = "unbilling"
<1>0. TypeOK /\ slot \in [Slots -> Invocation]
  BY TypedIsTypeOK DEF Known, Typed
<1>1. \A w \in Slots : End(w) => Moved(w)
  BY <1>0, Stopping DEF Idle
<1>2. \A w \in Slots : Go(w, "consumed") \/ Go(w, "creating") => Moved(w)
  BY <1>0, Going DEF Reading
<1>3. ASSUME NEW w \in Slots, NEW e \in Addresses, RequestLink(w, e) PROVE Moved(w)
  BY <1>0, <1>3 DEF RequestLink, Alone, Reading, Idle
<1>4. ASSUME NEW w \in Slots, NEW l \in DOMAIN links, OpenLink(w, l) PROVE Moved(w)
  BY <1>0, <1>4 DEF OpenLink, Alone, Reading, Idle
<1>5. ASSUME NEW w \in Slots, CreateUser(w) PROVE Moved(w)
  BY <1>0, <1>5 DEF CreateUser, Alone, Invocation
<1>6. ASSUME NEW w \in Slots, NEW u \in DOMAIN users, ReadAccount(w, u) PROVE Moved(w)
  BY <1>0, <1>6 DEF ReadAccount, Alone, Idle
<1>7. ASSUME NEW w \in Slots, Unindex(w) \/ DeleteRecord(w) \/ EmptyVault(w) PROVE Moved(w)
  BY <1>0, <1>7, Going DEF Unindex, DeleteRecord, EmptyVault
<1>8. \/ slot' = slot
      \/ \E w \in Slots : \/ End(w) \/ Go(w, "consumed") \/ Go(w, "creating")
                          \/ \E e \in Addresses : RequestLink(w, e)
                          \/ \E l \in DOMAIN links : OpenLink(w, l)
                          \/ CreateUser(w)
                          \/ \E u \in DOMAIN users : ReadAccount(w, u)
                          \/ Unindex(w) \/ DeleteRecord(w) \/ EmptyVault(w)
  BY DEF Next, SignIn, Delete, vars, MintLink, ConsumeLink, FindUser, MissUser, IndexUser, DropBilling,
         Crash, StoreCredentials, WindowEnds
<1> HIDE DEF Moved
<1>9. slot' = slot \/ \E w \in Slots : Moved(w)
  BY <1>1, <1>2, <1>3, <1>4, <1>5, <1>6, <1>7, <1>8
<1> QED
  BY <1>9 DEF Moved

\* Who makes sessions, leads addresses and ends deletions.
LEMMA IdentityMoves ==
    ASSUME Known, CreatorsAlone, [Next]_vars
    PROVE  /\ sessions \subseteq sessions' /\ erased \subseteq erased'
           /\ \A u \in sessions' \ sessions : \E w \in Slots : IndexUser(w) /\ u = slot[w].user
           /\ \A u \in erased' \ erased : \E w \in Slots : DropBilling(w) /\ u = slot[w].user
           /\ \A e \in Addresses : \/ index'[e] = index[e] \/ index'[e] = 0
                                   \/ \E w \in Slots : /\ IndexUser(w) /\ slot[w].email = e
                                                       /\ index'[e] = slot[w].user
<1>0. index \in [Addresses -> 0..MaxUsers]
  BY TypedIsTypeOK DEF Known, Typed
<1>1. ASSUME NEW w \in Slots, IndexUser(w)
      PROVE  /\ sessions' = sessions \cup {slot[w].user} /\ erased' = erased
             /\ \A e \in Addresses : \/ index'[e] = index[e]
                                     \/ slot[w].email = e /\ index'[e] = slot[w].user
  BY <1>0, <1>1 DEF IndexUser
<1>2. ASSUME NEW w \in Slots, FindUser(w) PROVE sessions' = sessions /\ erased' = erased /\ index' = index
  <2>1. index[slot[w].email] \in sessions
    BY <1>2, UnderWay DEF FindUser, Known, IndexLeads, Reading, SlotsKnow, Knows
  <2> QED
    BY <1>2, <2>1 DEF FindUser
<1>3. ASSUME NEW w \in Slots, Unindex(w)
      PROVE  /\ sessions' = sessions /\ erased' = erased
             /\ \A e \in Addresses : index'[e] = index[e] \/ index'[e] = 0
  BY <1>0, <1>3 DEF Unindex
<1>4. ASSUME NEW w \in Slots, DropBilling(w)
      PROVE  sessions' = sessions /\ index' = index /\ erased' = erased \cup {slot[w].user}
  BY <1>4 DEF DropBilling, identity
<1>5. \/ sessions' = sessions /\ erased' = erased /\ index' = index
      \/ \E w \in Slots : IndexUser(w) \/ FindUser(w) \/ Unindex(w) \/ DropBilling(w)
  BY DEF Next, SignIn, Delete, vars, mail, identity, data, RequestLink, MintLink, OpenLink, ConsumeLink,
         MissUser, CreateUser, ReadAccount, DeleteRecord, EmptyVault, Crash, StoreCredentials, WindowEnds
<1> QED
  BY <1>1, <1>2, <1>3, <1>4, <1>5

LEMMA UserMoves ==
    ASSUME [Next]_vars
    PROVE  users' = users \/ \E w \in Slots : CreateUser(w) \/ DeleteRecord(w)
  BY DEF Next, SignIn, Delete, vars, mail, identity, RequestLink, MintLink, OpenLink, ConsumeLink,
         FindUser, MissUser, IndexUser, ReadAccount, Unindex, EmptyVault, DropBilling, Crash,
         StoreCredentials, WindowEnds

LEMMA StepIndexLeads ==
    ASSUME Known, CreatorsAlone, DeletionSoFar, [Next]_vars
    PROVE  IndexLeads'
<1>1. Kept(users, users') /\ users \in Seq(Account)
  BY UsersKept, Numbering DEF Known
<1>2. sessions' \cup erased' \subseteq DOMAIN users'
  <2>1. \A w \in Slots : IndexUser(w) \/ DropBilling(w) => slot[w].user \in DOMAIN users
    BY UnderWay DEF IndexUser, DropBilling, Reading
  <2>2. sessions' \cup erased' \subseteq DOMAIN users
    BY <2>1, IdentityMoves DEF Known, IndexLeads
  <2> QED
    BY <1>1, <2>2 DEF Kept
<1>3. ASSUME NEW e \in Addresses, index'[e] # 0
      PROVE  index'[e] \in sessions' /\ users'[index'[e]].email = e /\ users'[index'[e]].live
  <2>1. CASE index'[e] = index[e]
    <3> DEFINE u == index[e]
    <3>1. u \in sessions /\ u \in DOMAIN users /\ users[u].email = e /\ users[u].live
      BY <1>3, <2>1 DEF Known, IndexLeads
    <3>2. users'[u].live
      <4>1. CASE users' = users
        BY <3>1, <4>1
      <4>2. ASSUME NEW w \in Slots, CreateUser(w) PROVE users'[u] = users[u]
        BY <1>1, <3>1, <4>2 DEF CreateUser
      <4>3. ASSUME NEW w \in Slots, DeleteRecord(w) PROVE users'[u] = users[u]
        <5>1. slot[w].user # u
          BY <3>1, <4>3, UnderWay DEF DeleteRecord, DeletionSoFar, Reading
        <5> QED
          BY <1>1, <3>1, <4>3, <5>1 DEF DeleteRecord
      <4>4. users' = users \/ \E w \in Slots : CreateUser(w) \/ DeleteRecord(w)
        BY UserMoves
      <4> QED
        BY <3>1, <4>1, <4>2, <4>3, <4>4
    <3> QED
      BY <1>1, <2>1, <3>1, <3>2, IdentityMoves DEF Kept
  <2>2. ASSUME NEW w \in Slots, IndexUser(w), slot[w].email = e, index'[e] = slot[w].user
        PROVE  index'[e] \in sessions' /\ users'[index'[e]].email = e /\ users'[index'[e]].live
    <3>1. users[slot[w].user].email = slot[w].email /\ users[slot[w].user].live
      BY <2>2, UnderWay DEF IndexUser, CreatorsAlone, Reading
    <3> QED
      BY <2>2, <3>1 DEF IndexUser
  <2> QED
    BY <1>3, <2>1, <2>2, IdentityMoves
<1> QED
  BY <1>2, <1>3 DEF IndexLeads

LEMMA StepCreatorsAlone ==
    ASSUME Known, CreatorsAlone, DeletionSoFar, [Next]_vars
    PROVE  CreatorsAlone'
<1> SUFFICES ASSUME NEW w \in Slots, slot'[w].pc = "indexing"
             PROVE  /\ users'[slot'[w].user].live /\ slot'[w].user \notin sessions'
                    /\ \A x \in Slots : slot'[x].user = slot'[w].user => x = w
  BY DEF CreatorsAlone
<1>0. users \in Seq(Account) /\ Len(users) \in Nat /\ DOMAIN users = 1..Len(users)
  BY Numbering DEF Known
<1>1. CASE slot'[w] = slot[w]
  <2> DEFINE u == slot[w].user
  <2>1. /\ u \in DOMAIN users /\ users[u].live /\ u \notin sessions
        /\ \A x \in Slots : slot[x].user = u => x = w
    BY <1>1, UnderWay DEF CreatorsAlone, Reading
  <2>2. \A x \in Slots : IndexUser(x) => x # w
    BY <1>1, Stopping DEF IndexUser, Known, Idle
  <2>3. u \notin sessions'
    BY <2>1, <2>2, IdentityMoves
  <2>4. users'[u].live
    <3>1. ASSUME NEW x \in Slots, CreateUser(x) PROVE users'[u] = users[u]
      BY <1>0, <2>1, <3>1 DEF CreateUser
    <3>2. ASSUME NEW x \in Slots, DeleteRecord(x) PROVE users'[u] = users[u]
      <4>1. slot[x].user # u
        BY <2>1, <3>2 DEF DeleteRecord, DeletionSoFar, Deleting
      <4> QED
        BY <1>0, <2>1, <3>2, <4>1 DEF DeleteRecord
    <3>3. users' = users \/ \E x \in Slots : CreateUser(x) \/ DeleteRecord(x)
      BY UserMoves
    <3> QED
      BY <2>1, <3>1, <3>2, <3>3
  <2>5. ASSUME NEW x \in Slots, slot'[x].user = u PROVE x = w
    <3>1. CASE slot'[x] = slot[x]
      BY <2>1, <2>5, <3>1
    <3>2. CASE slot'[x].user = slot[x].user
      BY <2>1, <2>5, <3>2
    <3>3. CASE slot'[x].user \in sessions
      BY <2>1, <2>5, <3>3
    <3>4. CASE CreateUser(x) /\ slot'[x].user = Len(users')
      <4>1. Len(users') = Len(users) + 1
        BY <1>0, <3>4 DEF CreateUser
      <4> QED
        BY <1>0, <2>1, <2>5, <3>4, <4>1
    <3>5. CASE slot'[x].pc \in Reading \cup {"idle"}
      <4>1. Knows(slot'[x], users', links')
        BY StepSlotsKnow DEF SlotsKnow
      <4>2. slot'[x].user = 0
        BY <3>5, <4>1 DEF Knows, Idle
      <4> QED
        BY <1>0, <2>1, <2>5, <4>2
    <3> QED
      BY <3>1, <3>2, <3>3, <3>4, <3>5, Movement DEF Alone
  <2> QED
    BY <1>1, <2>3, <2>4, <2>5
<1>2. CASE slot'[w] # slot[w]
  <2>1. CreateUser(w) /\ slot'[w].user = Len(users') /\ Alone(w)
    BY <1>2, Movement DEF Alone, Reading
  <2>2. /\ Len(users') = Len(users) + 1 /\ users'[Len(users')].live
        /\ sessions' = sessions
    BY <1>0, <2>1 DEF CreateUser
  <2>3. Len(users') \notin sessions'
    BY <1>0, <2>2 DEF Known, IndexLeads
  <2>4. ASSUME NEW x \in Slots, x # w PROVE slot'[x].user # Len(users')
    <3>1. slot'[x] = slot[x] /\ (slot[x].user = 0 \/ slot[x].user \in DOMAIN users)
      BY <2>1, <2>4, UnderWay DEF Alone
    <3> QED
      BY <1>0, <2>2, <3>1
  <2> QED
    BY <2>1, <2>2, <2>3, <2>4
<1> QED
  BY <1>1, <1>2

LEMMA StepDeletionSoFar ==
    ASSUME Known, CreatorsAlone, DeletionSoFar, [Next]_vars
    PROVE  DeletionSoFar'
<1> SUFFICES ASSUME NEW w \in Slots
             PROVE  /\ slot'[w].pc \in Deleting \cup Ending => slot'[w].user \in sessions'
                    /\ slot'[w].pc = "unusering" => index'[slot'[w].email] # slot'[w].user
                    /\ slot'[w].pc \in Ending => ~users'[slot'[w].user].live
                    /\ slot'[w].pc = "unbilling" /\ slot'[w].user \in vault' => slot'[w].user \in late'
  BY DEF DeletionSoFar
<1> DEFINE u == slot'[w].user
<1>0. /\ Kept(users, users') /\ sessions \subseteq sessions' /\ TypeOK
      /\ index \in [Addresses -> 0..MaxUsers]
  BY UsersKept, IdentityMoves, TypedIsTypeOK DEF Known, Typed
<1>1. ASSUME NEW e \in Addresses, NEW v \in sessions, index[e] # v PROVE index'[e] # v
  <2>1. 0 \notin sessions
    BY Numbering DEF Known, IndexLeads
  <2>2. \A x \in Slots : IndexUser(x) => slot[x].user \notin sessions
    BY DEF IndexUser, CreatorsAlone
  <2> QED
    BY <1>1, <2>1, <2>2, IdentityMoves
<1>2. CASE slot'[w] = slot[w]
  <2>1. slot[w].pc \in Deleting \cup Ending => u \in sessions /\ slot[w].email \in Addresses
    BY <1>2, UnderWay DEF DeletionSoFar, Deleting, Ending, Reading
  <2>2. slot[w].pc = "unusering" => index'[slot'[w].email] # u
    BY <1>1, <1>2, <2>1 DEF DeletionSoFar, Deleting
  <2>3. slot[w].pc \in Ending => ~users'[u].live
    BY <1>0, <1>2, <2>1 DEF DeletionSoFar, Kept, Known, IndexLeads
  <2>4. slot[w].pc = "unbilling" /\ u \in vault' => u \in late'
    <3> SUFFICES ASSUME slot[w].pc = "unbilling", u \in vault' PROVE u \in late'
      OBVIOUS
    <3>1. u \in vault => u \in late
      BY <1>2 DEF DeletionSoFar
    <3>2. ASSUME NEW v \in DOMAIN users, StoreCredentials(v)
          PROVE  vault' = vault \cup {v} /\ late \subseteq late' /\ (v = u => u \in late')
      BY <1>2, <3>2 DEF StoreCredentials, Late, BeingDeleted
    <3>3. \/ vault' \subseteq vault /\ late' = late
          \/ \E v \in DOMAIN users : StoreCredentials(v)
      BY DEF Next, SignIn, Delete, vars, mail, identity, data, RequestLink, MintLink, OpenLink, ConsumeLink,
             FindUser, MissUser, CreateUser, IndexUser, ReadAccount, Unindex, DeleteRecord, EmptyVault,
             DropBilling, Crash, WindowEnds
    <3> QED
      BY <3>1, <3>2, <3>3
  <2> QED
    BY <1>0, <1>2, <2>1, <2>2, <2>3, <2>4
<1>3. CASE slot'[w].pc \in Reading \cup {"idle"}
  BY <1>3 DEF Reading, Deleting, Ending
<1>4. CASE slot'[w].pc = "indexing"
  BY <1>4 DEF Deleting, Ending
<1>5. ASSUME NEW v \in DOMAIN users, ReadAccount(w, v), u = v,
             slot'[w].pc \in {"unindexing", "emptying"}, u \in sessions
      PROVE  slot'[w].pc = "emptying" => ~users'[u].live
  <2>1. slot'[w].pc = (IF users[v].live THEN "unindexing" ELSE "emptying") /\ users' = users
    BY <1>0, <1>5, TypedIsTypeOK DEF ReadAccount, Typed, Idle
  <2> QED
    BY <1>5, <2>1
<1>6. ASSUME u = slot[w].user, slot'[w].email = slot[w].email, Unindex(w), slot'[w].pc = "unusering"
      PROVE  u \in sessions /\ index'[slot'[w].email] # u
  <2>1. u \in sessions /\ u \in DOMAIN users /\ slot[w].email \in Addresses
    BY <1>6, UnderWay DEF Unindex, DeletionSoFar, Deleting, Reading
  <2>2. index'[slot[w].email] = 0
    BY <1>0, <1>6, <2>1 DEF Unindex
  <2> QED
    BY <1>6, <2>1, <2>2, Numbering DEF Known
<1>7. ASSUME u = slot[w].user, DeleteRecord(w), slot'[w].pc = "emptying"
      PROVE  u \in sessions /\ ~users'[u].live
  <2>1. u \in sessions /\ u \in DOMAIN users
    BY <1>7, UnderWay DEF DeleteRecord, DeletionSoFar, Deleting, Reading
  <2> QED
    BY <1>7, <2>1, Numbering DEF DeleteRecord, Known, Account
<1>8. ASSUME u = slot[w].user, EmptyVault(w), slot'[w].pc = "unbilling"
      PROVE  u \in sessions /\ ~users'[u].live /\ u \notin vault'
  BY <1>8 DEF EmptyVault, DeletionSoFar, Ending, identity
<1> QED
  BY <1>0, <1>2, <1>3, <1>4, <1>5, <1>6, <1>7, <1>8, Movement DEF Alone, Deleting, Ending

LEMMA StepGone ==
    ASSUME Known, DeletionSoFar, Gone, CreatorsAlone, [Next]_vars
    PROVE  Gone'
<1> SUFFICES ASSUME NEW u \in erased' PROVE ~users'[u].live /\ (u \in vault' => u \in late')
  BY DEF Gone
<1>1. u \in DOMAIN users /\ ~users[u].live /\ (u \in vault => u \in late)
  <2>1. CASE u \in erased
    BY <2>1 DEF Gone, Known, IndexLeads
  <2>2. CASE u \notin erased
    BY <2>2, IdentityMoves, UnderWay DEF DropBilling, DeletionSoFar, Ending, Reading
  <2> QED
    BY <2>1, <2>2
<1>2. ~users'[u].live
  BY <1>1, UsersKept DEF Kept
<1>3. ASSUME NEW v \in DOMAIN users, StoreCredentials(v)
      PROVE  vault' = vault \cup {v} /\ late \subseteq late' /\ (v = u => u \in late')
  BY <1>3 DEF StoreCredentials, Late
<1>4. \/ vault' \subseteq vault /\ late' = late
      \/ \E v \in DOMAIN users : StoreCredentials(v)
  BY DEF Next, SignIn, Delete, vars, mail, identity, data, RequestLink, MintLink, OpenLink, ConsumeLink,
         FindUser, MissUser, CreateUser, IndexUser, ReadAccount, Unindex, DeleteRecord, EmptyVault,
         DropBilling, Crash, WindowEnds
<1> QED
  BY <1>1, <1>2, <1>3, <1>4

-----------------------------------------------------------------------------
(* Counting the invocations that are under way. *)

LEMMA UnderCounted ==
    ASSUME NEW e, NEW pcs
    PROVE  /\ IsFiniteSet(Under(e, pcs)) /\ Cardinality(Under(e, pcs)) \in Nat
           /\ IsFiniteSet(Under(e, pcs)') /\ Cardinality(Under(e, pcs)') \in Nat
<1>1. Under(e, pcs) \subseteq Slots /\ Under(e, pcs)' \subseteq Slots
  BY DEF Under
<1> QED
  BY <1>1, AccountBoundsAssumption, FS_Subset, FS_CardinalityType

\* One joins, one leaves, or none does.
LEMMA UnderMoves ==
    ASSUME NEW e, NEW pcs, NEW w \in Slots, Alone(w)
    PROVE  IF slot'[w].email = e /\ slot'[w].pc \in pcs
           THEN Under(e, pcs)' = Under(e, pcs) \cup {w}
           ELSE /\ Under(e, pcs)' = Under(e, pcs) \ {w}
                /\ w \notin Under(e, pcs) => Under(e, pcs)' = Under(e, pcs)
  BY DEF Under, Alone

LEMMA Counting ==
    ASSUME NEW S, IsFiniteSet(S), NEW w
    PROVE  /\ Cardinality(S) \in Nat
           /\ w \notin S => Cardinality(S \cup {w}) = Cardinality(S) + 1 /\ S \ {w} = S
           /\ w \in S => Cardinality(S \ {w}) = Cardinality(S) - 1 /\ S \cup {w} = S
           /\ S = {} <=> Cardinality(S) = 0
<1>1. Cardinality(S) \in Nat /\ (S = {} <=> Cardinality(S) = 0)
  BY FS_CardinalityType, FS_EmptySet
<1>2. ASSUME w \notin S PROVE Cardinality(S \cup {w}) = Cardinality(S) + 1 /\ S \ {w} = S
  BY <1>2, FS_AddElement
<1>3. ASSUME w \in S PROVE Cardinality(S \ {w}) = Cardinality(S) - 1 /\ S \cup {w} = S
  BY <1>3, FS_RemoveElement
<1> QED
  BY <1>1, <1>2, <1>3

LEMMA NonEmpty ==
    ASSUME NEW S, IsFiniteSet(S), S # {}
    PROVE  Cardinality(S) \in Nat /\ Cardinality(S) >= 1
<1>1. Cardinality(S) \in Nat /\ Cardinality(S) # 0
  BY FS_CardinalityType, FS_EmptySet
<1> QED
  BY <1>1

LEMMA StepLimiter ==
    ASSUME Known, Limiter, [Next]_vars
    PROVE  Limiter'
<1> SUFFICES ASSUME NEW e \in Addresses PROVE LimiterAt(e)'
  BY DEF Limiter
<1> DEFINE B == Writers(e)
<1>0. /\ IsFiniteSet(B) /\ Cardinality(B) \in Nat /\ TypeOK
      /\ count[e] \in Nat /\ allowed[e] \in Nat /\ racing[e] \in Nat
      /\ \A w \in Slots : slot[w].seen \in Nat
      /\ \A w \in B : w \in Slots /\ slot[w].pc = "bumping" /\ slot[w].email = e
      /\ LimiterAt(e)
  <2>1. IsFiniteSet(B) /\ Cardinality(B) \in Nat
    BY UnderCounted DEF Writers
  <2>2. \A w \in Slots : slot[w].seen \in Nat
    BY TypedIsTypeOK DEF Known, Typed, Invocation
  <2>3. count[e] \in Nat /\ allowed[e] \in Nat /\ racing[e] \in Nat
    BY TypedIsTypeOK DEF Known, Typed
  <2> QED
    BY <2>1, <2>2, <2>3 DEF Known, Limiter, Writers, Under
<1> DEFINE Same == /\ Writers(e)' = B /\ \A w \in B : slot'[w].seen = slot[w].seen
                   /\ count'[e] = count[e] /\ allowed'[e] = allowed[e] /\ racing'[e] = racing[e]
<1>1. ASSUME Same PROVE LimiterAt(e)'
  BY <1>0, <1>1 DEF LimiterAt, Spent
<1>2. ASSUME NEW w \in Slots, NEW f \in Addresses, RequestLink(w, f), f # e PROVE Same
  <2>1. slot'[w].email = f /\ slot[w] = Idle /\ Alone(w)
    BY <1>0, <1>2, TypedIsTypeOK DEF RequestLink, Alone, Idle, Typed
  <2>2. w \notin B
    BY <1>0, <2>1 DEF Idle
  <2>3. Writers(e)' = B
    BY <1>2, <2>1, <2>2, UnderMoves, Zenon DEF Writers
  <2>4. count'[e] = count[e] /\ allowed'[e] = allowed[e] /\ racing'[e] = racing[e]
    BY <1>0, <1>2, TypedIsTypeOK DEF RequestLink, Typed
  <2> QED
    BY <1>0, <2>1, <2>2, <2>3, <2>4 DEF Alone
<1>3. ASSUME NEW w \in Slots, RequestLink(w, e) PROVE LimiterAt(e)'
  <2>1. /\ slot'[w].email = e /\ slot'[w].pc = "bumping" /\ slot'[w].seen = count[e]
        /\ slot[w] = Idle /\ Alone(w)
    BY <1>0, <1>3, TypedIsTypeOK DEF RequestLink, Alone, Idle, Typed
  <2>2. w \notin B
    BY <1>0, <2>1 DEF Idle
  <2>3. /\ Writers(e)' = B \cup {w} /\ Cardinality(Writers(e)') = Cardinality(B) + 1
        /\ \A x \in B : slot'[x].seen = slot[x].seen
    BY <1>0, <2>1, <2>2, UnderMoves, Counting DEF Writers, Alone
  <2>4. /\ count'[e] = count[e] /\ allowed'[e] = allowed[e]
        /\ racing'[e] = racing[e] + (IF B = {} THEN 0 ELSE 1)
    BY <1>3, TypedIsTypeOK DEF RequestLink, Known, Typed, Writers
  <2> HIDE DEF B
  <2>5. CASE B = {}
    BY <1>0, <2>1, <2>3, <2>4, <2>5 DEF LimiterAt, Spent, B
  <2>6. CASE B # {}
    <3>1. Spent(e)' = Spent(e) + 1 /\ Spent(e) \in Nat /\ Writers(e)' # {}
      BY <1>0, <2>3, <2>4 DEF Spent, B
    <3>2. racing'[e] = racing[e] + 1 /\ count'[e] = count[e]
      BY <2>4, <2>6
    <3>3. ASSUME NEW x \in Writers(e)' PROVE Spent(e)' <= slot'[x].seen + 1 + racing'[e]
      <4>1. CASE x = w
        BY <1>0, <2>1, <3>1, <3>2, <4>1 DEF LimiterAt
      <4>2. CASE x \in B
        BY <1>0, <2>3, <3>1, <3>2, <4>2 DEF LimiterAt, B
      <4> QED
        BY <2>3, <3>3, <4>1, <4>2
    <3> QED
      BY <1>0, <3>1, <3>2, <3>3 DEF LimiterAt
  <2> QED
    BY <2>5, <2>6
<1>4. ASSUME NEW w \in Slots, w \notin B, Alone(w), slot'[w].pc # "bumping",
             count'[e] = count[e], allowed'[e] = allowed[e], racing'[e] = racing[e]
      PROVE  Same
  <2>1. Writers(e)' = B
    <3>1. slot'[w].pc \notin {"bumping"}
      BY <1>4
    <3> QED
      BY <1>4, <3>1, UnderMoves, Zenon DEF Writers
  <2> QED
    BY <1>0, <1>4, <2>1 DEF Alone
<1>5. ASSUME NEW w \in Slots, NEW minted \in BOOLEAN, MintLink(w, minted) PROVE LimiterAt(e)'
  <2>1. slot[w].pc = "bumping" /\ slot'[w].pc = "idle" /\ Alone(w)
    BY <1>0, <1>5, Stopping DEF MintLink, Idle
  <2>2. CASE slot[w].email # e
    <3>1. count'[e] = count[e] /\ allowed'[e] = allowed[e] /\ racing'[e] = racing[e]
      BY <1>5, <2>2, TypedIsTypeOK DEF MintLink, Known, Typed
    <3> QED
      BY <1>0, <1>1, <1>4, <2>1, <2>2, <3>1
  <2>3. CASE slot[w].email = e
    <3>1. count'[e] = slot[w].seen + 1 /\ allowed'[e] = allowed[e] + 1 /\ racing'[e] = racing[e]
      BY <1>5, <2>3, TypedIsTypeOK DEF MintLink, Known, Typed
    <3>2. w \in B
      BY <2>1, <2>3 DEF Writers, Under
    <3>0. slot'[w].pc \notin {"bumping"}
      BY <2>1
    <3>3. Writers(e)' = B \ {w} /\ \A x \in B \ {w} : slot'[x].seen = slot[x].seen
      BY <1>0, <2>1, <3>0, UnderMoves DEF Writers, Alone
    <3>4. Spent(e)' = Spent(e) /\ Spent(e) \in Nat
      BY <1>0, <3>1, <3>2, <3>3, Counting DEF Spent
    <3> QED
      BY <1>0, <3>1, <3>2, <3>3, <3>4 DEF LimiterAt
  <2> QED
    BY <2>2, <2>3
<1>6. ASSUME NEW w \in Slots, Crash(w) PROVE LimiterAt(e)'
  <2>1. /\ slot'[w].pc = "idle" /\ Alone(w)
        /\ count'[e] = count[e] /\ allowed'[e] = allowed[e] /\ racing'[e] = racing[e]
    BY <1>0, <1>6, Stopping DEF Crash, Idle, mail
  <2>2. CASE w \notin B
    BY <1>1, <1>4, <2>1, <2>2
  <2>3. CASE w \in B
    <3>1. Writers(e)' = B \ {w} /\ \A x \in B \ {w} : slot'[x].seen = slot[x].seen
      BY <1>0, <2>1, UnderMoves DEF Writers, Alone
    <3>2. Spent(e)' = Spent(e) - 1 /\ Spent(e) \in Nat
      BY <1>0, <2>1, <2>3, <3>1, Counting DEF Spent
    <3> QED
      BY <1>0, <2>1, <3>1, <3>2 DEF LimiterAt
  <2> QED
    BY <2>2, <2>3
<1>7. ASSUME NEW f \in Addresses, WindowEnds(f) PROVE LimiterAt(e)'
  <2>1. Writers(e)' = B /\ slot' = slot
    BY <1>7 DEF WindowEnds, Writers, Under
  <2>2. CASE f # e
    BY <1>1, <1>7, <2>1, <2>2, TypedIsTypeOK DEF WindowEnds, Known, Typed
  <2>3. CASE f = e
    <3>1. count'[e] = 0 /\ allowed'[e] = 0 /\ racing'[e] = Cardinality(B)
      BY <1>7, <2>3, TypedIsTypeOK DEF WindowEnds, Known, Typed, Writers
    <3> QED
      BY <1>0, <2>1, <3>1 DEF LimiterAt, Spent
  <2> QED
    BY <2>2, <2>3
<1>8. CASE count' = count /\ allowed' = allowed /\ racing' = racing /\ slot' = slot
  BY <1>1, <1>8 DEF Writers, Under
<1>9. ASSUME NEW w \in Slots, Alone(w), slot[w].pc # "bumping", slot'[w].pc # "bumping",
             count' = count, allowed' = allowed, racing' = racing
      PROVE  LimiterAt(e)'
  BY <1>0, <1>1, <1>4, <1>9
<1>10. ASSUME NEW w \in Slots,
              \/ \E l \in DOMAIN links : OpenLink(w, l)
              \/ \E expired \in BOOLEAN : ConsumeLink(w, expired)
              \/ FindUser(w) \/ MissUser(w) \/ CreateUser(w) \/ IndexUser(w) \/ Delete(w)
       PROVE  LimiterAt(e)'
  <2>1. count' = count /\ allowed' = allowed /\ racing' = racing
    <3>1. ASSUME NEW u \in DOMAIN users, ReadAccount(w, u)
          PROVE  count' = count /\ allowed' = allowed /\ racing' = racing
      BY <3>1 DEF ReadAccount, mail
    <3>2. ASSUME NEW l \in DOMAIN links, OpenLink(w, l)
          PROVE  count' = count /\ allowed' = allowed /\ racing' = racing
      BY <3>2 DEF OpenLink, mail
    <3> QED
      BY <1>10, <3>1, <3>2 DEF Delete, mail, ConsumeLink, FindUser, MissUser, CreateUser, IndexUser,
                               Unindex, DeleteRecord, EmptyVault, DropBilling
  <2>2. slot[w].pc # "bumping"
    <3>1. slot[w] = Idle => slot[w].pc = "idle"
      BY DEF Idle
    <3> QED
      BY <1>10, <3>1 DEF Delete, OpenLink, ConsumeLink, FindUser, MissUser, CreateUser, IndexUser,
                         ReadAccount, Unindex, DeleteRecord, EmptyVault, DropBilling
  <2>3. CASE End(w)
    BY <1>0, <1>9, <2>1, <2>2, <2>3, Stopping DEF Idle
  <2>4. ASSUME NEW pc \in PCs \ {"bumping"}, Go(w, pc) PROVE LimiterAt(e)'
    BY <1>0, <1>9, <2>1, <2>2, <2>4, Going
  <2>5. ASSUME NEW l \in DOMAIN links, OpenLink(w, l) PROVE LimiterAt(e)'
    <3>1. slot'[w].pc = "opened" /\ Alone(w)
      BY <1>0, <2>5, TypedIsTypeOK DEF OpenLink, Alone, Idle, Typed
    <3> QED
      BY <1>9, <2>1, <2>2, <3>1
  <2>6. CASE CreateUser(w)
    <3>1. slot'[w].pc = "indexing" /\ Alone(w)
      BY <1>0, <2>6, TypedIsTypeOK DEF CreateUser, Alone, Invocation, Typed
    <3> QED
      BY <1>9, <2>1, <2>2, <3>1
  <2>7. ASSUME NEW u \in DOMAIN users, ReadAccount(w, u) PROVE LimiterAt(e)'
    <3>1. slot'[w].pc \in {"unindexing", "emptying"} /\ Alone(w)
      BY <1>0, <2>7, TypedIsTypeOK DEF ReadAccount, Alone, Idle, Typed
    <3> QED
      BY <1>9, <2>1, <2>2, <3>1
  <2>8. \/ End(w) \/ CreateUser(w)
        \/ \E pc \in PCs \ {"bumping"} : Go(w, pc)
        \/ \E l \in DOMAIN links : OpenLink(w, l)
        \/ \E u \in DOMAIN users : ReadAccount(w, u)
    BY <1>10 DEF Delete, ConsumeLink, FindUser, MissUser, IndexUser, Unindex, DeleteRecord, EmptyVault,
                 DropBilling, PCs, Creating, Deleting
  <2> QED
    BY <2>3, <2>4, <2>5, <2>6, <2>7, <2>8
<1>11. ASSUME NEW u \in DOMAIN users, StoreCredentials(u) PROVE LimiterAt(e)'
  BY <1>8, <1>11 DEF StoreCredentials, mail
<1>12. CASE UNCHANGED vars
  BY <1>8, <1>12 DEF vars, mail
<1> QED
  <2>1. ASSUME NEW w \in Slots, NEW f \in Addresses, RequestLink(w, f) PROVE LimiterAt(e)'
    BY <1>1, <1>2, <1>3, <2>1
  <2> QED
    BY <2>1, <1>5, <1>6, <1>7, <1>10, <1>11, <1>12 DEF Next, SignIn

-----------------------------------------------------------------------------
(* Strays. *)

LEMMA Sizes ==
    ASSUME Known, [Next]_vars, NEW e \in Addresses
    PROVE  /\ IsFiniteSet(Strays(e)) /\ Cardinality(Strays(e)) \in Nat
           /\ IsFiniteSet(Strays(e)') /\ Cardinality(Strays(e)') \in Nat
           /\ Cardinality(Creators(e)) \in Nat /\ Cardinality(Creators(e)') \in Nat
           /\ Cardinality(Deleters(e)) \in Nat /\ Cardinality(Deleters(e)') \in Nat
           /\ overlaps[e] \in Nat /\ overlaps'[e] \in Nat /\ crashes \in Nat /\ crashes' \in Nat
           /\ First(e) \in {0, 1} /\ First(e)' \in {0, 1} /\ Own(e) \in {0, 1} /\ Own(e)' \in {0, 1}
<1>1. TypeOK /\ TypeOK'
  BY StepTypeOK DEF Known
<1>2. IsFiniteSet(DOMAIN users) /\ IsFiniteSet(DOMAIN users')
  <2>1. \E n \in Nat : DOMAIN users = 1..n
    BY <1>1, Numbering
  <2>2. users' \in Seq(Account)
    BY <1>1 DEF TypeOK, Account
  <2>3. \E n \in Nat : DOMAIN users' = 1..n
    BY <2>2
  <2> QED
    BY <2>1, <2>3, FS_Interval
<1>3. Strays(e) \subseteq DOMAIN users /\ Strays(e)' \subseteq DOMAIN users'
  BY DEF Strays
<1>4. /\ IsFiniteSet(Strays(e)) /\ Cardinality(Strays(e)) \in Nat
      /\ IsFiniteSet(Strays(e)') /\ Cardinality(Strays(e)') \in Nat
  BY <1>2, <1>3, FS_Subset, FS_CardinalityType
<1>5. /\ Cardinality(Creators(e)) \in Nat /\ Cardinality(Creators(e)') \in Nat
      /\ Cardinality(Deleters(e)) \in Nat /\ Cardinality(Deleters(e)') \in Nat
  BY UnderCounted DEF Creators, Deleters
<1>6. overlaps[e] \in Nat /\ overlaps'[e] \in Nat /\ crashes \in Nat /\ crashes' \in Nat
  BY <1>1, AccountBoundsAssumption DEF TypeOK
<1> QED
  BY <1>4, <1>5, <1>6 DEF First, Own

\* One stray more, one for another, or none.
LEMMA Swapping ==
    ASSUME NEW S, NEW T, IsFiniteSet(S), IsFiniteSet(T), NEW v
    PROVE  /\ T \subseteq S => Cardinality(T) <= Cardinality(S)
           /\ T \subseteq S \cup {v} => Cardinality(T) <= Cardinality(S) + 1
           /\ \A u \in S : T \subseteq (S \ {u}) \cup {v} => Cardinality(T) <= Cardinality(S)
<1>1. ASSUME NEW R, IsFiniteSet(R), T \subseteq R \cup {v} PROVE Cardinality(T) <= Cardinality(R) + 1
  <2>1. IsFiniteSet(R \cup {v}) /\ Cardinality(R \cup {v}) <= Cardinality(R) + 1
    <3>1. IsFiniteSet(R \cup {v}) /\ Cardinality(R) \in Nat
      BY <1>1, FS_AddElement, FS_CardinalityType
    <3>2. Cardinality(R \cup {v}) = Cardinality(R) \/ Cardinality(R \cup {v}) = Cardinality(R) + 1
      BY <1>1, Counting
    <3> QED
      BY <3>1, <3>2
  <2>2. Cardinality(T) <= Cardinality(R \cup {v})
    BY <1>1, <2>1, FS_Subset
  <2> QED
    BY <1>1, <2>1, <2>2, FS_CardinalityType
<1>2. ASSUME NEW u \in S, T \subseteq (S \ {u}) \cup {v} PROVE Cardinality(T) <= Cardinality(S)
  <2>1. IsFiniteSet(S \ {u}) /\ Cardinality(S \ {u}) = Cardinality(S) - 1 /\ Cardinality(S) \in Nat
    BY FS_RemoveElement, FS_CardinalityType
  <2>2. Cardinality(T) <= Cardinality(S \ {u}) + 1
    BY <1>1, <1>2, <2>1
  <2> QED
    BY <2>1, <2>2, FS_CardinalityType
<1> QED
  BY <1>1, <1>2, FS_Subset

\* An invocation that neither creates nor deletes disturbs nothing.
LEMMA Quiet ==
    ASSUME NEW w \in Slots, Alone(w), users' = users, index' = index, NEW e \in Addresses,
           slot[w].pc \notin Creating \cup Deleting, slot'[w].pc \notin Creating \cup Deleting
    PROVE  /\ Strays(e)' = Strays(e) /\ Creators(e)' = Creators(e) /\ Deleters(e)' = Deleters(e)
           /\ First(e)' = First(e) /\ Own(e)' = Own(e)
<1>1. Creators(e)' = Creators(e) /\ Deleters(e)' = Deleters(e)
  BY DEF Creators, Deleters, Under, Alone, Deleting
<1>2. \A u : Moving(u)' = Moving(u) /\ Unusering(u)' = Unusering(u)
  BY DEF Moving, Unusering, Alone, Creating, Deleting
<1>3. Strays(e)' = Strays(e)
  BY <1>2 DEF Strays
<1>4. \A x \in Deleters(e) : slot'[x] = slot[x]
  BY DEF Deleters, Under, Alone, Deleting
<1> QED
  BY <1>1, <1>2, <1>3, <1>4 DEF First, Own, Pending

LEMMA MissUserPaid ==
    ASSUME Known, [Next]_vars, NEW e \in Addresses, PaidAt(e), NEW w \in Slots, MissUser(w)
    PROVE  PaidAt(e)'
<1>1. /\ Alone(w) /\ slot'[w].pc = "creating" /\ slot'[w].email = slot[w].email
      /\ slot[w].pc = "consumed" /\ users' = users /\ index' = index /\ crashes' = crashes
  BY Going DEF MissUser, Known
<1>2. \A u : Moving(u)' = Moving(u) /\ Unusering(u)' = Unusering(u)
  BY <1>1 DEF Moving, Unusering, Alone
<1>3. Strays(e)' = Strays(e)
  BY <1>1, <1>2 DEF Strays
<1>4. Deleters(e)' = Deleters(e) /\ Own(e)' = Own(e)
  <2>1. Deleters(e)' = Deleters(e) /\ \A x \in Deleters(e) : slot'[x] = slot[x]
    BY <1>1 DEF Deleters, Under, Alone
  <2> QED
    BY <1>1, <1>2, <2>1 DEF Own, Pending
<1>5. CASE slot[w].email # e
  <2>1. Creators(e)' = Creators(e) /\ overlaps'[e] = overlaps[e]
    BY <1>1, <1>5, TypedIsTypeOK DEF Creators, Under, Alone, MissUser, Overlap, Known, Typed
  <2> QED
    BY <1>1, <1>3, <1>4, <2>1 DEF PaidAt, First
<1>6. CASE slot[w].email = e
  <2>1. w \notin Creators(e) /\ Creators(e)' = Creators(e) \cup {w}
    BY <1>1, <1>6 DEF Creators, Under, Alone, Creating
  <2>2. Cardinality(Creators(e)') = Cardinality(Creators(e)) + 1
    BY <2>1, UnderCounted, Counting DEF Creators
  <2>3. overlaps'[e] = overlaps[e] + (IF Creators(e) = {} THEN 0 ELSE 1) /\ index[e] = 0
    BY <1>6, TypedIsTypeOK DEF MissUser, Overlap, Known, Typed, Creators
  <2>4. First(e)' = 1 /\ First(e) = (IF Creators(e) = {} THEN 0 ELSE 1)
    BY <1>1, <2>1, <2>3 DEF First
  <2> QED
    BY <1>1, <1>3, <1>4, <2>2, <2>3, <2>4, Sizes DEF PaidAt
<1> QED
  BY <1>5, <1>6

LEMMA CreateUserPaid ==
    ASSUME Known, [Next]_vars, NEW e \in Addresses, PaidAt(e), NEW w \in Slots, CreateUser(w)
    PROVE  PaidAt(e)'
<1>1. /\ Alone(w) /\ slot'[w].pc = "indexing" /\ slot'[w].email = slot[w].email
      /\ slot'[w].user = Len(users') /\ slot[w].pc = "creating" /\ index' = index
      /\ crashes' = crashes /\ overlaps' = overlaps
  BY TypedIsTypeOK DEF CreateUser, Known, Typed, Invocation, Alone, data
<1>2. /\ Len(users') = Len(users) + 1 /\ DOMAIN users = 1..Len(users) /\ Len(users) \in Nat
      /\ DOMAIN users' = 1..(Len(users) + 1) /\ \A u \in DOMAIN users : users'[u] = users[u]
  BY Numbering DEF CreateUser, Known
<1>3. \A u \in DOMAIN users : Moving(u)' = Moving(u) /\ Unusering(u)' = Unusering(u)
  BY <1>1, <1>2 DEF Moving, Unusering, Alone
<1>4. Strays(e)' = Strays(e)
  <2>1. \A u : u = Len(users) + 1 => Moving(u)'
    BY <1>1, <1>2 DEF Moving
  <2> QED
    BY <1>1, <1>2, <1>3, <2>1 DEF Strays
<1>5. Creators(e)' = Creators(e) /\ Deleters(e)' = Deleters(e)
  BY <1>1 DEF Creators, Deleters, Under, Alone, Creating
<1>6. Own(e)' = Own(e)
  <2>1. \A x \in Deleters(e) : slot'[x] = slot[x] /\ slot[x].user \in DOMAIN users
    BY <1>1, UnderWay DEF Deleters, Under, Alone, Reading
  <2> QED
    BY <1>2, <1>3, <1>5, <2>1 DEF Own, Pending
<1> QED
  BY <1>1, <1>4, <1>5, <1>6 DEF PaidAt, First

LEMMA IndexUserPaid ==
    ASSUME Known, CreatorsAlone, [Next]_vars, NEW e \in Addresses, PaidAt(e),
           NEW w \in Slots, IndexUser(w)
    PROVE  PaidAt(e)'
<1> DEFINE u == slot[w].user
           v == index[e]
<1>1. /\ Alone(w) /\ slot'[w] = Idle /\ slot'[w].pc = "idle" /\ slot[w].pc = "indexing"
      /\ users' = users /\ overlaps' = overlaps /\ crashes' = crashes
  BY Stopping DEF IndexUser, Known, Idle
<1>2. u \in DOMAIN users /\ users[u].email = slot[w].email /\ users[u].live
  BY <1>1, UnderWay DEF CreatorsAlone, Reading
<1>3. \A x : x # u => Moving(x)' = Moving(x)
  BY <1>1 DEF Moving, Alone
<1>4. \A x : Unusering(x)' = Unusering(x)
  BY <1>1 DEF Unusering, Alone
<1>5. Deleters(e)' = Deleters(e) /\ Own(e)' = Own(e)
  <2>1. Deleters(e)' = Deleters(e) /\ \A x \in Deleters(e) : slot'[x] = slot[x]
    BY <1>1 DEF Deleters, Under, Alone
  <2> QED
    BY <1>1, <1>4, <2>1 DEF Own, Pending
<1>6. CASE slot[w].email # e
  <2>1. Creators(e)' = Creators(e) /\ index'[e] = index[e]
    BY <1>1, <1>6, TypedIsTypeOK DEF Creators, Under, Alone, IndexUser, Known, Typed, Creating
  <2>2. Strays(e)' = Strays(e)
    BY <1>1, <1>2, <1>3, <1>6, <2>1 DEF Strays
  <2> QED
    BY <1>1, <1>5, <2>1, <2>2 DEF PaidAt, First
<1>7. CASE slot[w].email = e
  <2>1. w \in Creators(e) /\ Creators(e)' = Creators(e) \ {w}
    BY <1>1, <1>7 DEF Creators, Under, Alone, Creating
  <2>2. Cardinality(Creators(e)') = Cardinality(Creators(e)) - 1
    BY <2>1, UnderCounted, Counting DEF Creators
  <2>3. index'[e] = u /\ u # 0
    BY <1>2, <1>7, TypedIsTypeOK, Numbering DEF IndexUser, Known, Typed
  <2>4. Strays(e)' \subseteq Strays(e) \cup {v}
    BY <1>1, <1>3, <2>3 DEF Strays
  <2>5. CASE v = 0
    <3>1. Strays(e)' \subseteq Strays(e)
      BY <1>1, <2>4, <2>5, Numbering DEF Strays, Known
    <3>2. First(e) = 1 /\ First(e)' = 0
      BY <2>1, <2>3, <2>5 DEF First
    <3>3. Cardinality(Strays(e)') <= Cardinality(Strays(e))
      BY <3>1, Swapping, Sizes
    <3> QED
      BY <1>1, <1>5, <2>2, <3>2, <3>3, Sizes DEF PaidAt
  <2>6. CASE v # 0
    <3>1. First(e) = 0 /\ First(e)' = 0
      BY <2>3, <2>6 DEF First
    <3>2. Cardinality(Strays(e)') <= Cardinality(Strays(e)) + 1
      BY <2>4, Swapping, Sizes
    <3> QED
      BY <1>1, <1>5, <2>2, <3>1, <3>2, Sizes DEF PaidAt
  <2> QED
    BY <2>5, <2>6
<1> QED
  BY <1>6, <1>7

LEMMA ReadAccountPaid ==
    ASSUME Known, [Next]_vars, NEW e \in Addresses, PaidAt(e),
           NEW w \in Slots, NEW u \in DOMAIN users, ReadAccount(w, u)
    PROVE  PaidAt(e)'
<1> DEFINE target == IF users[u].live THEN "unindexing" ELSE "emptying"
<1>1. /\ Alone(w) /\ slot'[w].pc = target /\ slot'[w].email = users[u].email /\ slot'[w].user = u
      /\ slot[w].pc = "idle" /\ users' = users /\ index' = index /\ crashes' = crashes
  BY TypedIsTypeOK DEF ReadAccount, Known, Typed, Idle, Alone
<1>2. \A x : Moving(x)' = Moving(x) /\ Unusering(x)' = Unusering(x)
  BY <1>1 DEF Moving, Unusering, Alone
<1>3. Strays(e)' = Strays(e)
  BY <1>1, <1>2 DEF Strays
<1>4. Creators(e)' = Creators(e) /\ First(e)' = First(e)
  <2>1. Creators(e)' = Creators(e)
    BY <1>1 DEF Creators, Under, Alone, Creating
  <2> QED
    BY <1>1, <2>1 DEF First
<1>5. w \notin Deleters(e) /\ \A x \in Deleters(e) : slot'[x] = slot[x]
  BY <1>1 DEF Deleters, Under, Alone
<1>6. /\ users[u].email # e => overlaps'[e] = overlaps[e]
      /\ users[u].email = e => overlaps'[e] = overlaps[e]
             + (IF Under(e, IF users[u].live THEN Deleting ELSE {}) = {} THEN 0 ELSE 1)
  <2>1. overlaps \in [Addresses -> Nat]
    BY TypedIsTypeOK DEF Known, Typed
  <2> QED
    BY <2>1 DEF ReadAccount, Overlap
<1>7. CASE ~(users[u].live /\ users[u].email = e)
  <2>1. Deleters(e)' = Deleters(e)
    BY <1>1, <1>7 DEF Deleters, Under, Alone
  <2>2. Own(e)' = Own(e)
    BY <1>1, <1>2, <1>5, <2>1 DEF Own, Pending
  <2>3. overlaps'[e] >= overlaps[e]
    BY <1>6, Sizes
  <2> QED
    BY <1>1, <1>3, <1>4, <2>1, <2>2, <2>3, Sizes DEF PaidAt
<1>8. CASE users[u].live /\ users[u].email = e
  <2>1. Deleters(e)' = Deleters(e) \cup {w}
    BY <1>1, <1>8 DEF Deleters, Under, Alone
  <2>2. Cardinality(Deleters(e)') = Cardinality(Deleters(e)) + 1
    BY <1>5, <2>1, UnderCounted, Counting DEF Deleters
  <2>3. CASE Under(e, Deleting) = {}
    <3>1. Own(e) = 0
      BY <2>3 DEF Own, Deleters, Under, Deleting
    <3>2. ~Unusering(u)
      BY <1>8, <2>3, UnderWay DEF Unusering, Under, Deleting, Reading
    <3>3. Pending(u)'
      BY <1>1, <1>2, <1>8, <3>2 DEF Pending
    <3>4. Own(e)' = 1
      BY <1>1, <2>1, <3>3 DEF Own
    <3>5. overlaps'[e] = overlaps[e]
      BY <1>6, <1>8, <2>3, Sizes
    <3> QED
      BY <1>1, <1>3, <1>4, <2>2, <3>1, <3>4, <3>5, Sizes DEF PaidAt
  <2>4. CASE Under(e, Deleting) # {}
    <3>1. Own(e)' >= Own(e)
      BY <1>1, <1>2, <1>5, <2>1 DEF Own, Pending
    <3>2. overlaps'[e] = overlaps[e] + 1
      BY <1>6, <1>8, <2>4
    <3> QED
      BY <1>1, <1>3, <1>4, <2>2, <3>1, <3>2, Sizes DEF PaidAt
  <2> QED
    BY <2>3, <2>4
<1> QED
  BY <1>7, <1>8

LEMMA UnindexPaid ==
    ASSUME Known, CreatorsAlone, DeletionSoFar, [Next]_vars, NEW e \in Addresses, PaidAt(e),
           NEW w \in Slots, Unindex(w)
    PROVE  PaidAt(e)'
<1> DEFINE u == slot[w].user
           v == index[e]
<1>1. /\ Alone(w) /\ slot'[w].pc = "unusering" /\ slot'[w].email = slot[w].email /\ slot'[w].user = u
      /\ slot[w].pc = "unindexing" /\ users' = users /\ overlaps' = overlaps /\ crashes' = crashes
  BY Going DEF Unindex, Known
<1>2. u \in DOMAIN users /\ users[u].email = slot[w].email /\ u \in sessions
  BY <1>1, UnderWay DEF DeletionSoFar, Deleting, Reading
<1>3. /\ \A x : x # u => Moving(x)' = Moving(x) /\ Unusering(x)' = Unusering(x)
      /\ \A x : Moving(x) => Moving(x)'
      /\ Moving(u)'
  <2>1. \A x : x # u => Moving(x)' = Moving(x) /\ Unusering(x)' = Unusering(x)
    BY <1>1 DEF Moving, Unusering, Alone
  <2>2. \A x : x = u => Moving(x)'
    BY <1>1 DEF Moving
  <2> QED
    BY <1>1, <2>1, <2>2 DEF Moving, Alone
<1>4. Creators(e)' = Creators(e)
  BY <1>1 DEF Creators, Under, Alone, Creating
<1>5. \A x \in Deleters(e) \ {w} : slot'[x] = slot[x]
  BY <1>1 DEF Deleters, Under, Alone
<1>6. CASE slot[w].email # e
  <2>1. Deleters(e)' = Deleters(e) /\ index'[e] = index[e] /\ w \notin Deleters(e)
    BY <1>1, <1>6, TypedIsTypeOK DEF Deleters, Under, Alone, Unindex, Known, Typed
  <2>2. Strays(e)' = Strays(e)
    BY <1>1, <1>2, <1>3, <1>6, <2>1 DEF Strays
  <2>3. \A x \in Deleters(e) : slot[x].user # u
    BY <1>2, <1>6, UnderWay DEF Deleters, Under, Reading
  <2>4. Own(e)' = Own(e)
    BY <1>1, <1>3, <1>5, <2>1, <2>3 DEF Own, Pending
  <2> QED
    BY <1>1, <1>4, <2>1, <2>2, <2>4 DEF PaidAt, First
<1>7. CASE slot[w].email = e
  <2>1. w \in Deleters(e) /\ Deleters(e)' = Deleters(e) \ {w}
    BY <1>1, <1>7 DEF Deleters, Under, Alone
  <2>2. Cardinality(Deleters(e)') = Cardinality(Deleters(e)) - 1
    BY <2>1, UnderCounted, Counting DEF Deleters
  <2>3. index'[e] = 0
    BY <1>7, TypedIsTypeOK DEF Unindex, Known, Typed
  <2>4. First(e)' >= First(e)
    BY <1>4, <2>3 DEF First
  <2>5. u \notin Strays(e)' /\ Strays(e)' \subseteq Strays(e) \cup {v}
    BY <1>1, <1>3 DEF Strays
  <2>6. CASE Pending(u)
    <3>1. Own(e) = 1
      BY <2>1, <2>6 DEF Own
    <3>2. Cardinality(Strays(e)') <= Cardinality(Strays(e))
      <4>1. CASE u = v
        <5>1. Strays(e)' \subseteq Strays(e)
          BY <2>5, <4>1
        <5> QED
          BY <5>1, Swapping, Sizes
      <4>2. CASE u # v
        <5>1. ~Moving(u)
          BY <1>2, <2>6 DEF Moving, Pending, Unusering, CreatorsAlone
        <5>2. u \in Strays(e)
          BY <1>2, <1>7, <2>6, <4>2, <5>1 DEF Strays, Pending
        <5>3. Strays(e)' \subseteq (Strays(e) \ {u}) \cup {v}
          BY <2>5
        <5> QED
          BY <5>2, <5>3, Swapping, Sizes
      <4> QED
        BY <4>1, <4>2
    <3> QED
      BY <1>1, <1>4, <2>2, <2>4, <3>1, <3>2, Sizes DEF PaidAt
  <2>7. CASE ~Pending(u)
    <3>1. Cardinality(Strays(e)') <= Cardinality(Strays(e)) + 1
      BY <2>5, Swapping, Sizes
    <3>2. ASSUME NEW x \in Deleters(e), Pending(slot[x].user)
          PROVE  x \in Deleters(e)' /\ Pending(slot[x].user)'
      <4>1. slot[x].user # u /\ slot'[x] = slot[x] /\ x \in Deleters(e)'
        BY <1>5, <2>1, <2>7, <3>2 DEF Pending
      <4> QED
        BY <1>1, <1>3, <3>2, <4>1 DEF Pending
    <3>3. Own(e)' >= Own(e)
      BY <3>2 DEF Own
    <3> QED
      BY <1>1, <1>4, <2>2, <2>4, <3>1, <3>3, Sizes DEF PaidAt
  <2> QED
    BY <2>6, <2>7
<1> QED
  BY <1>6, <1>7

LEMMA DeleteRecordPaid ==
    ASSUME Known, [Next]_vars, NEW e \in Addresses, PaidAt(e), NEW w \in Slots, DeleteRecord(w)
    PROVE  PaidAt(e)'
<1> DEFINE u == slot[w].user
<1>1. /\ Alone(w) /\ slot'[w].pc = "emptying" /\ slot[w].pc = "unusering"
      /\ index' = index /\ overlaps' = overlaps /\ crashes' = crashes
  BY Going DEF DeleteRecord, Known
<1>2. /\ u \in DOMAIN users /\ DOMAIN users' = DOMAIN users /\ ~users'[u].live
      /\ \A x \in DOMAIN users : x # u => users'[x] = users[x]
      /\ \A x \in DOMAIN users : users'[x].email = users[x].email
  <2>1. u \in DOMAIN users /\ users \in Seq(Account) /\ \A x \in DOMAIN users : users[x] \in Account
    BY <1>1, UnderWay, Numbering DEF Reading, Known
  <2> QED
    BY <2>1 DEF DeleteRecord, Account
<1>3. \A x : x # u => Moving(x)' = Moving(x) /\ Unusering(x)' = Unusering(x)
  BY <1>1 DEF Moving, Unusering, Alone
<1>4. Unusering(u)
  BY <1>1 DEF Unusering
<1>5. Cardinality(Strays(e)') <= Cardinality(Strays(e))
  <2>1. Strays(e)' \subseteq Strays(e)
    BY <1>1, <1>2, <1>3 DEF Strays
  <2> QED
    BY <2>1, Swapping, Sizes
<1>6. Creators(e)' = Creators(e) /\ Deleters(e)' = Deleters(e)
  BY <1>1 DEF Creators, Deleters, Under, Alone, Creating
<1>7. Own(e)' >= Own(e)
  <2>1. ASSUME NEW x \in Deleters(e), Pending(slot[x].user)
        PROVE  x \in Deleters(e)' /\ Pending(slot[x].user)'
    <3>1. slot[x].user # u /\ slot'[x] = slot[x] /\ slot[x].user \in DOMAIN users
      BY <1>1, <1>4, <2>1, UnderWay DEF Pending, Deleters, Under, Alone, Reading
    <3> QED
      BY <1>2, <1>3, <1>6, <2>1, <3>1 DEF Pending
  <2> QED
    BY <2>1 DEF Own
<1>8. First(e)' = First(e)
  BY <1>1, <1>6 DEF First
<1> QED
  BY <1>1, <1>5, <1>6, <1>7, <1>8, Sizes DEF PaidAt

LEMMA CrashPaid ==
    ASSUME Known, [Next]_vars, NEW e \in Addresses, PaidAt(e), NEW w \in Slots, Crash(w)
    PROVE  PaidAt(e)'
<1> DEFINE u == slot[w].user
<1>1. /\ Alone(w) /\ slot'[w].pc = "idle"
      /\ users' = users /\ index' = index /\ overlaps' = overlaps /\ crashes' = crashes + 1
  BY Stopping DEF Crash, Known, Idle, identity
<1>2. /\ \A x : x # u => Moving(x)' = Moving(x)
      /\ \A x : Unusering(x)' => Unusering(x)
  BY <1>1 DEF Moving, Unusering, Alone
<1>3. Cardinality(Strays(e)') <= Cardinality(Strays(e)) + 1
  <2>1. Strays(e)' \subseteq Strays(e) \cup {u}
    BY <1>1, <1>2 DEF Strays
  <2> QED
    BY <2>1, Swapping, Sizes
<1>4. Creators(e)' = Creators(e) \ {w} /\ Deleters(e)' = Deleters(e) \ {w}
  BY <1>1 DEF Creators, Deleters, Under, Alone, Creating
<1>5. Cardinality(Creators(e)') - First(e)' <= Cardinality(Creators(e)) - First(e)
  <2>1. CASE w \in Creators(e)
    <3>1. Cardinality(Creators(e)') = Cardinality(Creators(e)) - 1
      BY <1>4, <2>1, UnderCounted, Counting DEF Creators
    <3> QED
      BY <3>1, Sizes
  <2>2. CASE w \notin Creators(e)
    <3>1. Creators(e)' = Creators(e)
      BY <1>4, <2>2
    <3> QED
      BY <1>1, <3>1, Sizes DEF First
  <2> QED
    BY <2>1, <2>2
<1>6. Cardinality(Deleters(e)') - Own(e)' <= Cardinality(Deleters(e)) - Own(e)
  <2>1. CASE w \in Deleters(e)
    <3>1. Cardinality(Deleters(e)') = Cardinality(Deleters(e)) - 1
      BY <1>4, <2>1, UnderCounted, Counting DEF Deleters
    <3> QED
      BY <3>1, Sizes
  <2>2. CASE w \notin Deleters(e)
    <3>1. Deleters(e)' = Deleters(e) /\ \A x \in Deleters(e) : slot'[x] = slot[x]
      BY <1>1, <1>4, <2>2 DEF Alone, Deleters, Under
    <3>2. Own(e)' >= Own(e)
      BY <1>1, <1>2, <3>1 DEF Own, Pending
    <3> QED
      BY <3>1, <3>2, Sizes
  <2> QED
    BY <2>1, <2>2
<1> QED
  BY <1>1, <1>3, <1>5, <1>6, Sizes DEF PaidAt

\* The other steps neither create nor delete.
LEMMA OtherStepsPaid ==
    ASSUME Known, [Next]_vars, NEW e \in Addresses, PaidAt(e),
           \/ \E w \in Slots : \/ \E f \in Addresses : RequestLink(w, f)
                               \/ \E b \in BOOLEAN : MintLink(w, b) \/ ConsumeLink(w, b)
                               \/ \E l \in DOMAIN links : OpenLink(w, l)
                               \/ FindUser(w) \/ EmptyVault(w) \/ DropBilling(w)
           \/ \E u \in DOMAIN users : StoreCredentials(u)
           \/ \E f \in Addresses : WindowEnds(f)
           \/ UNCHANGED vars
    PROVE  PaidAt(e)'
<1> DEFINE Still == users' = users /\ index' = index /\ overlaps' = overlaps /\ crashes' = crashes
           Quietly(w) == /\ Alone(w) /\ slot[w].pc \notin Creating \cup Deleting
                         /\ slot'[w].pc \notin Creating \cup Deleting
<1>0. TypeOK /\ slot \in [Slots -> Invocation]
  BY TypedIsTypeOK DEF Known, Typed
<1>1. ASSUME NEW w \in Slots, NEW f \in Addresses, RequestLink(w, f) PROVE Still /\ Quietly(w)
  <2>1. /\ slot[w] = Idle /\ Idle.pc = "idle" /\ slot'[w].pc = "bumping" /\ Alone(w)
    BY <1>0, <1>1 DEF RequestLink, Alone, Idle
  <2>2. Still
    BY <1>1 DEF RequestLink, identity
  <2> QED
    BY <2>1, <2>2 DEF Creating, Deleting
<1>2. ASSUME NEW w \in Slots, NEW b \in BOOLEAN, MintLink(w, b) PROVE Still /\ Quietly(w)
  BY <1>0, <1>2, Stopping DEF MintLink, Idle, Creating, Deleting, identity
<1>3. ASSUME NEW w \in Slots, NEW b \in BOOLEAN, ConsumeLink(w, b) PROVE Still /\ Quietly(w)
  <2>1. /\ slot[w].pc = "opened" /\ slot'[w].pc \in {"idle", "consumed"} /\ Alone(w)
    <3>1. CASE End(w)
      BY <1>0, <1>3, <3>1, Stopping DEF ConsumeLink, Idle
    <3>2. CASE Go(w, "consumed")
      BY <1>0, <1>3, <3>2, Going DEF ConsumeLink
    <3> QED
      BY <1>3, <3>1, <3>2 DEF ConsumeLink
  <2>2. Still
    BY <1>3 DEF ConsumeLink, identity
  <2> QED
    BY <2>1, <2>2 DEF Creating, Deleting
<1>4. ASSUME NEW w \in Slots, NEW l \in DOMAIN links, OpenLink(w, l) PROVE Still /\ Quietly(w)
  <2>1. /\ slot[w] = Idle /\ Idle.pc = "idle" /\ slot'[w].pc = "opened" /\ Alone(w)
    BY <1>0, <1>4 DEF OpenLink, Alone, Idle
  <2>2. Still
    BY <1>4 DEF OpenLink, identity
  <2> QED
    BY <2>1, <2>2 DEF Creating, Deleting
<1>5. ASSUME NEW w \in Slots, FindUser(w) PROVE Still /\ Quietly(w)
  BY <1>0, <1>5, Stopping DEF FindUser, Idle, Creating, Deleting
<1>6. ASSUME NEW w \in Slots, EmptyVault(w) \/ DropBilling(w) PROVE Still /\ Quietly(w)
  BY <1>0, <1>6, Stopping, Going DEF EmptyVault, DropBilling, Idle, Creating, Deleting, identity
<1>7. ASSUME NEW w \in Slots, Still, Quietly(w) PROVE PaidAt(e)'
  BY <1>7, Quiet DEF PaidAt
<1>8. CASE Still /\ slot' = slot
  BY <1>8 DEF PaidAt, Strays, Moving, Creators, Deleters, Under, First, Own, Pending, Unusering
<1>9. \/ \E u \in DOMAIN users : StoreCredentials(u)
      \/ \E f \in Addresses : WindowEnds(f)
      \/ UNCHANGED vars
      => Still /\ slot' = slot
  BY DEF StoreCredentials, WindowEnds, vars, mail, identity
<1> QED
  BY <1>1, <1>2, <1>3, <1>4, <1>5, <1>6, <1>7, <1>8, <1>9

LEMMA StepStraysPaid ==
    ASSUME Known, CreatorsAlone, DeletionSoFar, StraysPaid, [Next]_vars
    PROVE  StraysPaid'
<1> SUFFICES ASSUME NEW e \in Addresses PROVE PaidAt(e)'
  BY DEF StraysPaid
<1>1. PaidAt(e)
  BY DEF StraysPaid
<1>2. ASSUME NEW w \in Slots,
             \/ MissUser(w) \/ CreateUser(w) \/ IndexUser(w) \/ Unindex(w) \/ DeleteRecord(w) \/ Crash(w)
             \/ \E u \in DOMAIN users : ReadAccount(w, u)
      PROVE  PaidAt(e)'
  BY <1>1, <1>2, MissUserPaid, CreateUserPaid, IndexUserPaid, UnindexPaid, DeleteRecordPaid, CrashPaid,
     ReadAccountPaid
<1> QED
  BY <1>1, <1>2, OtherStepsPaid DEF Next, SignIn, Delete

-----------------------------------------------------------------------------
LEMMA IndInvHolds == Spec => []IndInv
<1>1. Init => IndInv
  BY InitIndInv
<1>2. IndInv /\ [Next]_vars => IndInv'
  <2> SUFFICES ASSUME IndInv, [Next]_vars PROVE IndInv'
    OBVIOUS
  <2>1. Known /\ CreatorsAlone /\ DeletionSoFar /\ Gone /\ Limiter /\ StraysPaid
    BY DEF IndInv, Sound, Known
  <2>2. TypeOK' /\ SlotsKnow' /\ IndexLeads'
    BY <2>1, StepTypeOK, StepSlotsKnow, StepIndexLeads DEF Known
  <2>3. CreatorsAlone' /\ DeletionSoFar' /\ Gone'
    BY <2>1, StepCreatorsAlone, StepDeletionSoFar, StepGone
  <2>4. Limiter' /\ StraysPaid'
    BY <2>1, StepLimiter, StepStraysPaid
  <2> QED
    BY <2>2, <2>3, <2>4 DEF IndInv, Sound
<1> QED
  BY <1>1, <1>2, PTL DEF Spec

\* Invocations, links and accounts are well-formed, the counter never passes its limit.
THEOREM TypeCorrect == Spec => []TypeOK
<1>1. IndInv => TypeOK
  BY DEF IndInv
<1> QED
  BY <1>1, IndInvHolds, PTL

\* In a window the limiter of dispatchMagicLink lets through its limit and one request more for
\* every race of reads, however many invocations overlap and however late they write.
THEOREM LimiterOvershootsByRaces == Spec => []LimitOvershootsByRaces
<1>1. IndInv => LimitOvershootsByRaces
  <2> SUFFICES ASSUME IndInv, NEW e \in Addresses PROVE allowed[e] <= MaxPerEmail + racing[e]
    BY DEF LimitOvershootsByRaces
  <2>1. /\ count[e] \in 0..MaxPerEmail /\ allowed[e] \in Nat /\ racing[e] \in Nat
        /\ IsFiniteSet(Writers(e)) /\ Cardinality(Writers(e)) \in Nat
    BY UnderCounted DEF IndInv, TypeOK, Writers
  <2>2. Writers(e) # {} => Cardinality(Writers(e)) >= 1
    BY <2>1, NonEmpty
  <2> QED
    BY <2>1, <2>2, LimitAssumption DEF IndInv, Limiter, LimiterAt, Spent
<1> QED
  BY <1>1, IndInvHolds, PTL

\* getOrCreateUser and handleDeleteAccount: an address leads to a live account of its own or to none,
\* and every account too many is paid by a crash or by two sign-ins or deletions that overlapped.
THEOREM AddressesKeepOneAccount == Spec => []OneAccountPerAddress
<1>1. IndInv => OneAccountPerAddress
  <2> SUFFICES ASSUME IndInv, NEW e \in Addresses
               PROVE  /\ index[e] # 0 => users[index[e]] = [email |-> e, live |-> TRUE]
                      /\ Cardinality(Strays(e)) <= overlaps[e] + crashes
    BY DEF OneAccountPerAddress
  <2>1. ASSUME index[e] # 0 PROVE users[index[e]] = [email |-> e, live |-> TRUE]
    <3>1. index[e] \in DOMAIN users /\ users[index[e]].email = e /\ users[index[e]].live
      BY <2>1 DEF IndInv, Sound, IndexLeads
    <3>2. users[index[e]] \in Account
      BY <3>1, Numbering DEF IndInv
    <3> QED
      BY <3>1, <3>2 DEF Account
  <2>2. Cardinality(Strays(e)) <= overlaps[e] + crashes
    <3>1. /\ IsFiniteSet(Creators(e)) /\ Cardinality(Creators(e)) \in Nat
          /\ IsFiniteSet(Deleters(e)) /\ Cardinality(Deleters(e)) \in Nat
      BY UnderCounted DEF Creators, Deleters
    <3>2. overlaps[e] \in Nat /\ crashes \in Nat
      BY AccountBoundsAssumption DEF IndInv, TypeOK
    <3>3. Cardinality(Strays(e)) \in Nat
      <4>1. Strays(e) \subseteq DOMAIN users /\ IsFiniteSet(DOMAIN users)
        BY Numbering, FS_Interval DEF IndInv, Strays
      <4> QED
        BY <4>1, FS_Subset, FS_CardinalityType
    <3>4. First(e) <= Cardinality(Creators(e)) /\ First(e) \in {0, 1}
      BY <3>1, NonEmpty DEF First
    <3>5. Own(e) <= Cardinality(Deleters(e)) /\ Own(e) \in {0, 1}
      BY <3>1, NonEmpty DEF Own
    <3> QED
      BY <3>1, <3>2, <3>3, <3>4, <3>5 DEF IndInv, StraysPaid, PaidAt
  <2> QED
    BY <2>1, <2>2
<1> QED
  BY <1>1, IndInvHolds, PTL

\* handleDeleteAccount: when a deletion has ended, whatever died or ran beside it, the account is gone
\* for good, and so is all that was not stored during or after a deletion.
THEOREM DeletionErases == Spec => []ErasedLeavesNothing
<1>1. IndInv => ErasedLeavesNothing
  <2>1. ASSUME IndInv, NEW u \in erased, NEW e \in Addresses PROVE index[e] # u
    <3>1. u # 0 /\ ~users[u].live
      BY <2>1, Numbering DEF IndInv, Sound, IndexLeads, Gone
    <3> QED
      BY <2>1, <3>1 DEF IndInv, Sound, IndexLeads
  <2> QED
    BY <2>1 DEF IndInv, Sound, Gone, ErasedLeavesNothing
<1> QED
  BY <1>1, IndInvHolds, PTL
=============================================================================
