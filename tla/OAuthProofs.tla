---------------------------- MODULE OAuthProofs ----------------------------
(***************************************************************************)
(* Proofs about the OAuth authorization server, for any number of users,   *)
(* clients, requests and overlapping Worker invocations: tokens reach only *)
(* the owner of a request that their user approved, and a credential used  *)
(* by requests that overlap yields no more pairs than there are of them.   *)
(***************************************************************************)
EXTENDS OAuth, FiniteSetTheorems, SequenceTheorems, TLAPS

-----------------------------------------------------------------------------
(***************************************************************************)
(* The inductive invariants                                                *)
(***************************************************************************)
\* What a code or a refresh token carries was approved on a consent page.
ApprovedOnly ==
    /\ \A n \in DOMAIN codes : <<codes[n].user, codes[n].req>> \in approved
    /\ \A n \in DOMAIN tokens : <<tokens[n].user, tokens[n].req>> \in approved

\* A key is gone from the store before its pair is minted, and never comes back.
SpentFirst ==
    /\ \A s \in Slots : worker[s].pc = "deleted" => worker[s].key \notin present
    /\ \A n \in DOMAIN tokens : tokens[n].from \notin present

\* A consent form comes from a signed-in user.
FormsSigned == \A s \in Slots : worker[s].key[1] = "request" => worker[s].user \in Users

IndInv == TypeOK /\ FormsSigned /\ ApprovedOnly /\ SpentFirst /\ PairsBoundedByOverlap

-----------------------------------------------------------------------------
(***************************************************************************)
(* Types                                                                   *)
(***************************************************************************)
Records == [user : Users, req : DOMAIN asked]
Tokens == [user : Users, req : DOMAIN asked, from : Keys]
Uses == [pc : {"read", "deleted"}, key : Keys, user : Users \cup {None}, lapsed : BOOLEAN]

\* Appending to a sequence whose element type may grow.
LEMMA AppendGrows ==
    ASSUME NEW S, NEW T, S \subseteq T, NEW q \in Seq(S), NEW e \in T
    PROVE  /\ Append(q, e) \in Seq(T)
           /\ Len(Append(q, e)) = Len(q) + 1
           /\ DOMAIN q = 1..Len(q)
           /\ DOMAIN Append(q, e) = 1..(Len(q) + 1)
           /\ \A i \in DOMAIN q : Append(q, e)[i] = q[i]
           /\ Append(q, e)[Len(q) + 1] = e
           /\ Len(q) \in Nat
<1>1. q \in Seq(T)
  BY SeqMonotonic
<1> QED
  BY <1>1, LenProperties

LEMMA AppendAdds ==
    ASSUME NEW S, NEW q \in Seq(S), NEW e, NEW p, p = Append(q, e)
    PROVE  /\ Len(p) = Len(q) + 1
           /\ Len(p) \in DOMAIN p /\ Len(p) \notin DOMAIN q
           /\ DOMAIN p = DOMAIN q \cup {Len(p)}
           /\ \A n \in DOMAIN q : p[n] = q[n]
           /\ p[Len(p)] = e
  BY AppendGrows, S \subseteq S \cup {e}

\* A key is a kind and the number of a record of this kind.
KeysAre(keys, requests, consents, grants, pairs) ==
    keys = ({"request"} \X DOMAIN requests) \cup ({"handoff"} \X DOMAIN consents)
           \cup ({"code"} \X DOMAIN grants) \cup ({"token"} \X DOMAIN pairs)

LEMMA KeysByKind == KeysAre(Keys, asked, handoffs, codes, tokens)
<1>1. /\ Minted["request"] = asked /\ Minted["handoff"] = handoffs
      /\ Minted["code"] = codes /\ Minted["token"] = tokens
  BY DEF Minted
<1> QED
  BY <1>1 DEF Keys, Kinds, KeysAre

LEMMA KeysByKindNext == KeysAre(Keys', asked', handoffs', codes', tokens')
<1>1. /\ Minted'["request"] = asked' /\ Minted'["handoff"] = handoffs'
      /\ Minted'["code"] = codes' /\ Minted'["token"] = tokens'
  BY DEF Minted
<1> QED
  BY <1>1 DEF Keys, Kinds, KeysAre

\* What a step may do to the records: leave them, or add one and its key.
Minting ==
    \/ UNCHANGED <<asked, handoffs, codes, tokens>> /\ present' \subseteq present
    \/ /\ \E e \in [client : Clients, uri : Uris] : asked' = Append(asked, e)
       /\ present' = present \cup {<<"request", Len(asked')>>}
       /\ UNCHANGED <<handoffs, codes, tokens>>
    \/ /\ \E e \in Records : handoffs' = Append(handoffs, e)
       /\ present' = present \cup {<<"handoff", Len(handoffs')>>}
       /\ UNCHANGED <<asked, codes, tokens>>
    \/ /\ \E e \in Records : codes' = Append(codes, e)
       /\ present' = present \cup {<<"code", Len(codes')>>}
       /\ UNCHANGED <<asked, handoffs, tokens>>
    \/ /\ \E e \in Tokens : tokens' = Append(tokens, e)
       /\ present' = present \cup {<<"token", Len(tokens')>>}
       /\ UNCHANGED <<asked, handoffs, codes>>

\* Records are never forgotten or changed, and only a new key enters the store.
Kept ==
    /\ asked' \in Seq([client : Clients, uri : Uris])
    /\ handoffs' \in Seq(Records')
    /\ codes' \in Seq(Records')
    /\ tokens' \in Seq(Tokens')
    /\ DOMAIN asked \subseteq DOMAIN asked'
    /\ Keys \subseteq Keys'
    /\ present' \subseteq Keys'
    /\ present' \cap Keys \subseteq present

LEMMA MintingKeeps == TypeOK /\ Minting => Kept
<1> SUFFICES ASSUME TypeOK, Minting PROVE Kept
  OBVIOUS
<1> DEFINE Asks == [client : Clients, uri : Uris]
<1>0. /\ asked \in Seq(Asks) /\ handoffs \in Seq(Records) /\ codes \in Seq(Records)
      /\ tokens \in Seq(Tokens) /\ present \subseteq Keys
  BY DEF TypeOK, Grants, Records, Tokens
<1> USE KeysByKind, KeysByKindNext DEF KeysAre
<1>1. ASSUME UNCHANGED <<asked, handoffs, codes, tokens>>, present' \subseteq present PROVE Kept
  <2>1. Keys' = Keys
    BY <1>1
  <2>2. Records' = Records /\ Tokens' = Tokens
    BY <1>1, <2>1 DEF Records, Tokens
  <2> QED
    BY <1>0, <1>1, <2>1, <2>2 DEF Kept
<1>2. ASSUME NEW e \in Asks, asked' = Append(asked, e), UNCHANGED <<handoffs, codes, tokens>>,
             present' = present \cup {<<"request", Len(asked')>>}
      PROVE  Kept
  <2>1. /\ asked' \in Seq(Asks) /\ DOMAIN asked \subseteq DOMAIN asked'
        /\ Len(asked') \in DOMAIN asked' /\ Len(asked') \notin DOMAIN asked
    BY <1>0, <1>2, AppendGrows
  <2>2. Keys \subseteq Keys' /\ <<"request", Len(asked')>> \in Keys' \ Keys
    BY <1>2, <2>1
  <2>3. Records \subseteq Records' /\ Tokens \subseteq Tokens'
    BY <2>1, <2>2 DEF Records, Tokens
  <2> QED
    BY <1>0, <1>2, <2>1, <2>2, <2>3, SeqMonotonic DEF Kept
<1>3. ASSUME NEW e \in Records, handoffs' = Append(handoffs, e), UNCHANGED <<asked, codes, tokens>>,
             present' = present \cup {<<"handoff", Len(handoffs')>>}
      PROVE  Kept
  <2>1. /\ handoffs' \in Seq(Records) /\ DOMAIN handoffs \subseteq DOMAIN handoffs'
        /\ Len(handoffs') \in DOMAIN handoffs' /\ Len(handoffs') \notin DOMAIN handoffs
    BY <1>0, <1>3, AppendGrows
  <2>2. Keys \subseteq Keys' /\ <<"handoff", Len(handoffs')>> \in Keys' \ Keys
    BY <1>3, <2>1
  <2>3. Records' = Records /\ Tokens \subseteq Tokens'
    BY <1>3, <2>2 DEF Records, Tokens
  <2> QED
    BY <1>0, <1>3, <2>1, <2>2, <2>3, SeqMonotonic DEF Kept
<1>4. ASSUME NEW e \in Records, codes' = Append(codes, e), UNCHANGED <<asked, handoffs, tokens>>,
             present' = present \cup {<<"code", Len(codes')>>}
      PROVE  Kept
  <2>1. /\ codes' \in Seq(Records) /\ DOMAIN codes \subseteq DOMAIN codes'
        /\ Len(codes') \in DOMAIN codes' /\ Len(codes') \notin DOMAIN codes
    BY <1>0, <1>4, AppendGrows
  <2>2. Keys \subseteq Keys' /\ <<"code", Len(codes')>> \in Keys' \ Keys
    BY <1>4, <2>1
  <2>3. Records' = Records /\ Tokens \subseteq Tokens'
    BY <1>4, <2>2 DEF Records, Tokens
  <2> QED
    BY <1>0, <1>4, <2>1, <2>2, <2>3, SeqMonotonic DEF Kept
<1>5. ASSUME NEW e \in Tokens, tokens' = Append(tokens, e), UNCHANGED <<asked, handoffs, codes>>,
             present' = present \cup {<<"token", Len(tokens')>>}
      PROVE  Kept
  <2>1. /\ tokens' \in Seq(Tokens) /\ DOMAIN tokens \subseteq DOMAIN tokens'
        /\ Len(tokens') \in DOMAIN tokens' /\ Len(tokens') \notin DOMAIN tokens
    BY <1>0, <1>5, AppendGrows
  <2>2. Keys \subseteq Keys' /\ <<"token", Len(tokens')>> \in Keys' \ Keys
    BY <1>5, <2>1
  <2>3. Records' = Records /\ Tokens \subseteq Tokens'
    BY <1>5, <2>2 DEF Records, Tokens
  <2> QED
    BY <1>0, <1>5, <2>1, <2>2, <2>3, SeqMonotonic DEF Kept
<1> QED
  BY <1>1, <1>2, <1>3, <1>4, <1>5 DEF Minting

\* A key in use belongs to a record of its kind.
LEMMA UsedRecord ==
    ASSUME TypeOK, NEW s \in Slots, NEW kind, Using(s, "deleted", kind)
    PROVE  /\ worker[s] \in Uses
           /\ worker[s].key = <<kind, worker[s].key[2]>>
           /\ kind = "request" => worker[s].key[2] \in DOMAIN asked
           /\ kind = "handoff" => Record(worker[s].key) \in Records
           /\ kind = "code" => /\ worker[s].key[2] \in DOMAIN codes
                               /\ Record(worker[s].key) = codes[worker[s].key[2]]
                               /\ Record(worker[s].key) \in Records
           /\ kind = "token" => /\ worker[s].key[2] \in DOMAIN tokens
                                /\ Record(worker[s].key) = tokens[worker[s].key[2]]
                                /\ Record(worker[s].key) \in Tokens
<1>1. worker[s] \in Uses /\ worker[s].key \in Keys /\ worker[s].key[1] = kind
  BY DEF TypeOK, Using, Uses, Idle
<1>2. worker[s].key = <<kind, worker[s].key[2]>>
  BY <1>1, KeysByKind DEF KeysAre
<1>3. /\ handoffs \in Seq(Records) /\ codes \in Seq(Records) /\ tokens \in Seq(Tokens)
  BY DEF TypeOK, Grants, Records, Tokens
<1> QED
  BY <1>1, <1>2, <1>3, KeysByKind, ElementOfSeq, LenProperties DEF KeysAre, Record, Minted

\* Only the sequences of records and the requests of the workers can change type.
LEMMA TypesFromMinting ==
    ASSUME TypeOK, Minting,
           worker' \in [Slots -> {Idle} \cup Uses],
           signedIn' \subseteq Users,
           approved' \subseteq Users \X DOMAIN asked,
           granted' \subseteq Users \X DOMAIN asked
    PROVE  TypeOK'
<1>1. Kept
  BY MintingKeeps
<1>2. Uses \subseteq Uses'
  BY <1>1 DEF Kept, Uses
<1>3. worker' \in [Slots -> {Idle} \cup Uses']
  BY <1>2
<1> QED
  BY <1>1, <1>3 DEF Kept, TypeOK, Grants, Records, Tokens, Uses

LEMMA InitIndInv == Init => IndInv
<1> SUFFICES ASSUME Init PROVE IndInv
  OBVIOUS
<1>1. TypeOK
  BY EmptySeq DEF Init, TypeOK
<1>2. Keys = {}
  BY KeysByKind DEF KeysAre, Init
<1> QED
  BY <1>1, <1>2 DEF Init, IndInv, FormsSigned, ApprovedOnly, SpentFirst, PairsBoundedByOverlap, Idle, None

\* What every step does to the types, and to the records.
LEMMA StepTypeOK == TypeOK /\ FormsSigned /\ [Next]_vars => TypeOK' /\ Minting
<1> SUFFICES ASSUME TypeOK, FormsSigned, [Next]_vars PROVE TypeOK' /\ Minting
  OBVIOUS
<1> DEFINE W == {Idle} \cup Uses
<1>0. /\ worker \in [Slots -> W] /\ signedIn \subseteq Users
      /\ approved \subseteq Users \X DOMAIN asked /\ granted \subseteq Users \X DOMAIN asked
  BY DEF TypeOK, Uses
<1> USE DEF store, ghosts
<1>1. ASSUME NEW c \in Clients, NEW uri \in Uris, Authorize(c, uri) PROVE TypeOK' /\ Minting
  BY <1>0, <1>1, TypesFromMinting DEF Authorize, Minting
<1>2. ASSUME NEW u \in Users, NEW q \in DOMAIN asked, Callback(u, q) PROVE TypeOK' /\ Minting
  <2>1. [user |-> u, req |-> q] \in Records
    BY DEF Records
  <2> QED
    BY <1>0, <1>2, <2>1, TypesFromMinting DEF Callback, Minting
<1>3. ASSUME NEW u \in Users, SignIn(u) PROVE TypeOK' /\ Minting
  BY <1>0, <1>3, TypesFromMinting DEF SignIn, Minting
<1>4. ASSUME NEW key \in present, Lapse(key) PROVE TypeOK' /\ Minting
  <2>1. \A s \in Slots : worker[s] \in W => [worker[s] EXCEPT !.lapsed = TRUE] \in Uses \cup {[Idle EXCEPT !.lapsed = TRUE]}
    BY DEF Uses
  <2>2. Idle.key # key
    <3>1. key \in Keys
      BY DEF TypeOK
    <3>2. key[1] # "none"
      BY <3>1, KeysByKind DEF KeysAre
    <3> QED
      BY <3>2 DEF Idle, None
  <2>3. worker' \in [Slots -> W]
    BY <1>0, <1>4, <2>1, <2>2 DEF Lapse, Uses
  <2> QED
    BY <1>0, <1>4, <2>3, TypesFromMinting DEF Lapse, Minting
<1>5. ASSUME NEW s \in Slots, NEW key \in present, NEW u \in signedIn \cup {None}, Get(s, key, u)
      PROVE  TypeOK' /\ Minting
  <2>1. [pc |-> "read", key |-> key, user |-> u, lapsed |-> FALSE] \in Uses
    BY <1>0 DEF TypeOK, Uses
  <2>2. worker' \in [Slots -> W]
    BY <1>0, <1>5, <2>1 DEF Get
  <2> QED
    BY <1>0, <1>5, <2>2, TypesFromMinting DEF Get, Minting
<1>6. ASSUME NEW s \in Slots, Delete(s) PROVE TypeOK' /\ Minting
  <2>1. worker[s] \in Uses
    BY <1>0, <1>6 DEF Delete, Idle
  <2>2. [worker[s] EXCEPT !.pc = "deleted"] \in Uses
    BY <2>1 DEF Uses
  <2>3. worker' \in [Slots -> W]
    BY <1>0, <1>6, <2>2 DEF Delete
  <2> QED
    BY <1>0, <1>6, <2>3, TypesFromMinting DEF Delete, Minting
<1>7. ASSUME NEW s \in Slots, Answer(s) PROVE worker' \in [Slots -> W]
  BY <1>0, <1>7 DEF Answer
<1>8. ASSUME NEW s \in Slots, ShowConsent(s) PROVE TypeOK' /\ Minting
  <2>1. Record(worker[s].key).user \in Users
    BY <1>8, UsedRecord DEF ShowConsent, Records
  <2> QED
    BY <1>0, <1>7, <1>8, <2>1, TypesFromMinting DEF ShowConsent, Minting
<1>9. ASSUME NEW s \in Slots, Approve(s) PROVE TypeOK' /\ Minting
  <2>1. worker[s].user \in Users /\ worker[s].key[2] \in DOMAIN asked
    BY <1>9, UsedRecord DEF Approve, FormsSigned, Using
  <2>2. [user |-> worker[s].user, req |-> worker[s].key[2]] \in Records
    BY <2>1 DEF Records
  <2> QED
    BY <1>0, <1>7, <1>9, <2>1, <2>2, TypesFromMinting DEF Approve, Minting
<1>10. ASSUME NEW s \in Slots, Deny(s) PROVE TypeOK' /\ Minting
  BY <1>0, <1>7, <1>10, TypesFromMinting DEF Deny, Minting
<1>11. ASSUME NEW s \in Slots, NEW c \in Clients \cup {None}, TokenFromRefresh(s, c)
       PROVE TypeOK' /\ Minting
  <2>1. Record(worker[s].key) \in Tokens /\ worker[s].key \in Keys
    BY <1>11, UsedRecord DEF TokenFromRefresh, Uses
  <2>2. [user |-> Record(worker[s].key).user, req |-> Record(worker[s].key).req,
         from |-> worker[s].key] \in Tokens
    BY <2>1 DEF Tokens
  <2> QED
    BY <1>0, <1>7, <1>11, <2>1, <2>2, TypesFromMinting DEF TokenFromRefresh, IssueTokenPair, Minting, Tokens
<1>12. ASSUME NEW s \in Slots, NEW c \in Clients \cup {None}, RefuseRefresh(s, c)
       PROVE TypeOK' /\ Minting
  BY <1>0, <1>7, <1>12, TypesFromMinting DEF RefuseRefresh, Minting
<1>13. ASSUME NEW s \in Slots, NEW c \in Clients \cup {None}, NEW uri \in Uris,
              NEW v \in DOMAIN asked, TokenFromAuthCode(s, c, uri, v)
       PROVE  TypeOK' /\ Minting
  <2>1. Record(worker[s].key) \in Records /\ worker[s].key \in Keys
    BY <1>13, UsedRecord DEF TokenFromAuthCode, Uses
  <2>2. [user |-> Record(worker[s].key).user, req |-> Record(worker[s].key).req,
         from |-> worker[s].key] \in Tokens
    BY <2>1 DEF Tokens, Records
  <2> QED
    BY <1>0, <1>7, <1>13, <2>1, <2>2, TypesFromMinting
       DEF TokenFromAuthCode, IssueTokenPair, Minting, Records
<1>14. ASSUME NEW s \in Slots, NEW c \in Clients \cup {None}, NEW uri \in Uris,
              NEW v \in DOMAIN asked, RefuseAuthCode(s, c, uri, v)
       PROVE  TypeOK' /\ Minting
  BY <1>0, <1>7, <1>14, TypesFromMinting DEF RefuseAuthCode, Minting
<1>15. ASSUME NEW s \in Slots, Abort(s) PROVE TypeOK' /\ Minting
  BY <1>0, <1>15, TypesFromMinting DEF Abort, Minting
<1>16. CASE UNCHANGED vars
  BY <1>0, <1>16, TypesFromMinting DEF vars, Minting
<1> QED
  BY <1>1, <1>2, <1>3, <1>4, <1>5, <1>6, <1>8, <1>9, <1>10, <1>11, <1>12, <1>13, <1>14,
     <1>15, <1>16 DEF Next, Handle, Exchange

LEMMA TokensTyped ==
    ASSUME TypeOK
    PROVE  tokens \in Seq(Tokens) /\ \A n \in DOMAIN tokens : tokens[n].from \in Keys
<1>1. tokens \in Seq(Tokens)
  BY DEF TypeOK, Tokens
<1>2. ASSUME NEW n \in DOMAIN tokens PROVE tokens[n].from \in Keys
  <2>1. tokens[n] \in Tokens
    BY <1>1, <1>2, ElementOfSeq, LenProperties
  <2> QED
    BY <2>1 DEF Tokens
<1> QED
  BY <1>1, <1>2

-----------------------------------------------------------------------------
(***************************************************************************)
(* How a step moves an invocation, and what a minted pair comes from       *)
(***************************************************************************)
SameKey(s) == worker'[s].key = worker[s].key /\ worker'[s].user = worker[s].user

\* A request ends, reads a key of the store, deletes it, or stays where it is.
Moves(s) ==
    \/ worker'[s] = Idle
    \/ worker'[s].pc = worker[s].pc /\ SameKey(s)
    \/ /\ worker[s].pc = "read"
       /\ worker'[s].pc = "deleted"
       /\ SameKey(s)
       /\ present' = present \ {worker[s].key}
    \/ /\ worker[s] = Idle
       /\ \E key \in present, u \in signedIn \cup {None} :
             /\ worker'[s] = [pc |-> "read", key |-> key, user |-> u, lapsed |-> FALSE]
             /\ key[1] = "request" => u \in signedIn
       /\ tokens' = tokens

LEMMA StepMoves == ASSUME TypeOK, [Next]_vars, NEW t \in Slots PROVE Moves(t)
<1>0. worker \in [Slots -> {Idle} \cup Uses]
  BY DEF TypeOK, Uses
<1> USE DEF Moves, store, ghosts
<1>1. ASSUME NEW c \in Clients, NEW uri \in Uris, Authorize(c, uri) PROVE Moves(t)
  BY <1>1 DEF Authorize, SameKey
<1>2. ASSUME NEW u \in Users, NEW q \in DOMAIN asked, Callback(u, q) PROVE Moves(t)
  BY <1>2 DEF Callback, SameKey
<1>3. ASSUME NEW u \in Users, SignIn(u) PROVE Moves(t)
  BY <1>3 DEF SignIn, SameKey
<1>4. ASSUME NEW key \in present, Lapse(key) PROVE Moves(t)
  <2>1. worker'[t] \in {worker[t], [worker[t] EXCEPT !.lapsed = TRUE]}
    BY <1>4 DEF Lapse
  <2>2. worker[t] \in {Idle} \cup Uses
    BY <1>0
  <2> QED
    BY <2>1, <2>2 DEF Uses, Idle, SameKey
<1>5. ASSUME NEW s \in Slots, NEW key \in present, NEW u \in signedIn \cup {None}, Get(s, key, u)
      PROVE  Moves(t)
  BY <1>0, <1>5 DEF Get, SameKey
<1>6. ASSUME NEW s \in Slots, Delete(s) PROVE Moves(t)
  <2>1. worker[s] \in Uses
    BY <1>0, <1>6 DEF Delete, Idle
  <2> QED
    BY <1>0, <1>6, <2>1 DEF Delete, Uses, SameKey
<1>7. ASSUME NEW s \in Slots, worker' = [worker EXCEPT ![s] = Idle] PROVE Moves(t)
  BY <1>0, <1>7 DEF SameKey
<1>8. CASE UNCHANGED vars
  BY <1>8 DEF vars, SameKey
<1> QED
  BY <1>1, <1>2, <1>3, <1>4, <1>5, <1>6, <1>7, <1>8
     DEF Next, Handle, Exchange, ShowConsent, Approve, Deny, TokenFromRefresh, RefuseRefresh,
         TokenFromAuthCode, RefuseAuthCode, Abort, Answer

\* A pair is minted by a request that deleted a code or a refresh token, and for
\* the user and the request in it.
MintsPair ==
    \E s \in Slots :
        /\ worker[s].pc = "deleted"
        /\ tokens' = Append(tokens, [user |-> Record(worker[s].key).user,
                                     req |-> Record(worker[s].key).req, from |-> worker[s].key])
        /\ \/ worker[s].key[1] = "code"
           \/ worker[s].key[1] = "token"
        /\ granted' = granted \cup {<<Record(worker[s].key).user, Record(worker[s].key).req>>}
        /\ worker' = [worker EXCEPT ![s] = Idle]
        /\ UNCHANGED <<asked, codes, approved>>

\* The four kinds of steps, as the clients see them.
LEMMA StepKinds ==
    [Next]_vars => \/ \E c \in Clients, uri \in Uris : Authorize(c, uri)
                   \/ \E s \in Slots : Approve(s)
                   \/ MintsPair
                   \/ UNCHANGED <<asked, codes, tokens, approved, granted>>
<1> SUFFICES ASSUME [Next]_vars, \A s \in Slots : ~Approve(s),
                    \A c \in Clients, uri \in Uris : ~Authorize(c, uri)
             PROVE  MintsPair \/ UNCHANGED <<asked, codes, tokens, approved, granted>>
  OBVIOUS
<1> USE DEF store, ghosts
<1>1. ASSUME NEW s \in Slots, NEW c \in Clients \cup {None}, TokenFromRefresh(s, c) PROVE MintsPair
  BY <1>1 DEF TokenFromRefresh, IssueTokenPair, MintsPair, Using, Answer
<1>2. ASSUME NEW s \in Slots, NEW c \in Clients \cup {None}, NEW uri \in Uris,
             NEW v \in DOMAIN asked, TokenFromAuthCode(s, c, uri, v)
      PROVE  MintsPair
  BY <1>2 DEF TokenFromAuthCode, IssueTokenPair, MintsPair, Using, Answer, CodeAccepted, PkceOk
<1> QED
  BY <1>1, <1>2 DEF Next, Handle, Exchange, Callback, SignIn, Lapse, Get, Delete, ShowConsent,
     Deny, RefuseRefresh, RefuseAuthCode, Abort, vars

LEMMA StepTokens == [Next]_vars => MintsPair \/ UNCHANGED tokens
  BY StepKinds DEF Authorize, Approve

-----------------------------------------------------------------------------
(***************************************************************************)
(* The parts of the invariant                                              *)
(***************************************************************************)
LEMMA StepFormsSigned == TypeOK /\ FormsSigned /\ [Next]_vars => FormsSigned'
<1> SUFFICES ASSUME TypeOK, FormsSigned, [Next]_vars, NEW t \in Slots,
                    worker'[t].key[1] = "request"
             PROVE  worker'[t].user \in Users
  BY DEF FormsSigned
<1> QED
  <2>1. worker[t].key[1] = "request" => worker[t].user \in Users
    BY DEF FormsSigned
  <2>2. signedIn \subseteq Users /\ Idle.key[1] # "request"
    BY DEF TypeOK, Idle, None
  <2>3. Moves(t)
    BY StepMoves
  <2>4. CASE worker'[t] = Idle
    BY <2>2, <2>4
  <2>5. CASE SameKey(t)
    BY <2>1, <2>5 DEF SameKey
  <2>6. ASSUME NEW key \in present, NEW u \in signedIn \cup {None},
               worker'[t] = [pc |-> "read", key |-> key, user |-> u, lapsed |-> FALSE],
               key[1] = "request" => u \in signedIn
        PROVE  worker'[t].user \in Users
    BY <2>2, <2>6
  <2> QED
    BY <2>3, <2>4, <2>5, <2>6 DEF Moves

\* What a code or a token carries was approved when it was minted.
LEMMA StepApprovedOnly == TypeOK /\ TypeOK' /\ ApprovedOnly /\ [Next]_vars => ApprovedOnly'
<1> SUFFICES ASSUME TypeOK, TypeOK', ApprovedOnly, [Next]_vars PROVE ApprovedOnly'
  OBVIOUS
<1>1. approved \subseteq approved'
  BY StepKinds DEF Authorize, Approve, MintsPair, ghosts
<1>2. CASE UNCHANGED <<codes, tokens>>
  BY <1>1, <1>2 DEF ApprovedOnly
<1>3. ASSUME NEW s \in Slots, Approve(s) PROVE ApprovedOnly'
  <2>1. codes \in Seq(Records)
    BY DEF TypeOK, Records, Grants
  <2> DEFINE e == [user |-> worker[s].user, req |-> worker[s].key[2]]
  <2>2. codes' = Append(codes, e) /\ approved' = approved \cup {<<e.user, e.req>>} /\ tokens' = tokens
    BY <1>3 DEF Approve
  <2>3. \A n \in DOMAIN codes' : codes'[n] = e \/ (n \in DOMAIN codes /\ codes'[n] = codes[n])
    <3> HIDE DEF e
    <3> QED
      BY <2>1, <2>2, AppendAdds
  <2> QED
    BY <2>2, <2>3 DEF ApprovedOnly
<1>4. CASE MintsPair
  <2>1. PICK s \in Slots :
              /\ worker[s].pc = "deleted"
              /\ tokens' = Append(tokens, [user |-> Record(worker[s].key).user,
                                           req |-> Record(worker[s].key).req, from |-> worker[s].key])
              /\ worker[s].key[1] = "code" \/ worker[s].key[1] = "token"
              /\ UNCHANGED <<asked, codes, approved>>
    BY <1>4 DEF MintsPair
  <2>2. <<Record(worker[s].key).user, Record(worker[s].key).req>> \in approved
    BY <2>1, UsedRecord DEF Using, ApprovedOnly
  <2>3. tokens \in Seq(Tokens)
    BY DEF TypeOK, Tokens
  <2> DEFINE e == [user |-> Record(worker[s].key).user, req |-> Record(worker[s].key).req,
                   from |-> worker[s].key]
  <2>4. <<e.user, e.req>> \in approved'
    BY <2>1, <2>2
  <2>5. \A n \in DOMAIN tokens' : tokens'[n] = e \/ (n \in DOMAIN tokens /\ tokens'[n] = tokens[n])
    <3>1. tokens' = Append(tokens, e)
      BY <2>1
    <3> HIDE DEF e
    <3> QED
      BY <3>1, <2>3, AppendAdds
  <2> QED
    <3> HIDE DEF e
    <3> QED
      BY <2>1, <2>4, <2>5, <1>1 DEF ApprovedOnly
<1> QED
  BY <1>2, <1>3, <1>4, StepKinds DEF Authorize

\* A spent key stays out of the store: only new keys enter it.
LEMMA StepSpentFirst == TypeOK /\ TypeOK' /\ Minting /\ SpentFirst /\ [Next]_vars => SpentFirst'
<1> SUFFICES ASSUME TypeOK, TypeOK', Minting, SpentFirst, [Next]_vars PROVE SpentFirst'
  OBVIOUS
<1>1. present' \cap Keys \subseteq present
  BY MintingKeeps DEF Kept
<1>2. tokens \in Seq(Tokens) /\ worker \in [Slots -> {Idle} \cup Uses]
  BY DEF TypeOK, Tokens, Uses
<1>3. ASSUME NEW t \in Slots, worker'[t].pc = "deleted" PROVE worker'[t].key \notin present'
  <2>1. worker'[t] # Idle
    BY <1>3 DEF Idle
  <2>2. CASE worker'[t].pc = worker[t].pc /\ SameKey(t)
    <3>1. worker[t] \in Uses
      BY <1>2, <1>3, <2>2 DEF Idle
    <3> QED
      BY <1>1, <1>3, <2>2, <3>1 DEF SpentFirst, SameKey, Uses
  <2>3. CASE SameKey(t) /\ present' = present \ {worker[t].key}
    BY <2>3 DEF SameKey
  <2>4. ASSUME NEW key, NEW u,
               worker'[t] = [pc |-> "read", key |-> key, user |-> u, lapsed |-> FALSE]
        PROVE  FALSE
    BY <1>3, <2>4
  <2> QED
    BY <2>1, <2>2, <2>3, <2>4, StepMoves DEF Moves
<1>4. ASSUME NEW n \in DOMAIN tokens' PROVE tokens'[n].from \notin present'
  <2>1. CASE n \in DOMAIN tokens /\ tokens'[n] = tokens[n]
    <3>1. tokens[n].from \in Keys
      BY <2>1, TokensTyped
    <3> QED
      BY <1>1, <2>1, <3>1 DEF SpentFirst
  <2>2. CASE MintsPair /\ ~(n \in DOMAIN tokens /\ tokens'[n] = tokens[n])
    <3>1. PICK s \in Slots :
              /\ worker[s].pc = "deleted"
              /\ tokens' = Append(tokens, [user |-> Record(worker[s].key).user,
                                           req |-> Record(worker[s].key).req, from |-> worker[s].key])
      BY <2>2 DEF MintsPair
    <3>2. tokens'[n].from = worker[s].key
      <4> DEFINE e == [user |-> Record(worker[s].key).user, req |-> Record(worker[s].key).req,
                       from |-> worker[s].key]
      <4>1. tokens' = Append(tokens, e) /\ e.from = worker[s].key
        BY <3>1
      <4> HIDE DEF e
      <4> QED
        BY <4>1, <1>2, <2>2, AppendAdds
    <3>3. worker[s] \in Uses
      BY <1>2, <3>1 DEF Idle
    <3> QED
      BY <1>1, <3>1, <3>2, <3>3 DEF SpentFirst, Uses
  <2> QED
    BY <2>1, <2>2, StepTokens
<1> QED
  BY <1>3, <1>4 DEF SpentFirst

-----------------------------------------------------------------------------
(***************************************************************************)
(* How many pairs a key yields                                             *)
(***************************************************************************)
Bounded(key) == Cardinality(PairsFrom(key)) + Cardinality(Holders(key)) <= Cardinality(Slots)

LEMMA FinitePairs ==
    ASSUME NEW S, NEW q \in Seq(S), NEW pairs, pairs \subseteq DOMAIN q,
           NEW holders, holders \subseteq Slots
    PROVE  /\ IsFiniteSet(pairs) /\ Cardinality(pairs) \in Nat
           /\ IsFiniteSet(holders) /\ Cardinality(holders) \in Nat
           /\ Cardinality(holders) <= Cardinality(Slots)
           /\ Cardinality(Slots) \in Nat
<1>1. IsFiniteSet(DOMAIN q)
  BY LenProperties, FS_Interval
<1> QED
  BY <1>1, SlotsAssumption, FS_Subset, FS_CardinalityType

\* The step that mints a pair ends the invocation that held its key, and a key is
\* read only before its first pair: the sum never passes the number of invocations.
LEMMA StepPairsBounded ==
    TypeOK /\ TypeOK' /\ Minting /\ SpentFirst /\ PairsBoundedByOverlap /\ [Next]_vars
        => PairsBoundedByOverlap'
<1> SUFFICES ASSUME TypeOK, TypeOK', Minting, SpentFirst, PairsBoundedByOverlap, [Next]_vars,
                    NEW key \in Keys'
             PROVE  Bounded(key)'
  BY DEF PairsBoundedByOverlap, Bounded
<1>0. /\ tokens \in Seq(Tokens) /\ tokens' \in Seq(Tokens')
      /\ worker \in [Slots -> {Idle} \cup Uses] /\ present \subseteq Keys
  BY DEF TypeOK, Tokens, Uses
<1> DEFINE P == PairsFrom(key)
           Q == PairsFrom(key)'
           H == Holders(key)
           G == Holders(key)'
<1>1. /\ IsFiniteSet(P) /\ Cardinality(P) \in Nat
      /\ IsFiniteSet(H) /\ Cardinality(H) \in Nat
      /\ Cardinality(H) <= Cardinality(Slots) /\ Cardinality(Slots) \in Nat
  <2>1. P \subseteq DOMAIN tokens /\ H \subseteq Slots
    BY DEF PairsFrom, Holders
  <2> HIDE DEF P, H
  <2> QED
    BY <1>0, <2>1, FinitePairs
<1>2. /\ IsFiniteSet(Q) /\ Cardinality(Q) \in Nat
      /\ IsFiniteSet(G) /\ Cardinality(G) \in Nat
      /\ Cardinality(G) <= Cardinality(Slots)
  <2>1. Q \subseteq DOMAIN tokens' /\ G \subseteq Slots
    BY DEF PairsFrom, Holders
  <2> HIDE DEF Q, G
  <2> QED
    BY <1>0, <2>1, FinitePairs
<1>3. Cardinality(P) + Cardinality(H) <= Cardinality(Slots)
  <2>1. CASE key \in Keys
    BY <2>1 DEF PairsBoundedByOverlap
  <2>2. CASE key \notin Keys
    <3>1. P = {}
      BY <2>2, TokensTyped DEF PairsFrom
    <3> QED
      BY <3>1, <1>1, FS_EmptySet
  <2> QED
    BY <2>1, <2>2
<1>4. Idle.key # key
  BY KeysByKindNext DEF KeysAre, Idle, None
<1>5. CASE Q = P
  <2>1. CASE P = {}
    BY <1>2, <1>5, <2>1, FS_EmptySet DEF Bounded
  <2>2. CASE P # {}
    <3>1. key \notin present
      BY <2>2 DEF PairsFrom, SpentFirst
    <3>2. ASSUME NEW t \in Slots, worker'[t].key = key PROVE worker[t].key = key
      <4>1. Moves(t)
        BY StepMoves
      <4>2. worker'[t] # Idle
        BY <1>4, <3>2
      <4>3. ASSUME NEW k \in present, NEW u,
                   worker'[t] = [pc |-> "read", key |-> k, user |-> u, lapsed |-> FALSE]
            PROVE  FALSE
        BY <3>1, <3>2, <4>3
      <4> QED
        BY <3>2, <4>1, <4>2, <4>3 DEF Moves, SameKey
    <3>3. G \in SUBSET H
      BY <3>2 DEF Holders
    <3>4. Cardinality(G) <= Cardinality(H)
      BY <1>1, <3>3, FS_Subset
    <3> HIDE DEF P, Q, H, G
    <3>5. Cardinality(Q) + Cardinality(G) <= Cardinality(Slots)
      BY <1>1, <1>2, <1>3, <1>5, <3>4
    <3> QED
      BY <3>5 DEF Bounded, P, Q, H, G
  <2> QED
    BY <2>1, <2>2
<1>6. CASE Q # P
  <2>1. MintsPair
    BY <1>6, StepTokens DEF PairsFrom
  <2>2. PICK s \in Slots :
            /\ worker[s].pc = "deleted"
            /\ tokens' = Append(tokens, [user |-> Record(worker[s].key).user,
                                         req |-> Record(worker[s].key).req, from |-> worker[s].key])
            /\ worker' = [worker EXCEPT ![s] = Idle]
    BY <2>1 DEF MintsPair
  <2> DEFINE e == [user |-> Record(worker[s].key).user, req |-> Record(worker[s].key).req,
                   from |-> worker[s].key]
  <2>3. /\ DOMAIN tokens' = DOMAIN tokens \cup {Len(tokens')}
        /\ \A n \in DOMAIN tokens : tokens'[n] = tokens[n]
        /\ tokens'[Len(tokens')].from = worker[s].key
        /\ Len(tokens') \notin DOMAIN tokens
    <3>1. tokens' = Append(tokens, e) /\ e.from = worker[s].key
      BY <2>2
    <3> HIDE DEF e
    <3> QED
      BY <3>1, <1>0, AppendAdds
  <2>4. worker[s].key = key
    BY <1>6, <2>3 DEF PairsFrom
  <2>5. Q = P \cup {Len(tokens')} /\ Len(tokens') \notin P
    BY <2>3, <2>4 DEF PairsFrom
  <2>6. G = H \ {s} /\ s \in H
    BY <1>0, <1>4, <2>2, <2>4 DEF Holders
  <2> HIDE DEF P, Q, H, G
  <2>7. Cardinality(Q) = Cardinality(P) + 1 /\ Cardinality(G) = Cardinality(H) - 1
    BY <1>1, <2>5, <2>6, FS_AddElement, FS_RemoveElement
  <2>8. Cardinality(Q) + Cardinality(G) <= Cardinality(Slots)
    BY <1>1, <1>3, <2>7
  <2> QED
    BY <2>8 DEF Bounded, P, Q, H, G
<1> QED
  BY <1>5, <1>6

LEMMA IndInvHolds == Spec => []IndInv
<1>1. IndInv /\ [Next]_vars => IndInv'
  BY StepTypeOK, StepFormsSigned, StepApprovedOnly, StepSpentFirst, StepPairsBounded DEF IndInv
<1> QED
  BY <1>1, InitIndInv, PTL DEF Spec

-----------------------------------------------------------------------------
(***************************************************************************)
(* The theorems                                                            *)
(***************************************************************************)
\* Every variable has its type, and every key belongs to a minted record.
THEOREM TypeCorrect == Spec => []TypeOK
<1>1. IndInv => TypeOK
  BY DEF IndInv
<1> QED
  BY <1>1, IndInvHolds, PTL

\* get and delete are two calls, so a code or a refresh token may be used twice; but
\* never by more requests than the Worker had in flight at one time.
THEOREM PairsBounded == Spec => []PairsBoundedByOverlap
<1>1. IndInv => PairsBoundedByOverlap
  BY DEF IndInv
<1> QED
  BY <1>1, IndInvHolds, PTL

\* The handlers implement the promise: each step of theirs asks for one request,
\* approves one, grants what was approved, or changes nothing a client can see.
THEOREM TokensOnlyWhereApproved == Spec => Authorizes
<1>1. Init => Promise!Init
  BY DEF Init, Promise!Init
<1>2. IndInv /\ [Next]_vars => [Promise!Next]_Promise!vars
  <2> SUFFICES ASSUME IndInv, [Next]_vars PROVE Promise!Next \/ UNCHANGED Promise!vars
    BY DEF Promise!vars
  <2> USE DEF IndInv, store, ghosts
  <2>1. ASSUME NEW c \in Clients, NEW uri \in Uris, Authorize(c, uri) PROVE Promise!Ask
    <3>1. asked' = Append(asked, [client |-> c, uri |-> uri]) /\ Len(asked) < MaxRequests
      BY <2>1 DEF Authorize
    <3>2. /\ DOMAIN asked' = DOMAIN asked \cup {Len(asked')} /\ Len(asked') = Len(asked) + 1
          /\ Len(asked') \notin DOMAIN asked /\ Len(asked) \in Nat
      BY <3>1, AppendAdds, LenProperties DEF TypeOK
    <3>3. Len(asked') \in 1..MaxRequests
      BY <3>1, <3>2, BoundsAssumption
    <3> QED
      BY <2>1, <3>2, <3>3 DEF Authorize, Promise!Ask
  <2>2. ASSUME NEW s \in Slots, Approve(s) PROVE Promise!Approve
    <3>1. worker[s].user \in Users /\ worker[s].key[2] \in DOMAIN asked
      BY <2>2, UsedRecord DEF Approve, FormsSigned, Using
    <3> QED
      BY <2>2, <3>1 DEF Approve, Promise!Approve
  <2>3. CASE MintsPair
    <3>1. PICK s \in Slots :
              /\ worker[s].pc = "deleted"
              /\ worker[s].key[1] = "code" \/ worker[s].key[1] = "token"
              /\ granted' = granted \cup {<<Record(worker[s].key).user, Record(worker[s].key).req>>}
              /\ UNCHANGED <<asked, approved>>
      BY <2>3 DEF MintsPair
    <3>2. <<Record(worker[s].key).user, Record(worker[s].key).req>> \in approved
      BY <3>1, UsedRecord DEF Using, ApprovedOnly
    <3> QED
      BY <3>1, <3>2 DEF Promise!Next, Promise!Grant
  <2> QED
    BY <2>1, <2>2, <2>3, StepKinds DEF Promise!Next, Promise!vars
<1> QED
  BY <1>1, <1>2, IndInvHolds, PTL DEF Spec, Authorizes, Promise!Spec
=============================================================================
