-------------------------------- MODULE OAuth --------------------------------
(***************************************************************************)
(* The hosted OAuth authorization server: hosted/src/oauth.ts and          *)
(* hosted/src/routes/oauth.ts on the KV namespace HOSTED_USERS.            *)
(*                                                                         *)
(* Four kinds of single-use keys drive the flow: the pending request, the  *)
(* consent handoff, the authorization code and the refresh token.  Every   *)
(* handler uses one the same way: kv.get, then kv.delete, then the work    *)
(* that may mint the next key.  Worker invocations interleave at each      *)
(* await and may die there.                                                *)
(*                                                                         *)
(* A record never changes while it is stored, so each kind is the sequence *)
(* of the records minted so far, numbered, and `present' says which keys   *)
(* KV still holds.  Records that copy the pending request's fields (client,*)
(* redirect URI, challenge, scope) carry the request's number instead.     *)
(***************************************************************************)
EXTENDS Naturals, Sequences, FiniteSets

CONSTANTS
    Slots,          \* Worker invocations that may overlap
    Users,
    Clients,
    Uris,
    Registered,     \* Registered[c]: the redirect URIs of client c
    MaxRequests, MaxHandoffs, MaxCodes, MaxTokens   \* bounds: keys minted

ASSUME SlotsAssumption == IsFiniteSet(Slots)
ASSUME BoundsAssumption == MaxRequests \in Nat
ASSUME RegisteredAssumption == Registered \in [Clients -> SUBSET Uris]

VARIABLES
    asked,      \* oauth:req records: [client, uri]
    handoffs,   \* oauth:consent records: [user, req]
    codes,      \* oauth:code records: [user, req]
    tokens,     \* oauth:refresh records: [user, req], and the key each came from
    present,    \* keys in HOSTED_USERS
    worker,     \* worker[s]: the key invocation s is using, how far it got, and
                \* whether the record has reached its expiresAt since
    signedIn,   \* users that hold a full session token
    approved,   \* ghost: <<user, request>> approved on a consent page
    granted     \* ghost: <<user, request whose verifier was shown>> given tokens

store == <<asked, handoffs, codes, tokens, present>>
ghosts == <<approved, granted>>
vars == <<store, worker, signedIn, ghosts>>

Kinds == {"request", "handoff", "code", "token"}

Minted == [request |-> asked, handoff |-> handoffs, code |-> codes, token |-> tokens]

Keys == UNION {{kind} \X DOMAIN Minted[kind] : kind \in Kinds}

None == "none"
Idle == [pc |-> "idle", key |-> <<None, 0>>, user |-> None, lapsed |-> FALSE]

Record(key) == Minted[key[1]][key[2]]
Using(s, pc, kind) == worker[s].pc = pc /\ worker[s].key[1] = kind

Init ==
    /\ asked = <<>>
    /\ handoffs = <<>>
    /\ codes = <<>>
    /\ tokens = <<>>
    /\ present = {}
    /\ worker = [s \in Slots |-> Idle]
    /\ signedIn = {}
    /\ approved = {}
    /\ granted = {}

(***************************************************************************)
(* Keys that are minted by one put                                         *)
(***************************************************************************)
\* GET /authorize: validated against the registered client, then stored.
Authorize(c, uri) ==
    /\ Len(asked) < MaxRequests
    /\ uri \in Registered[c]
    /\ asked' = Append(asked, [client |-> c, uri |-> uri])
    /\ present' = present \cup {<<"request", Len(asked')>>}
    /\ UNCHANGED <<handoffs, codes, tokens, worker, signedIn, ghosts>>

\* The end of GET /auth/callback for a magic link that carries request q.
Callback(u, q) ==
    /\ Len(handoffs) < MaxHandoffs
    /\ handoffs' = Append(handoffs, [user |-> u, req |-> q])
    /\ present' = present \cup {<<"handoff", Len(handoffs')>>}
    /\ UNCHANGED <<asked, codes, tokens, worker, signedIn, ghosts>>

\* The end of GET /auth/callback for a plain magic link: a dashboard session, the
\* same full session token as any other.
SignIn(u) ==
    /\ signedIn' = signedIn \cup {u}
    /\ UNCHANGED <<store, worker, ghosts>>

\* A key reaches its expiresAt, and KV drops it.
Lapse(key) ==
    /\ present' = present \ {key}
    /\ worker' = [s \in Slots |-> IF worker[s].key = key THEN [worker[s] EXCEPT !.lapsed = TRUE]
                                 ELSE worker[s]]
    /\ UNCHANGED <<asked, handoffs, codes, tokens, signedIn, ghosts>>

(***************************************************************************)
(* Using a key: get, delete, finish                                        *)
(***************************************************************************)
\* kv.get finds the record.  A consent form comes with a session token; the
\* other requests bring nothing but their key.
Get(s, key, u) ==
    /\ worker[s] = Idle
    /\ key \in present
    /\ IF key[1] = "request" THEN u \in signedIn ELSE u = None
    /\ worker' = [worker EXCEPT ![s] = [pc |-> "read", key |-> key, user |-> u, lapsed |-> FALSE]]
    /\ UNCHANGED <<store, signedIn, ghosts>>

\* Bug variant: the key is left in the store.
DeleteNothing(s) ==
    /\ worker[s].pc = "read"
    /\ worker' = [worker EXCEPT ![s].pc = "deleted"]
    /\ UNCHANGED <<store, signedIn, ghosts>>

\* kv.delete, which succeeds whether or not the key is still there.
Delete(s) ==
    /\ worker[s].pc = "read"
    /\ worker' = [worker EXCEPT ![s].pc = "deleted"]
    /\ present' = present \ {worker[s].key}
    /\ UNCHANGED <<asked, handoffs, codes, tokens, signedIn, ghosts>>

Answer(s) == worker' = [worker EXCEPT ![s] = Idle]

\* GET /authorize/consent: the page is rendered, with an identity token in it,
\* unless the handoff or the request it points at has gone.
ShowConsent(s) ==
    LET handoff == Record(worker[s].key) IN
    /\ Using(s, "deleted", "handoff")
    /\ signedIn' = IF /\ ~worker[s].lapsed
                      /\ <<"request", handoff.req>> \in present
                   THEN signedIn \cup {handoff.user} ELSE signedIn
    /\ Answer(s)
    /\ UNCHANGED <<store, ghosts>>

\* POST /authorize/consent: approve mints a code, anything else nothing.
Approve(s) ==
    LET user == worker[s].user  req == worker[s].key[2] IN
    /\ Using(s, "deleted", "request")
    /\ Len(codes) < MaxCodes
    /\ codes' = Append(codes, [user |-> user, req |-> req])
    /\ present' = present \cup {<<"code", Len(codes')>>}
    /\ approved' = approved \cup {<<user, req>>}
    /\ Answer(s)
    /\ UNCHANGED <<asked, handoffs, tokens, signedIn, granted>>

Deny(s) ==
    /\ Using(s, "deleted", "request")
    /\ Answer(s)
    /\ UNCHANGED <<store, signedIn, ghosts>>

\* issueTokenPair: an access token, which is a full session of the user, and a
\* refresh token.  Bug variant: its two string arguments swapped.
IssueTokenPairSwapped(s, user, req) ==
    /\ Len(tokens) < MaxTokens
    /\ tokens' = Append(tokens, [user |-> req, req |-> user, from |-> worker[s].key])
    /\ present' = present \cup {<<"token", Len(tokens')>>}
    /\ signedIn' = signedIn \cup {req}
    /\ UNCHANGED <<asked, handoffs, codes>>

IssueTokenPair(s, user, req) ==
    /\ Len(tokens) < MaxTokens
    /\ tokens' = Append(tokens, [user |-> user, req |-> req, from |-> worker[s].key])
    /\ present' = present \cup {<<"token", Len(tokens')>>}
    /\ signedIn' = signedIn \cup {user}
    /\ UNCHANGED <<asked, handoffs, codes>>

\* verifyPkceS256: requests have distinct challenges, so the verifier of request
\* v matches that request only.  Bug variant: never compared.
PkceIgnored(v, req) == TRUE

PkceOk(v, req) == v = req

\* POST /token, authorization_code: the checks come after the delete, so a
\* refused code is spent.
CodeAccepted(s, c, uri, v) ==
    LET req == Record(worker[s].key).req IN
    /\ ~worker[s].lapsed
    /\ asked[req].client = c
    /\ asked[req].uri = uri
    /\ PkceOk(v, req)

TokenFromAuthCode(s, c, uri, v) ==
    LET code == Record(worker[s].key) IN
    /\ Using(s, "deleted", "code")
    /\ CodeAccepted(s, c, uri, v)
    /\ IssueTokenPair(s, code.user, code.req)
    /\ granted' = granted \cup {<<code.user, v>>}
    /\ Answer(s)
    /\ UNCHANGED approved

RefuseAuthCode(s, c, uri, v) ==
    /\ Using(s, "deleted", "code")
    /\ ~CodeAccepted(s, c, uri, v)
    /\ Answer(s)
    /\ UNCHANGED <<store, signedIn, ghosts>>

\* POST /token, refresh_token: client_id may be left out.
RefreshAccepted(s, c) ==
    /\ ~worker[s].lapsed
    /\ c = None \/ c = asked[Record(worker[s].key).req].client

TokenFromRefresh(s, c) ==
    LET token == Record(worker[s].key) IN
    /\ Using(s, "deleted", "token")
    /\ RefreshAccepted(s, c)
    /\ IssueTokenPair(s, token.user, token.req)
    /\ granted' = granted \cup {<<token.user, token.req>>}
    /\ Answer(s)
    /\ UNCHANGED approved

RefuseRefresh(s, c) ==
    /\ Using(s, "deleted", "token")
    /\ ~RefreshAccepted(s, c)
    /\ Answer(s)
    /\ UNCHANGED <<store, signedIn, ghosts>>

\* The invocation dies at an await, a KV call throws, or the session token of a
\* consent form turns out invalid: no answer, and nothing is undone.
Abort(s) ==
    /\ worker[s].pc # "idle"
    /\ worker' = [worker EXCEPT ![s] = Idle]
    /\ UNCHANGED <<store, signedIn, ghosts>>

Exchange(s, c) ==
    \/ TokenFromRefresh(s, c) \/ RefuseRefresh(s, c)
    \/ \E uri \in Uris, v \in DOMAIN asked :
          TokenFromAuthCode(s, c, uri, v) \/ RefuseAuthCode(s, c, uri, v)

Handle(s) ==
    \/ \E key \in present, u \in signedIn \cup {None} : Get(s, key, u)
    \/ Delete(s) \/ ShowConsent(s) \/ Approve(s) \/ Deny(s) \/ Abort(s)
    \/ \E c \in Clients \cup {None} : Exchange(s, c)

Next ==
    \/ \E c \in Clients, uri \in Uris : Authorize(c, uri)
    \/ \E u \in Users, q \in DOMAIN asked : Callback(u, q)
    \/ \E u \in Users : SignIn(u)
    \/ \E key \in present : Lapse(key)
    \/ \E s \in Slots : Handle(s)

Spec == Init /\ [][Next]_vars

-----------------------------------------------------------------------------
(***************************************************************************)
(* Properties                                                              *)
(***************************************************************************)
Grants == [user : Users, req : DOMAIN asked]

\* Every variable has its type; every key belongs to a minted record.
TypeOK ==
    /\ asked \in Seq([client : Clients, uri : Uris])
    /\ handoffs \in Seq(Grants)
    /\ codes \in Seq(Grants)
    /\ tokens \in Seq([user : Users, req : DOMAIN asked, from : Keys])
    /\ present \subseteq Keys
    /\ worker \in [Slots -> {Idle} \cup [pc : {"read", "deleted"}, key : Keys,
                                     user : Users \cup {None}, lapsed : BOOLEAN]]
    /\ signedIn \subseteq Users
    /\ approved \subseteq Users \X DOMAIN asked
    /\ granted \subseteq Users \X DOMAIN asked

PairsFrom(key) == {n \in DOMAIN tokens : tokens[n].from = key}
Holders(key) == {s \in Slots : worker[s].key = key}

\* A credential yields more than one token pair only to requests that had all
\* read it before the first of them deleted it, so never more than there are
\* invocations at one time.
PairsBoundedByOverlap ==
    \A key \in Keys : Cardinality(PairsFrom(key)) + Cardinality(Holders(key)) <= Cardinality(Slots)

\* The flow implements the promise: tokens of a user reach only the owner of a
\* request that this user approved.
Promise == INSTANCE Authorization WITH Requests <- 1..MaxRequests, asked <- DOMAIN asked
Authorizes == Promise!Spec
=============================================================================
