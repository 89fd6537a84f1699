-------------------------------- MODULE Vault --------------------------------
(***************************************************************************)
(* The credential vault (hosted/src/vault.ts) on the KV namespace          *)
(* HOSTED_VAULT: one wrapped data key per user, one encrypted blob per     *)
(* connected network, complete deletion, and the re-wrapping of every key  *)
(* when the master key is rotated.                                         *)
(*                                                                         *)
(* Every operation is a chain of KV calls with an await between them, and  *)
(* no two of them lock each other out.  Encryption is perfect: a blob is   *)
(* the number of the data key that encrypted it, and a wrapped key is its  *)
(* number and the version of the master key.  KV reads see the last write. *)
(***************************************************************************)
EXTENDS Naturals

CONSTANTS
    Slots,      \* Worker invocations that may overlap
    Users,
    Networks,
    MaxKeys,    \* bound: data keys generated
    MaxWalks    \* bound: rotation walks that run to their end

ASSUME BoundsAssumption == MaxKeys \in Nat /\ MaxWalks \in Nat

VARIABLES
    keys,       \* keys[u]: vault:key:<u>, [data, version]
    blobs,      \* blobs[u][n]: vault:cred:<u>:<n>, its data key or NoData
    minted,     \* data keys generated so far
    deployed,   \* VAULT_MASTER_KEY_VERSION of the running Worker
    worker,     \* worker[s]: the operation invocation s is in
    rotation,   \* the walk of rotateMasterKey
    walks,      \* rotation walks that ran to their end
    skipped,    \* RotationSummary.skipped of the last of them
    gone,       \* ghost: users whose last operation was a finished deleteUser
    swept,      \* ghost: a walk that no old Worker overlapped has ended
    overlapped  \* ghost: users with stores or deletions that overlapped each
                \* other, or a deletion that overlapped a re-wrapping

finished == <<walks, skipped>>
history == <<gone, swept, overlapped>>
vaultVars == <<keys, blobs, minted, deployed, worker, rotation, finished, history>>

Old == 1
New == 2
NoData == 0
NoUser == "none"
ASSUME UsersAssumption == NoUser \notin Users
NoKey == [data |-> NoData, version |-> 0]
Idle == [op |-> "idle", user |-> NoUser, todo |-> {}, data |-> NoData, version |-> 0]
NoWalk == [op |-> "idle", todo |-> {}, user |-> NoUser, read |-> NoKey,
           skipped |-> 0, clean |-> FALSE]

VaultInit ==
    /\ keys = [u \in Users |-> NoKey]
    /\ blobs = [u \in Users |-> [n \in Networks |-> NoData]]
    /\ minted = 0
    /\ deployed = Old
    /\ worker = [s \in Slots |-> Idle]
    /\ rotation = NoWalk
    /\ walks = 0
    /\ skipped = 0
    /\ gone = {}
    /\ swept = FALSE
    /\ overlapped = {}

Busy(u) == {s \in Slots : worker[s].user = u}
Deleting(u) == \E s \in Busy(u) : worker[s].op = "deleting"
Connected(u) == {n \in Networks : blobs[u][n] # NoData}

(***************************************************************************)
(* putCredentials                                                          *)
(***************************************************************************)
Begin(s, op, u, todo, data) ==
    /\ worker[s] = Idle
    /\ worker' = [worker EXCEPT ![s] = [op |-> op, user |-> u, todo |-> todo, data |-> data,
                                        version |-> deployed]]
    /\ overlapped' = IF Busy(u) # {} \/ (op = "deleting" /\ rotation.user = u)
                     THEN overlapped \cup {u} ELSE overlapped

\* getOrCreateRawDataKey finds no key and generates one.
GenerateKey(s, u, n) ==
    /\ keys[u] = NoKey
    /\ minted < MaxKeys
    /\ minted' = minted + 1
    /\ Begin(s, "minting", u, {n}, minted')
    /\ gone' = gone \ {u}
    /\ UNCHANGED <<keys, blobs, deployed, rotation, finished, swept>>

\* It finds one that this Worker's master key unwraps.  Under another version
\* the call throws, and nothing changes.
UnwrapKey(s, u, n) ==
    /\ keys[u] # NoKey
    /\ keys[u].version = deployed
    /\ Begin(s, "storing", u, {n}, keys[u].data)
    /\ gone' = gone \ {u}
    /\ UNCHANGED <<keys, blobs, minted, deployed, rotation, finished, swept>>

\* Bug variant: the stored key is not tagged with its version.
StoreKeyUntagged(s) ==
    /\ worker[s].op = "minting"
    /\ keys' = [keys EXCEPT ![worker[s].user] = [data |-> worker[s].data]]
    /\ worker' = [worker EXCEPT ![s].op = "storing"]
    /\ UNCHANGED <<blobs, minted, deployed, rotation, finished, history>>

StoreKey(s) ==
    /\ worker[s].op = "minting"
    /\ keys' = [keys EXCEPT ![worker[s].user] = [data |-> worker[s].data,
                                                 version |-> worker[s].version]]
    /\ worker' = [worker EXCEPT ![s].op = "storing"]
    /\ UNCHANGED <<blobs, minted, deployed, rotation, finished, history>>

StoreBlob(s) ==
    /\ worker[s].op = "storing"
    /\ \E n \in worker[s].todo :
          blobs' = [blobs EXCEPT ![worker[s].user][n] = worker[s].data]
    /\ worker' = [worker EXCEPT ![s] = Idle]
    /\ UNCHANGED <<keys, minted, deployed, rotation, finished, history>>

(***************************************************************************)
(* deleteCredential and deleteUser                                         *)
(***************************************************************************)
DeleteCredential(u, n) ==
    /\ blobs[u][n] # NoData
    /\ blobs' = [blobs EXCEPT ![u][n] = NoData]
    /\ UNCHANGED <<keys, minted, deployed, worker, rotation, finished, history>>

\* Bug variants: only the first page is deleted; the data key goes first.
ListUserFirstPage(s, u) ==
    /\ \E n \in Networks : Begin(s, "deleting", u, Connected(u) \cap {n}, NoData)
    /\ gone' = gone \ {u}
    /\ UNCHANGED <<keys, blobs, minted, deployed, rotation, finished, swept>>

ListUserKeyFirst(s, u) ==
    /\ Begin(s, "deleting", u, Connected(u), NoData)
    /\ keys' = [keys EXCEPT ![u] = NoKey]
    /\ gone' = gone \ {u}
    /\ UNCHANGED <<blobs, minted, deployed, rotation, finished, swept>>

ListUser(s, u) ==
    /\ Begin(s, "deleting", u, Connected(u), NoData)
    /\ gone' = gone \ {u}
    /\ UNCHANGED <<keys, blobs, minted, deployed, rotation, finished, swept>>

\* The deletes of a page run side by side (Promise.all).
DeleteBlob(s) ==
    /\ worker[s].op = "deleting"
    /\ \E n \in worker[s].todo :
          /\ blobs' = [blobs EXCEPT ![worker[s].user][n] = NoData]
          /\ worker' = [worker EXCEPT ![s].todo = @ \ {n}]
    /\ UNCHANGED <<keys, minted, deployed, rotation, finished, history>>

DeleteKey(s) ==
    /\ worker[s].op = "deleting"
    /\ worker[s].todo = {}
    /\ keys' = [keys EXCEPT ![worker[s].user] = NoKey]
    /\ worker' = [worker EXCEPT ![s] = Idle]
    /\ gone' = gone \cup {worker[s].user}
    /\ UNCHANGED <<blobs, minted, deployed, rotation, finished, swept, overlapped>>

\* The Worker dies, or a KV call throws: what was written stays.
Interrupt(s) ==
    /\ worker[s] # Idle
    /\ worker' = [worker EXCEPT ![s] = Idle]
    /\ UNCHANGED <<keys, blobs, minted, deployed, rotation, finished, history>>

(***************************************************************************)
(* rotateMasterKey, after the Worker has the new secret and version        *)
(***************************************************************************)
Deploy ==
    /\ deployed = Old
    /\ deployed' = New
    /\ UNCHANGED <<keys, blobs, minted, worker, rotation, finished, history>>

ListKeys ==
    /\ deployed = New
    /\ rotation.op = "idle"
    /\ walks < MaxWalks
    /\ rotation' = [NoWalk EXCEPT !.op = "walking", !.todo = {u \in Users : keys[u] # NoKey},
                    !.clean = \A s \in Slots : worker[s].version # Old]
    /\ UNCHANGED <<keys, blobs, minted, deployed, worker, finished, history>>

\* Bug variant: the tag is compared with the new provider's.
NeedsRotationInverted(key) == key.version = New

NeedsRotation(key) == key.version = Old

\* The next key is read: it has gone, or is skipped, or will be re-wrapped.
ReadKey(u) ==
    /\ rotation.op = "walking"
    /\ u \in rotation.todo
    /\ rotation' =
          IF keys[u] = NoKey THEN [rotation EXCEPT !.todo = @ \ {u}]
          ELSE IF NeedsRotation(keys[u])
          THEN [rotation EXCEPT !.op = "rewrapping", !.todo = @ \ {u}, !.user = u, !.read = keys[u]]
          ELSE [rotation EXCEPT !.todo = @ \ {u}, !.skipped = @ + 1]
    /\ overlapped' = IF rotation'.user = u /\ Deleting(u) THEN overlapped \cup {u} ELSE overlapped
    /\ UNCHANGED <<keys, blobs, minted, deployed, worker, finished, gone, swept>>

WriteKey ==
    /\ rotation.op = "rewrapping"
    /\ keys' = [keys EXCEPT ![rotation.user] = [data |-> rotation.read.data, version |-> New]]
    /\ rotation' = [rotation EXCEPT !.op = "walking", !.user = NoUser, !.read = NoKey]
    /\ UNCHANGED <<blobs, minted, deployed, worker, finished, history>>

EndWalk ==
    /\ rotation.op = "walking"
    /\ rotation.todo = {}
    /\ rotation' = NoWalk
    /\ walks' = walks + 1
    /\ skipped' = rotation.skipped
    /\ swept' = (swept \/ rotation.clean)
    /\ UNCHANGED <<keys, blobs, minted, deployed, worker, gone, overlapped>>

InterruptWalk ==
    /\ rotation.op # "idle"
    /\ rotation' = NoWalk
    /\ UNCHANGED <<keys, blobs, minted, deployed, worker, finished, history>>

-----------------------------------------------------------------------------
Store(s, u, n) == GenerateKey(s, u, n) \/ UnwrapKey(s, u, n)
Work(s) == StoreKey(s) \/ StoreBlob(s) \/ DeleteBlob(s) \/ DeleteKey(s) \/ Interrupt(s)
Rotate == ListKeys \/ (\E u \in Users : ReadKey(u)) \/ WriteKey \/ EndWalk \/ InterruptWalk

VaultNext ==
    \/ \E s \in Slots, u \in Users, n \in Networks : Store(s, u, n)
    \/ \E s \in Slots, u \in Users : ListUser(s, u)
    \/ \E u \in Users, n \in Networks : DeleteCredential(u, n)
    \/ \E s \in Slots : Work(s)
    \/ Deploy \/ Rotate

VaultSpec == VaultInit /\ [][VaultNext]_vaultVars

-----------------------------------------------------------------------------
(***************************************************************************)
(* Properties                                                              *)
(***************************************************************************)
StoredKeys == [data : 1..MaxKeys, version : {Old, New}]

Puts == [op : {"minting", "storing"}, user : Users, todo : SUBSET Networks,
         data : 1..MaxKeys, version : {Old, New}]
Deletions == [op : {"deleting"}, user : Users, todo : SUBSET Networks,
              data : {NoData}, version : {Old, New}]
Walks == [op : {"walking"}, todo : SUBSET Users, user : {NoUser}, read : {NoKey},
          skipped : Nat, clean : BOOLEAN]
Rewraps == [op : {"rewrapping"}, todo : SUBSET Users, user : Users, read : StoredKeys,
            skipped : Nat, clean : BOOLEAN]

\* Every variable has its type.
VaultTypeOK ==
    /\ keys \in [Users -> StoredKeys \cup {NoKey}]
    /\ blobs \in [Users -> [Networks -> 0..MaxKeys]]
    /\ minted \in 0..MaxKeys
    /\ deployed \in {Old, New}
    /\ worker \in [Slots -> {Idle} \cup Puts \cup Deletions]
    /\ rotation \in {NoWalk} \cup Walks \cup Rewraps
    /\ walks \in Nat
    /\ skipped \in Nat
    /\ gone \subseteq Users
    /\ swept \in BOOLEAN
    /\ overlapped \subseteq Users

\* getCredentials by a Worker with master key `version'.
GetCredentials(u, n, version) ==
    IF blobs[u][n] = NoData THEN "null"
    ELSE IF keys[u] = NoKey THEN "not_found"
    ELSE IF keys[u].version # version THEN "provider_mismatch"
    ELSE IF keys[u].data # blobs[u][n] THEN "decrypt_failed"
    ELSE "ok"

\* "must store credentials sequentially per user" is enough: whatever rotation,
\* interrupted deletions and crashes do in between, every stored credential of a
\* user without overlapping operations is readable.
SequentialIsReadable ==
    \A u \in Users \ overlapped : \A n \in Connected(u) :
        GetCredentials(u, n, keys[u].version) = "ok"

\* After deleteUser "there is nothing left to recover".
NothingLeft ==
    \A u \in gone \ overlapped : keys[u] = NoKey /\ Connected(u) = {}

\* Once a walk that no old Worker overlapped has ended, however many walks were
\* interrupted before it, no key needs the old master secret any more.
NoOldKeyLeft == swept => \A u \in Users : keys[u].version # Old
=============================================================================
