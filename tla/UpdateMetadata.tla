--------------------------- MODULE UpdateMetadata ---------------------------
(***************************************************************************)
(* What an update believes about releases: the TUF metadata it fetches     *)
(* (src/update/metadata-client.ts), authenticates (trust.ts), checkpoints  *)
(* (metadata-checkpoint.ts) and keeps with each release (receipt.ts).      *)
(*                                                                         *)
(* The publisher makes one publication after the other.  Publication n     *)
(* signs a timestamp, a snapshot and a targets file anew, each with        *)
(* version n; a channel file has the number of the publication that wrote  *)
(* it, which is also its release sequence (selection.ts:80), and is 0      *)
(* before its first release.  No two files share role and version, so a    *)
(* version stands for a digest too.  The mirror may serve files of earlier *)
(* publications, each of another one, and hide the newest roots, and the   *)
(* publisher may go on meanwhile.                                          *)
(***************************************************************************)
EXTENDS Integers, Sequences, FiniteSets, FiniteSetsExt

CONSTANTS
  Channels,         \* the update channels
  MaxPublications,  \* bound: publications made
  MaxLag,           \* bound: how many publications the mirror lags
  Times,            \* bound: the times the client's clock may show
  Lifetime,         \* a file of publication n expires at n + Lifetime
  MaxRoots,         \* MAX_SEQUENTIAL_ROOTS, 32 in the code
  MaxAdvance,       \* MAX_VERSION_ADVANCE, 1024 in the code
  MaxRecords        \* MAX_METADATA_RECORDS, 4096 in the code

ASSUME BoundsAssumption ==
  /\ {MaxPublications, Lifetime, MaxRoots, MaxAdvance, MaxRecords} \subseteq Nat \ {0}
  /\ MaxLag \in Nat /\ Times \subseteq Nat

VARIABLES
  publications, \* external: what was published, in order
  chain,        \* the checkpoints, in order
  trusted,      \* what the launcher, loading them, trusts
  bundles,      \* the metadata sets stored for them
  receipts,     \* the receipts of authenticated releases
  pc,           \* where the running update is
  pending       \* the set it fetches for a channel, and the time it trusts

client == <<chain, trusted, bundles, receipts, pc, pending>>
vars == <<publications, client>>

-----------------------------------------------------------------------------
(* The publisher.  A publication has the version of its root, the root     *)
(* keys that root lists and those that signed it, and "online", the        *)
(* version of the root that introduced the key of the other top-level      *)
(* files.  Channel keys, which the targets file delegates to, stay.        *)

Embedded == 1
Now == Len(publications)
Latest == publications[Now]

FirstPublication(first) ==
  [root |-> Embedded, online |-> Embedded,
   keys |-> {<<"root", Embedded>>}, signers |-> {<<"root", Embedded>>}, revoked |-> {},
   channel |-> [c \in Channels |-> IF c = first THEN 1 ELSE 0]]

Publish(p) ==
  /\ Now < MaxPublications
  /\ publications' = Append(publications, p)
  /\ UNCHANGED client

Release(c) == Publish([Latest EXCEPT !.channel[c] = Now + 1])

(* The next root may list a new root key, keep or drop the old ones.  It   *)
(* is signed with all it lists, and cross-signed with all that the one     *)
(* before lists when they have none in common.                             *)
Rotate ==
  \E online \in {Latest.online, Latest.root + 1},
     keys \in SUBSET (Latest.keys \union {<<"root", Latest.root + 1>>}) \ {{}} :
    LET signers == IF keys \intersect Latest.keys # {} THEN keys ELSE keys \union Latest.keys
    IN Publish([Latest EXCEPT !.root = @ + 1, !.online = online, !.keys = keys, !.signers = signers])

(* Only keys no longer in use are revoked.                                 *)
Retired ==
  (UNION {publications[n].keys : n \in 1..Now} \ Latest.keys)
    \union {<<"online", v>> : v \in 1..Latest.online - 1}

Revoke(key) == key \notin Latest.revoked /\ Publish([Latest EXCEPT !.revoked = @ \union {key}])

WithRoot(v) == publications[CHOOSE n \in 1..Now : publications[n].root = v]
RootKeys(v) == WithRoot(v).keys
RootSigners(v) == WithRoot(v).signers
OnlineKey(v) == WithRoot(v).online
Signer(n) == publications[n].online
Expired(n, time) == time >= n + Lifetime

-----------------------------------------------------------------------------
(* A metadata set: the roots from the embedded one up to "roots", the four *)
(* files and the name of the channel.                                      *)
Sets ==
  [roots : 1..MaxPublications, timestamp : 1..MaxPublications, snapshot : 1..MaxPublications,
   targets : 1..MaxPublications, file : 1..MaxPublications, name : Channels]

Larger(m, n) == IF m >= n THEN m ELSE n

(* What the client trusts before its first update, and after one more set. *)
Untrusting ==
  [valid |-> TRUE, root |-> Embedded, timestamp |-> 0, snapshot |-> 0, targets |-> 0,
   channel |-> [c \in Channels |-> 0], time |-> 0, revoked |-> {}]

Trusting(s, set, now) ==
  [s EXCEPT !.root = Larger(@, set.roots),
            !.timestamp = set.timestamp, !.snapshot = set.snapshot, !.targets = set.targets,
            !.channel[set.name] = set.file,
            !.time = Larger(now, @),
            !.revoked = @ \union publications[set.targets].revoked]

(* The trust store is made anew from the trusted root for every set, and   *)
(* takes no root that has a signature of a key it does not list itself.    *)
Constructs(s) == RootSigners(s.root) \subseteq RootKeys(s.root)

WrongRootsFollowAfterCurrent(s, set) ==
  /\ set.roots = Embedded \/ set.roots > s.root
  /\ \A v \in s.root + 1 .. set.roots : RootSigners(v) \intersect s.revoked = {}

(* The roots of a set are only used from the trusted one on, which must be *)
(* among them when there are any.                                          *)
RootsFollow(s, set) ==
  /\ set.roots = Embedded \/ set.roots >= s.root
  /\ \A v \in s.root + 1 .. set.roots : RootSigners(v) \intersect s.revoked = {}

Authorized(s, set) ==
  \A n \in {set.timestamp, set.snapshot, set.targets} :
    /\ Signer(n) = OnlineKey(Larger(s.root, set.roots))
    /\ <<"online", Signer(n)>> \notin s.revoked

WrongBoundWithoutSnapshot(set) == set.file = publications[set.targets].channel[set.name]

Bound(set) ==
  /\ set.snapshot = set.timestamp
  /\ set.targets = set.snapshot
  /\ set.file = publications[set.snapshot].channel[set.name]

WrongAboveOnlyLimited(floor, version) == floor > 0 => version - floor <= MaxAdvance

Above(floor, version) == version >= floor /\ (floor > 0 => version - floor <= MaxAdvance)

AboveFloors(s, set) ==
  /\ Above(s.timestamp, set.timestamp)
  /\ Above(s.snapshot, set.snapshot)
  /\ Above(s.targets, set.targets)
  /\ Above(s.channel[set.name], set.file)

Fresh(s, set, now) ==
  \A n \in {set.timestamp, set.snapshot, set.targets, set.file} : ~Expired(n, Larger(now, s.time))

Authenticates(s, set, now) ==
  /\ Constructs(s)
  /\ RootsFollow(s, set)
  /\ Authorized(s, set)
  /\ s.revoked \subseteq publications[set.targets].revoked
  /\ Fresh(s, set, now)
  /\ Bound(set)
  /\ AboveFloors(s, set)

(* Loading the chain authenticates every checkpoint again, at its own time *)
(* and from the trust the ones before it established; the trusted time it  *)
(* leads to must be the recorded one.                                      *)
Load(checkpoints, stored) ==
  LET load[n \in 0..Len(checkpoints)] ==
        IF n = 0 THEN Untrusting
        ELSE LET s == load[n - 1]
                 c == checkpoints[n]
             IN IF /\ s.valid
                   /\ c.set \in stored
                   /\ Authenticates(s, c.set, c.time)
                   /\ Larger(c.time, s.time) = c.time
                THEN Trusting(s, c.set, c.time)
                ELSE [s EXCEPT !.valid = FALSE]
  IN load[Len(checkpoints)]

(* A receipt is authenticated from the embedded root with the roots of its *)
(* own set, whatever was expired, and with the keys revoked by now.        *)
RootsGood(roots, revoked) ==
  \A v \in Embedded + 1 .. roots : RootSigners(v) \intersect revoked = {}

SignersGood(set, revoked) ==
  /\ RootSigners(set.roots) \intersect revoked = {}
  /\ \A n \in {set.timestamp, set.snapshot, set.targets} : <<"online", Signer(n)>> \notin revoked

ReceiptVerifies(set, revoked) ==
  /\ RootsGood(set.roots, revoked)
  /\ \A n \in {set.timestamp, set.snapshot, set.targets} : Signer(n) = OnlineKey(set.roots)
  /\ Bound(set)
  /\ SignersGood(set, revoked)

(* One receipt for a release, and revocations that only grow from one      *)
(* targets version to the next.                                            *)
Consistent ==
  \A r, q \in receipts :
    /\ r.set.file = q.set.file => r = q
    /\ r.set.targets <= q.set.targets =>
         publications[r.set.targets].revoked \subseteq publications[q.set.targets].revoked

NewestRevoked ==
  LET newest == CHOOSE r \in receipts : \A q \in receipts : q.set.targets <= r.set.targets
  IN publications[newest.set.targets].revoked

Covered(r) ==
  /\ r.set.roots <= trusted.root /\ r.set.timestamp <= trusted.timestamp
  /\ r.set.snapshot <= trusted.snapshot /\ r.set.targets <= trusted.targets
  /\ r.set.file <= trusted.channel[r.set.name] /\ r.time <= trusted.time

(* The receipts are read together: no root may be signed with a key the    *)
(* newest of them revokes, and the checkpoints must cover them all.        *)
Reconstructs ==
  receipts # {} =>
    /\ \A r \in receipts : ReceiptVerifies(r.set, {})
    /\ Consistent
    /\ \A r \in receipts : RootsGood(r.set.roots, NewestRevoked)
    /\ \A r \in receipts : Covered(r)
    /\ NewestRevoked \subseteq trusted.revoked

-----------------------------------------------------------------------------
(* An update, under the update lock.  Recovery comes first: it loads all   *)
(* records, refuses to go on if they do not agree, and removes sets no     *)
(* checkpoint refers to.                                                   *)
Nothing ==
  [set |-> [roots |-> 0, timestamp |-> 0, snapshot |-> 0, targets |-> 0, file |-> 0, name |-> "none"],
   time |-> 0]

Start(c) ==
  /\ pc = "idle"
  /\ Load(chain, bundles).valid /\ Reconstructs
  /\ trusted' = Load(chain, bundles)
  /\ bundles' = {chain[n].set : n \in DOMAIN chain}
  /\ pc' = "fetch"
  /\ pending' = [Nothing EXCEPT !.set.name = c]
  /\ UNCHANGED <<publications, chain, receipts>>

Served == Larger(1, Now - MaxLag) .. Now

(* Roots are read until one is not found, at most MaxRoots of them, then   *)
(* the four files, each from whatever the mirror has.                      *)
Fetch ==
  /\ pc = "fetch"
  /\ \E set \in [roots : {publications[n].root : n \in Served},
                 timestamp : Served, snapshot : Served, targets : Served,
                 file : {publications[n].channel[pending.set.name] : n \in Served} \ {0},
                 name : {pending.set.name}] :
       /\ set.roots - Embedded <= MaxRoots
       /\ pending' = [set |-> set, time |-> 0]
  /\ pc' = "authenticate"
  /\ UNCHANGED <<publications, chain, trusted, bundles, receipts>>

Room(set) == Len(chain) < MaxRecords /\ (Cardinality(bundles) < MaxRecords \/ set \in bundles)

(* A set that is stored already is used as it is.                          *)
Store(set) == bundles' = bundles \union {set}

WrongAuthenticateRecordsClock ==
  /\ pc = "authenticate"
  /\ Room(pending.set)
  /\ \E now \in Times :
       /\ Authenticates(trusted, pending.set, now)
       /\ pending' = [pending EXCEPT !.time = now]
  /\ Store(pending.set)
  /\ pc' = "checkpoint"
  /\ UNCHANGED <<publications, chain, trusted, receipts>>

WrongAuthenticateWithoutRoom ==
  /\ pc = "authenticate"
  /\ \E now \in Times :
       /\ Authenticates(trusted, pending.set, now)
       /\ pending' = [pending EXCEPT !.time = Larger(now, trusted.time)]
  /\ Store(pending.set)
  /\ pc' = "checkpoint"
  /\ UNCHANGED <<publications, chain, trusted, receipts>>

(* The set is authenticated at the time the clock shows, which may have    *)
(* been set back or forward, and stored once there is room for it.         *)
Authenticate ==
  /\ pc = "authenticate"
  /\ Room(pending.set)
  /\ \E now \in Times :
       /\ Authenticates(trusted, pending.set, now)
       /\ pending' = [pending EXCEPT !.time = Larger(now, trusted.time)]
  /\ Store(pending.set)
  /\ pc' = "checkpoint"
  /\ UNCHANGED <<publications, chain, trusted, receipts>>

AppendCheckpoint ==
  /\ pc = "checkpoint"
  /\ chain' = Append(chain, pending)
  /\ trusted' = Load(chain', bundles)
  /\ pc' = "select"
  /\ UNCHANGED <<publications, bundles, receipts, pending>>

(* A release below the newest one known is a downgrade; the newest itself  *)
(* must be known from the same channel.                                    *)
Floor == Max({0} \union {r.set.file : r \in receipts})
Known == {r \in receipts : r.set.file = pending.set.file}

Eligible ==
  \/ pending.set.file > Floor
  \/ pending.set.file = Floor /\ \E r \in Known : r.set.name = pending.set.name

(* The receipt is only written when it can be read again.                  *)
Persist == ReceiptVerifies(pending.set, trusted.revoked) /\ receipts' = receipts \union {pending}

WrongSelectPersistsAlways ==
  /\ pc = "select"
  /\ Eligible
  /\ Persist
  /\ pc' = "idle"
  /\ pending' = Nothing
  /\ UNCHANGED <<publications, chain, trusted, bundles>>

(* The receipt of a known release must still be good.                      *)
Select ==
  /\ pc = "select"
  /\ Eligible
  /\ \A r \in Known : ReceiptVerifies(r.set, trusted.revoked)
  /\ IF Known = {} THEN Persist ELSE UNCHANGED receipts
  /\ pc' = "idle"
  /\ pending' = Nothing
  /\ UNCHANGED <<publications, chain, trusted, bundles>>

(* A request fails, a check refuses, or the process ends: what is on disk  *)
(* stays as it is and the next update starts from it.                      *)
Stop ==
  /\ pc # "idle"
  /\ pc' = "idle"
  /\ pending' = Nothing
  /\ UNCHANGED <<publications, chain, trusted, bundles, receipts>>

-----------------------------------------------------------------------------
Init ==
  /\ \E c \in Channels : publications = <<FirstPublication(c)>>
  /\ chain = << >> /\ trusted = Untrusting /\ bundles = {} /\ receipts = {}
  /\ pc = "idle" /\ pending = Nothing

Publisher == (\E c \in Channels : Release(c)) \/ Rotate \/ (\E key \in Retired : Revoke(key))

Update == (\E c \in Channels : Start(c)) \/ Fetch \/ Authenticate \/ AppendCheckpoint \/ Select \/ Stop

Next == Publisher \/ Update

Spec == Init /\ [][Next]_vars

-----------------------------------------------------------------------------
(* TypeOK: the variables have the types of the records on disk.            *)
Checkpoints == [set : Sets, time : Times]

TypeOK ==
  /\ Now \in 1..MaxPublications
  /\ chain \in Seq(Checkpoints) /\ Len(chain) <= MaxRecords
  /\ bundles \subseteq Sets /\ receipts \subseteq Checkpoints
  /\ pc \in {"idle", "fetch", "authenticate", "checkpoint", "select"}
  /\ IF pc \in {"idle", "fetch"} THEN pending.set.roots = 0
     ELSE pending \in [set : Sets, time : Times \union {0}]
  /\ pc \in {"checkpoint", "select"} => pending \in Checkpoints

(* ChainReplays: whatever was accepted is accepted again whenever the      *)
(* chain is loaded, although clocks were set back, roots rotated or        *)
(* hidden, keys revoked, channels switched and updates interrupted         *)
(* (loadMetadataCheckpointChain, metadata-checkpoint.ts:183-247).  This is *)
(* about what was accepted; a root that shuts out all that comes after it  *)
(* is RotationAccepted's.                                                  *)
ChainReplays == trusted.valid /\ Load(chain, bundles) = trusted

(* OnePublication: what the client trusts after any number of updates, on  *)
(* whichever channels, is what one publication contained as a whole, never *)
(* a mixture; of other channels it knows nothing that publication did not  *)
(* (verifyMetadataBindings and assertMetadataFloors, trust.ts:275-341).    *)
OnePublication ==
  chain # << >> =>
    /\ trusted.snapshot = trusted.timestamp /\ trusted.targets = trusted.timestamp
    /\ LET p == publications[trusted.timestamp] IN
       /\ trusted.revoked = p.revoked
       /\ \A c \in Channels : trusted.channel[c] <= p.channel[c]
       /\ OnlineKey(trusted.root) = p.online

(* NeverBack: no update, however it ends and whatever the clock shows,     *)
(* takes back a version, a revocation or the time that is trusted          *)
(* (Updates are monotone: acceptance matrix T2, T4, T6).                   *)
NeverBack ==
  [][/\ trusted.root <= trusted'.root /\ trusted.timestamp <= trusted'.timestamp
     /\ trusted.targets <= trusted'.targets
     /\ \A c \in Channels : trusted.channel[c] <= trusted'.channel[c]
     /\ trusted.time <= trusted'.time
     /\ trusted.revoked \subseteq trusted'.revoked]_vars

(* ReceiptsReadable: recovery can read the receipts of all updates so far  *)
(* together, and the checkpoints cover them ("State is reconstructible     *)
(* from receipts and the activation chain", acceptance matrix S3), unless  *)
(* the publisher revoked a root key that signed one of the roots.          *)
RootKeysKept == \A key \in Latest.revoked : key[1] = "online"

ReceiptsReadable == RootKeysKept => Reconstructs

(* CurrentSetAccepted: no history of updates shuts the client out of what  *)
(* the publisher has now, while it is not expired and the code's limits    *)
(* are not reached, provided the publisher revokes no root key and never   *)
(* cross-signs: hands root keys over by way of a root that lists old and   *)
(* new ones (TufTrustStore, trust.ts:93-273).                              *)
CurrentSet(c) ==
  [roots |-> Latest.root, timestamp |-> Now, snapshot |-> Now, targets |-> Now,
   file |-> Latest.channel[c], name |-> c]

WithinLimits(c) ==
  /\ trusted.timestamp > 0 => Now - trusted.timestamp <= MaxAdvance
  /\ trusted.channel[c] > 0 => Latest.channel[c] - trusted.channel[c] <= MaxAdvance

NoCrossSigning == \A n \in 1..Now : publications[n].signers \subseteq publications[n].keys

Accepted ==
  \A c \in Channels : \A now \in Times :
    Latest.channel[c] > 0 /\ WithinLimits(c) /\ Fresh(trusted, CurrentSet(c), now)
      => Authenticates(trusted, CurrentSet(c), now)

CurrentSetAccepted == RootKeysKept /\ NoCrossSigning => Accepted

(* RotationAccepted: nor does a root that is cross-signed, as a root must  *)
(* be that replaces its keys at once (sequential-root.test.ts:359,         *)
(* "dual-threshold success cross-signs the new root with old and new       *)
(* keys").                                                                 *)
RotationAccepted == RootKeysKept => Accepted
=============================================================================
