------------------------- MODULE UpdateMetadata_proofs -------------------------
(***************************************************************************)
(* What a client believes of a publisher, for any number of channels,      *)
(* publications, mirrors that lag, clocks and updates.  The argument: what *)
(* is published stays; a checkpoint takes the trust from one publication   *)
(* as a whole to a later one; and so does every reading of the checkpoints *)
(* from the first one on.                                                  *)
(***************************************************************************)
EXTENDS UpdateMetadata, FiniteSetTheorems, WellFoundedInduction, SequenceTheorems, TLAPS

-----------------------------------------------------------------------------
(* Two facts about numbers up to k.                                        *)

(* Lemma: a set that has 0, and with n - 1 also n, has all of them.  Else  *)
(* the smallest initial segment that is not within it loses its last       *)
(* element and still is not.                                               *)
LEMMA Inductively ==
  ASSUME NEW k \in Nat, NEW S, 0 \in S, \A n \in 1 .. k : n - 1 \in S => n \in S
  PROVE  0 .. k \subseteq S
<1> DEFINE Segments == {T \in SUBSET (0 .. k) : \E n \in 0 .. k : T = 0 .. n /\ ~(T \subseteq S)}
<1>1. SUFFICES ASSUME ~(0 .. k \subseteq S)
               PROVE  FALSE
  OBVIOUS
<1>2. Segments # {}
  <2>1. 0 .. k \in Segments
    BY <1>1
  <2>2. QED
    BY <2>1
<1>3. IsWellFoundedOn(StrictSubsetOrdering(0 .. k), SUBSET (0 .. k))
  <2>1. IsFiniteSet(0 .. k)
    BY FS_Interval
  <2>2. IsWellFoundedOn(StrictSubsetOrdering(0 .. k), FiniteSubsetsOf(0 .. k))
    BY FS_StrictSubsetOrderingWellFounded
  <2>3. FiniteSubsetsOf(0 .. k) = SUBSET (0 .. k)
    BY <2>1, FS_FiniteSubsetsOfFinite
  <2>4. QED
    BY <2>2, <2>3
<1>4. PICK T \in Segments : \A U \in Segments : ~ (<<U, T>> \in StrictSubsetOrdering(0 .. k))
  <2>1. Segments \subseteq SUBSET (0 .. k)
    OBVIOUS
  <2> HIDE DEF Segments
  <2>2. QED
    BY <1>2, <1>3, <2>1, WFMin
<1>5. PICK n \in 0 .. k : T = 0 .. n /\ ~(T \subseteq S)
  BY <1>4
<1>6. n # 0
  BY <1>5
<1>7. 0 .. n - 1 \in SUBSET (0 .. k) /\ n - 1 \in 0 .. k
  BY <1>6
<1>8. <<0 .. n - 1, T>> \in StrictSubsetOrdering(0 .. k)
  BY <1>4, <1>5, <1>6, <1>7 DEF StrictSubsetOrdering
<1>9. 0 .. n - 1 \subseteq S
  BY <1>4, <1>7, <1>8
<1>10. n - 1 \in S
  BY <1>6, <1>7, <1>9
<1>11. n \in S
  BY <1>6, <1>10
<1>12. 0 .. n \subseteq S
  BY <1>9, <1>11
<1>13. QED
  BY <1>5, <1>12

(* Lemma: what is bounded has a largest element.                           *)
LEMMA BoundedHasMaximum ==
  ASSUME NEW k \in Nat, NEW S \in SUBSET (0 .. k), S # {}
  PROVE  \E m \in S : \A n \in S : n <= m
<1> DEFINE Done == {n \in 0 .. k : S \intersect 0 .. n = {}
                                   \/ \E m \in S \intersect 0 .. n : \A i \in S \intersect 0 .. n : i <= m}
<1>1. 0 \in Done
  OBVIOUS
<1>2. ASSUME NEW n \in 1 .. k, n - 1 \in Done
      PROVE  n \in Done
  <2>1. 0 .. n = (0 .. n - 1) \union {n}
    OBVIOUS
  <2>2. CASE n \in S
    <3>1. n \in S \intersect 0 .. n /\ \A i \in S \intersect 0 .. n : i <= n
      BY <2>2
    <3>2. QED
      BY <3>1
  <2>3. CASE n \notin S
    <3>1. S \intersect 0 .. n = S \intersect 0 .. n - 1
      BY <2>1, <2>3
    <3>2. QED
      BY <1>2, <3>1
  <2>4. QED
    BY <2>2, <2>3
<1> HIDE DEF Done
<1>3. 0 .. k \subseteq Done
  BY <1>1, <1>2, Inductively
<1>4. k \in Done
  BY <1>3
<1>5. S \intersect 0 .. k = S
  OBVIOUS
<1>6. QED
  BY <1>4, <1>5 DEF Done

-----------------------------------------------------------------------------
(* Reading the checkpoints.                                                *)

(* What the loader makes of one more checkpoint.                           *)
Reads(s, c, stored) ==
  IF /\ s.valid
     /\ c.set \in stored
     /\ Authenticates(s, c.set, c.time)
     /\ Larger(c.time, s.time) = c.time
  THEN Trusting(s, c.set, c.time)
  ELSE [s EXCEPT !.valid = FALSE]

(* Lemma: Load is what any sequence of trusts ends with that begins with   *)
(* none and goes on as the loader does.  That there is such a sequence is  *)
(* what the invariant below says; that there is only one is shown here.    *)
LEMMA LoadIs ==
  ASSUME NEW c, Len(c) \in Nat, NEW stored, NEW f,
         f[0] = Untrusting,
         \A n \in 1 .. Len(c) : f[n] = Reads(f[n - 1], c[n], stored)
  PROVE  Load(c, stored) = f[Len(c)]
<1> DEFINE k == Len(c)
           Step(h) == [n \in 0 .. k |-> IF n = 0 THEN Untrusting ELSE Reads(h[n - 1], c[n], stored)]
           load == CHOOSE h : h = Step(h)
           rest == [n \in 0 .. k |-> f[n]]
<1>1. Load(c, stored) = load[k]
  BY DEF Load, Reads
<1>2. load = Step(load)
  <2>1. rest = Step(rest)
    <3>1. \A n \in 0 .. k : rest[n] = Step(rest)[n]
      <4>1. ASSUME NEW n \in 0 .. k, n # 0
            PROVE  rest[n] = Reads(rest[n - 1], c[n], stored)
        <5>1. n \in 1 .. k /\ n - 1 \in 0 .. k
          BY <4>1
        <5>2. rest[n - 1] = f[n - 1] /\ rest[n] = f[n]
          BY <5>1
        <5>3. QED
          BY <5>1, <5>2
      <4>2. QED
        BY <4>1
    <3>2. QED
      BY <3>1
  <2> HIDE DEF Step
  <2>2. QED
    BY <2>1
<1> HIDE DEF load, rest, k
<1>3. load[0] = Untrusting /\ \A n \in 1 .. k : load[n] = Reads(load[n - 1], c[n], stored)
  BY <1>2 DEF k
<1> HIDE DEF Step
<1>4. k \in Nat
  BY DEF k
<1> DEFINE Same == {n \in 0 .. k : load[n] = f[n]}
<1>5. 0 \in Same
  BY <1>3, <1>4
<1>6. \A n \in 1 .. k : n - 1 \in Same => n \in Same
  BY <1>3, <1>4 DEF k
<1> HIDE DEF Same
<1>7. 0 .. k \subseteq Same
  BY <1>4, <1>5, <1>6, Inductively
<1>8. k \in Same
  BY <1>4, <1>7
<1>9. QED
  BY <1>1, <1>8 DEF Same, k

-----------------------------------------------------------------------------
(* What is published.                                                      *)

Keys == {"root", "online"} \X Nat

RootNames == {"root"} \X Nat

Publications ==
  [root : Nat, online : Nat, keys : SUBSET RootNames, signers : SUBSET RootNames,
   revoked : SUBSET Keys, channel : [Channels -> Nat]]

(* A publication against a later one.                                      *)
Grows(p, q) ==
  /\ p.root <= q.root
  /\ p.root = q.root => p.online = q.online /\ p.keys = q.keys /\ p.signers = q.signers
  /\ p.online <= q.online
  /\ p.revoked \subseteq q.revoked
  /\ \A c \in Channels : p.channel[c] <= q.channel[c]

(* The n-th publication: only online keys no longer in use are revoked.     *)
WellMade(p, n) ==
  /\ p.root \in 1 .. n /\ p.online \in 1 .. p.root
  /\ \A v \in Nat : <<"online", v>> \in p.revoked => v < p.online
  /\ \A c \in Channels : p.channel[c] <= n

Roots == {publications[n].root : n \in 1 .. Now}

(* No root was left out.                                                    *)
PublisherInv ==
  /\ publications \in Seq(Publications) /\ Now \in 1 .. MaxPublications
  /\ Latest.root >= 1 /\ publications[1].root = Embedded
  /\ 1 .. Latest.root \subseteq Roots
  /\ \A n \in 1 .. Now : WellMade(publications[n], n)
  /\ \A m, n \in 1 .. Now : m <= n => Grows(publications[m], publications[n])

(* A publication that may come next.                                       *)
Follows(p) == Grows(Latest, p) /\ WellMade(p, Now + 1) /\ p.root <= Latest.root + 1

(* Lemma: what the parameters are.                                         *)
LEMMA Parameters ==
  /\ MaxPublications \in Nat /\ MaxPublications >= 1
  /\ Lifetime \in Nat /\ MaxRoots \in Nat /\ MaxAdvance \in Nat /\ MaxRecords \in Nat
  /\ MaxLag \in Nat /\ Times \subseteq Nat
  /\ Embedded = 1
BY BoundsAssumption DEF Embedded

(* Lemma: publishing adds one publication and leaves all others.           *)
LEMMA Published ==
  ASSUME PublisherInv, NEW p \in Publications, Publish(p)
  PROVE  /\ publications' \in Seq(Publications) /\ Now' = Now + 1 /\ Now' \in 1 .. MaxPublications
         /\ \A n \in 1 .. Now : publications'[n] = publications[n]
         /\ publications'[Now'] = p
         /\ UNCHANGED client
BY Parameters DEF Publish, PublisherInv, Now

(* Lemma: a publication that grows on the latest keeps the order.          *)
LEMMA PublisherKept ==
  ASSUME PublisherInv, NEW p \in Publications, Publish(p),
         Follows(p)
  PROVE  PublisherInv'
<1> DEFINE N == Now
           P == publications
<1>1. N \in Nat /\ N >= 1 /\ Now' = N + 1 /\ P' \in Seq(Publications) /\ Now' \in 1 .. MaxPublications
      /\ (\A n \in 1 .. N : P'[n] = P[n]) /\ P'[N + 1] = p
  BY Published DEF PublisherInv
<1>0. Grows(Latest, p) /\ WellMade(p, N + 1) /\ p.root <= Latest.root + 1
  BY DEF Follows
<1>2. \A n \in 1 .. N : Grows(P[n], p)
  <2> SUFFICES ASSUME NEW n \in 1 .. N
               PROVE  Grows(P[n], p)
    OBVIOUS
  <2>1. Grows(P[n], P[N]) /\ Grows(P[N], p)
    BY <1>0, <1>1 DEF PublisherInv, Latest
  <2>2. P[n] \in Publications /\ P[N] \in Publications
    BY <1>1 DEF PublisherInv, Now
  <2> HIDE DEF P
  <2>3. QED
    BY <2>1, <2>2 DEF Grows, Publications
<1>3. Grows(p, p)
  BY DEF Grows, Publications
<1>4. (\A n \in 1 .. N : WellMade(P[n], n)) /\ (\A m, n \in 1 .. N : m <= n => Grows(P[m], P[n]))
      /\ P[1].root = Embedded
  BY DEF PublisherInv
<1>5. \A n \in 1 .. N + 1 : WellMade(P'[n], n)
  BY <1>0, <1>1, <1>4
<1>6. \A m, n \in 1 .. N + 1 : m <= n => Grows(P'[m], P'[n])
  BY <1>1, <1>2, <1>3, <1>4
<1>7. P'[N + 1].root >= 1 /\ P'[1].root = Embedded
  BY <1>0, <1>1, <1>4 DEF WellMade, Publications
<1>8. 1 .. p.root \subseteq Roots'
  <2>1. Roots' = Roots \union {p.root}
    <3>1. 1 .. Now' = (1 .. N) \union {N + 1}
      BY <1>1
    <3> HIDE DEF N, P
    <3>2. Roots' = {P'[n].root : n \in (1 .. N) \union {N + 1}}
      BY <3>1 DEF Roots, P
    <3>3. Roots = {P'[n].root : n \in 1 .. N}
      BY <1>1 DEF Roots, P, N
    <3>4. QED
      BY <1>1, <3>2, <3>3
  <2>2. Latest.root \in Nat /\ p.root \in Nat
    <3>1. Latest \in Publications
      BY DEF PublisherInv, Latest, Now
    <3>2. QED
      BY <3>1 DEF Publications
  <2>3. 1 .. p.root \subseteq (1 .. Latest.root) \union {p.root}
    BY <1>0, <2>2
  <2>4. QED
    BY <2>1, <2>3 DEF PublisherInv
<1>9. QED
  BY <1>1, <1>5, <1>6, <1>7, <1>8 DEF PublisherInv, Latest

(* Lemma: a release, a rotation and a revocation do.                       *)
LEMMA PublisherStep ==
  ASSUME PublisherInv, Publisher
  PROVE  PublisherInv' /\ \E p \in Publications : Publish(p)
<1>1. /\ Now \in Nat /\ Now >= 1 /\ Latest \in Publications /\ WellMade(Latest, Now)
  BY DEF PublisherInv, Latest, Now
<1>2. ASSUME NEW c \in Channels, Release(c)
      PROVE  \E p \in Publications : Publish(p) /\ Follows(p)
  <2> DEFINE p == [Latest EXCEPT !.channel[c] = Now + 1]
  <2>1. /\ p \in Publications
        /\ p.root = Latest.root /\ p.online = Latest.online /\ p.revoked = Latest.revoked
        /\ p.keys = Latest.keys /\ p.signers = Latest.signers
        /\ p.channel = [Latest.channel EXCEPT ![c] = Now + 1]
    BY <1>1 DEF Publications
  <2>2. Publish(p)
    BY <1>2 DEF Release
  <2> HIDE DEF p
  <2>3. \A d \in Channels : Latest.channel[d] \in Nat /\ Latest.channel[d] <= Now
    BY <1>1 DEF Publications, WellMade
  <2>4. \A d \in Channels : p.channel[d] \in {Latest.channel[d], Now + 1}
    BY <1>1, <2>1 DEF Publications
  <2>5. Grows(Latest, p)
    BY <1>1, <2>1, <2>3, <2>4 DEF Grows, Publications
  <2>6. WellMade(p, Now + 1)
    BY <1>1, <2>1, <2>3, <2>4 DEF WellMade, Publications
  <2>7. p.root <= Latest.root + 1
    BY <1>1, <2>1 DEF Publications
  <2>8. QED
    BY <2>1, <2>2, <2>5, <2>6, <2>7 DEF Follows
<1>3. ASSUME Rotate
      PROVE  \E p \in Publications : Publish(p) /\ Follows(p)
  <2>1. PICK o \in {Latest.online, Latest.root + 1},
             keys \in SUBSET (Latest.keys \union {<<"root", Latest.root + 1>>}),
             signers \in SUBSET (Latest.keys \union {<<"root", Latest.root + 1>>}) :
               Publish([Latest EXCEPT !.root = @ + 1, !.online = o, !.keys = keys, !.signers = signers])
    BY <1>3 DEF Rotate
  <2> DEFINE p == [Latest EXCEPT !.root = @ + 1, !.online = o, !.keys = keys, !.signers = signers]
  <2>0. /\ Latest.root \in Nat /\ o \in Nat
        /\ keys \in SUBSET RootNames /\ signers \in SUBSET RootNames
    BY <1>1, <2>1 DEF Publications, RootNames
  <2>2. /\ p \in Publications
        /\ p.root = Latest.root + 1 /\ p.online = o /\ p.revoked = Latest.revoked
        /\ p.channel = Latest.channel
    <3>1. Latest.root + 1 \in Nat
      BY <2>0
    <3>2. DOMAIN Latest = {"root", "online", "keys", "signers", "revoked", "channel"}
      BY <1>1 DEF Publications
    <3>3. p = [root |-> Latest.root + 1, online |-> o, keys |-> keys, signers |-> signers,
               revoked |-> Latest.revoked, channel |-> Latest.channel]
      <4>1. /\ p.root = Latest.root + 1 /\ p.online = o /\ p.keys = keys /\ p.signers = signers
            /\ p.revoked = Latest.revoked /\ p.channel = Latest.channel
        BY <3>2
      <4>2. DOMAIN p = DOMAIN Latest /\ p = [f \in DOMAIN p |-> p[f]]
        OBVIOUS
      <4> HIDE DEF p
      <4>3. QED
        BY <3>2, <4>1, <4>2
    <3>4. Latest.revoked \in SUBSET Keys /\ Latest.channel \in [Channels -> Nat]
      BY <1>1 DEF Publications
    <3> HIDE DEF p
    <3>5. QED
      BY <2>0, <3>1, <3>3, <3>4 DEF Publications
  <2> HIDE DEF p
  <2>3. /\ Latest.root \in 1 .. Now /\ Latest.online \in 1 .. Latest.root
        /\ \A d \in Channels : Latest.channel[d] \in Nat /\ Latest.channel[d] <= Now
    BY <1>1 DEF Publications, WellMade
  <2>4. Grows(Latest, p)
    BY <2>2, <2>3 DEF Grows
  <2>5. Latest.root \in Nat /\ Latest.online \in Nat /\ Latest.online <= o
    BY <2>3
  <2>6. WellMade(p, Now + 1)
    BY <1>1, <2>2, <2>3, <2>5 DEF WellMade
  <2>7. p.root <= Latest.root + 1
    BY <2>2, <2>5
  <2>8. QED
    BY <2>1, <2>2, <2>4, <2>6, <2>7 DEF p, Follows
<1>4. ASSUME NEW key \in Retired, Revoke(key)
      PROVE  \E p \in Publications : Publish(p) /\ Follows(p)
  <2> DEFINE p == [Latest EXCEPT !.revoked = @ \union {key}]
  <2>1. /\ Latest.root \in Nat /\ Latest.online \in Nat /\ Latest.root \in 1 .. Now
        /\ Latest.online \in 1 .. Latest.root /\ Latest.revoked \subseteq Keys
        /\ \A d \in Channels : Latest.channel[d] \in Nat /\ Latest.channel[d] <= Now
    BY <1>1 DEF Publications, WellMade
  <2>2. key \in Keys /\ \A v \in Nat : key = <<"online", v>> => v < Latest.online
    <3>1. CASE key \in UNION {publications[n].keys : n \in 1 .. Now}
      <4>1. PICK n \in 1 .. Now : key \in publications[n].keys
        BY <3>1
      <4>2. publications[n] \in Publications
        BY DEF PublisherInv, Now
      <4>3. key \in RootNames
        BY <4>1, <4>2 DEF Publications
      <4>4. QED
        BY <4>3 DEF RootNames, Keys
    <3>2. CASE key \in {<<"online", v>> : v \in 1 .. Latest.online - 1}
      BY <2>1, <3>2 DEF Keys
    <3>3. QED
      BY <3>1, <3>2 DEF Retired
  <2>3. /\ p \in Publications
        /\ p.root = Latest.root /\ p.online = Latest.online /\ p.revoked = Latest.revoked \union {key}
        /\ p.keys = Latest.keys /\ p.signers = Latest.signers
        /\ p.channel = Latest.channel
    BY <1>1, <2>1, <2>2 DEF Publications
  <2>4. Publish(p)
    BY <1>4 DEF Revoke
  <2> HIDE DEF p
  <2>5. Grows(Latest, p)
    BY <2>1, <2>3 DEF Grows
  <2>6. WellMade(p, Now + 1)
    BY <1>1, <2>1, <2>2, <2>3 DEF WellMade
  <2>7. p.root <= Latest.root + 1
    BY <2>1, <2>3
  <2>8. QED
    BY <2>3, <2>4, <2>5, <2>6, <2>7 DEF Follows
<1>5. QED
  BY <1>2, <1>3, <1>4, PublisherKept DEF Publisher
-----------------------------------------------------------------------------
(* What the launcher believes.  Each set below grows with every            *)
(* publication: what it says of a trust, a metadata set or a receipt       *)
(* remains true.                                                           *)

Trusts ==
  [valid : {TRUE}, root : Nat, timestamp : Nat, snapshot : Nat, targets : Nat,
   channel : [Channels -> Nat], time : Times \union {0}, revoked : SUBSET Keys]

(* Metadata sets of files that were published.                             *)
KnownSets ==
  {set \in Sets : /\ set.roots \in Roots
                  /\ {set.timestamp, set.snapshot, set.targets, set.file} \subseteq 1 .. Now}

(* Trusts that are, as a whole, one publication's.                         *)
Whole ==
  {s \in Trusts :
     /\ s.root \in Roots /\ s.snapshot = s.timestamp /\ s.targets = s.timestamp
     /\ s.timestamp = 0 => s.revoked = {} /\ \A c \in Channels : s.channel[c] = 0
     /\ s.timestamp # 0 =>
          /\ s.timestamp \in 1 .. Now
          /\ s.revoked = publications[s.timestamp].revoked
          /\ \A c \in Channels : s.channel[c] <= publications[s.timestamp].channel[c]
          /\ OnlineKey(s.root) = publications[s.timestamp].online}

(* A trust, a checkpoint it accepts, and the trust that follows.           *)
Steps ==
  {x \in Trusts \X Checkpoints \X Trusts :
     /\ x[1].root \in Roots /\ x[2].set \in KnownSets
     /\ Authenticates(x[1], x[2].set, x[2].time)
     /\ Larger(x[2].time, x[1].time) = x[2].time
     /\ x[3] = Trusting(x[1], x[2].set, x[2].time)}

GoodReceipts ==
  {r \in Checkpoints : r.set \in KnownSets /\ Bound(r.set) /\ Signer(r.set.targets) = OnlineKey(r.set.roots)}

FoundIn(P, k, v) == P[CHOOSE n \in 1 .. k : P[n].root = v]

(* The keys of two publications are the same.                              *)
SameKeys(p, q) == p.online = q.online /\ p.keys = q.keys /\ p.signers = q.signers

(* Lemma: whichever publication with a root is looked at, its keys are the *)
(* same.                                                                   *)
LEMMA AnyWithRoot ==
  ASSUME NEW P, NEW k \in Nat,
         \A i, j \in 1 .. k : i <= j => Grows(P[i], P[j])
  PROVE  \A n \in 1 .. k : SameKeys(FoundIn(P, k, P[n].root), P[n])
<1> SUFFICES ASSUME NEW n \in 1 .. k
             PROVE  SameKeys(FoundIn(P, k, P[n].root), P[n])
  OBVIOUS
<1> DEFINE m == CHOOSE i \in 1 .. k : P[i].root = P[n].root
<1>1. m \in 1 .. k /\ P[m].root = P[n].root
  OBVIOUS
<1> HIDE DEF m
<1>2. n \in Nat /\ m \in Nat
  BY <1>1
<1>3. (m <= n => Grows(P[m], P[n])) /\ (n <= m => Grows(P[n], P[m]))
  BY <1>1
<1>4. SameKeys(P[m], P[n])
  BY <1>1, <1>2, <1>3 DEF Grows, SameKeys
<1>5. QED
  BY <1>4 DEF m, FoundIn

(* Lemma: the keys of a root are those of every publication with it.       *)
LEMMA KeysOf ==
  ASSUME PublisherInv
  PROVE  \A n \in 1 .. Now : SameKeys(WithRoot(publications[n].root), publications[n])
<1>1. \A v : WithRoot(v) = FoundIn(publications, Now, v)
  BY DEF WithRoot, FoundIn
<1>2. Now \in Nat /\ \A i, j \in 1 .. Now : i <= j => Grows(publications[i], publications[j])
  BY DEF PublisherInv
<1>3. \A n \in 1 .. Now : SameKeys(FoundIn(publications, Now, publications[n].root), publications[n])
  BY <1>2, AnyWithRoot
<1>4. QED
  BY <1>1, <1>3

(* Lemma: the roots up to a root are all there.                            *)
LEMMA RootsBefore ==
  ASSUME PublisherInv
  PROVE  \A v \in Roots : v \in Nat /\ v >= 1 /\ 1 .. v \subseteq Roots
<1> SUFFICES ASSUME NEW n \in 1 .. Now
             PROVE  LET v == publications[n].root
                    IN v \in Nat /\ v >= 1 /\ 1 .. v \subseteq Roots
  BY DEF Roots
<1>1. Now \in Nat /\ Now >= 1 /\ Now \in 1 .. Now /\ n <= Now
  BY DEF PublisherInv
<1>2. /\ publications[n] \in Publications /\ Latest \in Publications
      /\ WellMade(publications[n], n) /\ Grows(publications[n], Latest)
  BY <1>1 DEF PublisherInv, Latest, Now
<1>3. publications[n].root \in Nat /\ Latest.root \in Nat /\ publications[n].root <= Latest.root
  BY <1>2 DEF Publications, Grows
<1>4. publications[n].root >= 1
  BY <1>2 DEF WellMade
<1>5. QED
  BY <1>3, <1>4 DEF PublisherInv

(* Lemma: what is known remains known, and so do the keys.                 *)
LEMMA KnownKept ==
  ASSUME PublisherInv, PublisherInv', NEW p \in Publications, Publish(p)
  PROVE  /\ Roots \subseteq Roots' /\ KnownSets \subseteq KnownSets'
         /\ 1 .. Now \subseteq (1 .. Now)'
         /\ \A n \in 1 .. Now : publications'[n] = publications[n]
         /\ \A v \in Roots : SameKeys(WithRoot(v)', WithRoot(v))
<1>1. /\ Now \in Nat /\ Now' = Now + 1 /\ \A n \in 1 .. Now : publications'[n] = publications[n]
  BY Published DEF PublisherInv
<1>2. 1 .. Now \subseteq 1 .. Now'
  BY <1>1
<1>3. Roots \subseteq Roots'
  BY <1>1, <1>2 DEF Roots
<1>4. KnownSets \subseteq KnownSets'
  BY <1>2, <1>3 DEF KnownSets
<1>5. ASSUME NEW v \in Roots
      PROVE  SameKeys(WithRoot(v)', WithRoot(v))
  <2>1. PICK n \in 1 .. Now : v = publications[n].root
    BY DEF Roots
  <2>2. SameKeys(WithRoot(publications[n].root), publications[n])
    BY KeysOf
  <2>3. WithRoot(v)' = FoundIn(publications', Now', v)
    BY DEF WithRoot, FoundIn
  <2>4. Now' \in Nat /\ \A i, j \in 1 .. Now' : i <= j => Grows(publications'[i], publications'[j])
    BY DEF PublisherInv
  <2>5. \A i \in 1 .. Now' :
          SameKeys(FoundIn(publications', Now', publications'[i].root), publications'[i])
    BY <2>4, AnyWithRoot
  <2>6. SameKeys(WithRoot(v)', publications[n]) /\ SameKeys(WithRoot(v), publications[n])
    BY <1>1, <1>2, <2>1, <2>2, <2>3, <2>5
  <2>7. QED
    BY <2>6 DEF SameKeys
<1>6. QED
  BY <1>1, <1>2, <1>3, <1>4, <1>5

(* Lemma: what a step's trust and its set say of publications.             *)
LEMMA StepParts ==
  ASSUME NEW s \in Trusts, s.root \in Roots, NEW set \in KnownSets, PublisherInv
  PROVE  /\ Larger(s.root, set.roots) \in Roots
         /\ s.root + 1 .. set.roots \subseteq Roots
         /\ {set.timestamp, set.snapshot, set.targets, set.file} \subseteq 1 .. Now
         /\ set \in Sets /\ Now \in Nat
<1>1. set.roots \in Roots /\ set.roots \in Nat /\ s.root \in Nat /\ 1 .. set.roots \subseteq Roots
  BY RootsBefore DEF KnownSets
<1>2. s.root + 1 .. set.roots \subseteq 1 .. set.roots
  BY <1>1
<1>3. QED
  BY <1>1, <1>2 DEF Larger, KnownSets, PublisherInv

(* Lemma: with one more publication, every step is still one.              *)
LEMMA StepsKept ==
  ASSUME PublisherInv, PublisherInv', NEW p \in Publications, Publish(p)
  PROVE  Steps \subseteq Steps'
<1> SUFFICES ASSUME NEW x \in Steps
             PROVE  x \in Steps'
  OBVIOUS
<1> DEFINE s == x[1]
           set == x[2].set
           now == x[2].time
<1>1. /\ x \in Trusts \X Checkpoints \X Trusts
      /\ s \in Trusts /\ s.root \in Roots /\ set \in KnownSets
      /\ Authenticates(s, set, now) /\ Larger(now, s.time) = now
      /\ x[3] = Trusting(s, set, now)
  BY DEF Steps
<1> HIDE DEF s, set, now
<1>2. /\ Roots \subseteq Roots' /\ KnownSets \subseteq KnownSets'
      /\ \A n \in 1 .. Now : publications'[n] = publications[n]
      /\ \A v \in Roots : SameKeys(WithRoot(v)', WithRoot(v))
  BY KnownKept
<1>3. /\ Larger(s.root, set.roots) \in Roots /\ s.root + 1 .. set.roots \subseteq Roots
      /\ set.timestamp \in 1 .. Now /\ set.snapshot \in 1 .. Now /\ set.targets \in 1 .. Now
  BY <1>1, StepParts
<1>4. /\ publications'[set.timestamp] = publications[set.timestamp]
      /\ publications'[set.snapshot] = publications[set.snapshot]
      /\ publications'[set.targets] = publications[set.targets]
      /\ OnlineKey(Larger(s.root, set.roots))' = OnlineKey(Larger(s.root, set.roots))
      /\ \A v \in s.root + 1 .. set.roots : RootSigners(v)' = RootSigners(v)
      /\ RootSigners(s.root)' = RootSigners(s.root) /\ RootKeys(s.root)' = RootKeys(s.root)
  BY <1>1, <1>2, <1>3 DEF OnlineKey, RootSigners, RootKeys, SameKeys
<1>5. Authenticates(s, set, now)'
  <2>1. RootsFollow(s, set)' /\ Constructs(s)'
    BY <1>1, <1>4 DEF Authenticates, RootsFollow, Constructs
  <2>2. Authorized(s, set)'
    BY <1>1, <1>4 DEF Authenticates, Authorized, Signer
  <2>3. Fresh(s, set, now)' /\ AboveFloors(s, set)'
    BY <1>1 DEF Authenticates, Fresh, AboveFloors, Expired
  <2>4. Bound(set)' /\ (s.revoked \subseteq publications[set.targets].revoked)'
    BY <1>1, <1>4 DEF Authenticates, Bound
  <2>5. QED
    BY <2>1, <2>2, <2>3, <2>4 DEF Authenticates
<1>6. x[3] = Trusting(s, set, now)'
  BY <1>1, <1>4 DEF Trusting
<1>7. QED
  BY <1>1, <1>2, <1>5, <1>6 DEF Steps, s, set, now

(* Lemma: and so is what was one publication's, and a good receipt.        *)
LEMMA WholeKept ==
  ASSUME PublisherInv, PublisherInv', NEW p \in Publications, Publish(p)
  PROVE  Whole \subseteq Whole' /\ GoodReceipts \subseteq GoodReceipts'
<1>1. /\ Roots \subseteq Roots' /\ KnownSets \subseteq KnownSets' /\ 1 .. Now \subseteq (1 .. Now)'
      /\ \A n \in 1 .. Now : publications'[n] = publications[n]
      /\ \A v \in Roots : OnlineKey(v)' = OnlineKey(v)
  BY KnownKept DEF OnlineKey, SameKeys
<1>2. ASSUME NEW s \in Whole
      PROVE  s \in Whole'
  <2>1. s.timestamp # 0 => publications'[s.timestamp] = publications[s.timestamp]
    BY <1>1 DEF Whole
  <2>2. OnlineKey(s.root)' = OnlineKey(s.root)
    BY <1>1 DEF Whole
  <2>3. QED
    BY <1>1, <2>1, <2>2 DEF Whole
<1>3. ASSUME NEW r \in GoodReceipts
      PROVE  r \in GoodReceipts'
  <2>1. /\ r \in Checkpoints /\ r.set \in KnownSets /\ Bound(r.set)
        /\ Signer(r.set.targets) = OnlineKey(r.set.roots)
    BY DEF GoodReceipts
  <2>2. r.set.snapshot \in 1 .. Now /\ r.set.targets \in 1 .. Now /\ r.set.roots \in Roots
    BY <2>1 DEF KnownSets
  <2>3. /\ publications'[r.set.snapshot] = publications[r.set.snapshot]
        /\ publications'[r.set.targets] = publications[r.set.targets]
        /\ OnlineKey(r.set.roots)' = OnlineKey(r.set.roots)
    BY <1>1, <2>2
  <2>4. Bound(r.set)' /\ (Signer(r.set.targets) = OnlineKey(r.set.roots))'
    BY <2>1, <2>3 DEF Bound, Signer
  <2>5. QED
    BY <1>1, <2>1, <2>4 DEF GoodReceipts
<1>4. QED
  BY <1>2, <1>3

(* Lemma: the trust that follows a set, field by field.                    *)
LEMMA TrustingFields ==
  ASSUME PublisherInv, NEW s \in Trusts, NEW set \in KnownSets, NEW now \in Times
  PROVE  /\ Trusting(s, set, now) \in Trusts
         /\ Trusting(s, set, now).root = Larger(s.root, set.roots)
         /\ Trusting(s, set, now).timestamp = set.timestamp
         /\ Trusting(s, set, now).snapshot = set.snapshot
         /\ Trusting(s, set, now).targets = set.targets
         /\ Trusting(s, set, now).channel = [s.channel EXCEPT ![set.name] = set.file]
         /\ Trusting(s, set, now).time = Larger(now, s.time)
         /\ Trusting(s, set, now).revoked = s.revoked \union publications[set.targets].revoked
<1> DEFINE root == Larger(s.root, set.roots)
           channel == [s.channel EXCEPT ![set.name] = set.file]
           time == Larger(now, s.time)
           kept == s.revoked \union publications[set.targets].revoked
           t == Trusting(s, set, now)
<1>1. /\ s.root \in Nat /\ s.timestamp \in Nat /\ s.snapshot \in Nat
      /\ s.targets \in Nat /\ s.channel \in [Channels -> Nat] /\ s.time \in Times \union {0}
      /\ s.revoked \subseteq Keys
  BY DEF Trusts
<1>2. /\ set.roots \in Nat /\ set.timestamp \in Nat /\ set.snapshot \in Nat /\ set.targets \in Nat
      /\ set.file \in Nat /\ set.name \in Channels /\ set.targets \in 1 .. Now
  BY Parameters DEF KnownSets, Sets
<1>3. kept \in SUBSET Keys
  <2>1. publications[set.targets] \in Publications
    BY <1>2 DEF PublisherInv, Now
  <2>2. publications[set.targets].revoked \subseteq Keys
    BY <2>1 DEF Publications
  <2>3. QED
    BY <1>1, <2>2
<1>4. root \in Nat /\ time \in Times \union {0}
  BY <1>1, <1>2 DEF Larger
<1>5. channel \in [Channels -> Nat]
  BY <1>1, <1>2
<1>6. t = [s EXCEPT !.root = root, !.timestamp = set.timestamp, !.snapshot = set.snapshot,
                    !.targets = set.targets, !.channel = channel, !.time = time, !.revoked = kept]
  BY DEF Trusting
<1> HIDE DEF t, kept, root, channel, time
<1>7. /\ DOMAIN s = {"valid", "root", "timestamp", "snapshot", "targets", "channel", "time", "revoked"}
      /\ s.valid = TRUE
  BY DEF Trusts
<1>8. /\ t.root = root /\ t.timestamp = set.timestamp /\ t.snapshot = set.snapshot
      /\ t.targets = set.targets /\ t.channel = channel /\ t.time = time /\ t.revoked = kept
  BY <1>6, <1>7
<1>9. t.valid = TRUE
  BY <1>6, <1>7
<1>10. DOMAIN t = DOMAIN s /\ t = [f \in DOMAIN t |-> t[f]]
  BY <1>6, <1>7
<1>11. t = [valid |-> TRUE, root |-> root, timestamp |-> set.timestamp, snapshot |-> set.snapshot,
            targets |-> set.targets, channel |-> channel, time |-> time, revoked |-> kept]
  BY <1>7, <1>8, <1>9, <1>10
<1>12. t \in Trusts
  BY <1>2, <1>3, <1>4, <1>5, <1>11 DEF Trusts
<1>13. QED
  BY <1>8, <1>12 DEF t, kept, root, channel, time

(* Lemma: the parts of trusts, sets and checkpoints.                       *)
LEMMA Parts ==
  /\ \A s \in Trusts : /\ s.root \in Nat /\ s.timestamp \in Nat /\ s.snapshot \in Nat
                       /\ s.targets \in Nat /\ s.channel \in [Channels -> Nat] /\ s.time \in Nat
                       /\ s.time \in Times \union {0}
                       /\ \A c \in Channels : s.channel[c] \in Nat
  /\ \A set \in Sets : /\ set.roots \in Nat /\ set.timestamp \in Nat /\ set.snapshot \in Nat
                       /\ set.targets \in Nat /\ set.file \in Nat /\ set.name \in Channels
                       /\ set.roots >= 1 /\ set.targets >= 1
  /\ \A r \in Checkpoints : r.set \in Sets /\ r.time \in Times /\ r.time \in Nat
<1>1. \A time \in Times \union {0} : time \in Nat
  BY Parameters
<1>2. \A i \in 1 .. MaxPublications : i \in Nat /\ i >= 1
  BY Parameters
<1>3. ASSUME NEW s \in Trusts
      PROVE  /\ s.root \in Nat /\ s.timestamp \in Nat /\ s.snapshot \in Nat
             /\ s.targets \in Nat /\ s.channel \in [Channels -> Nat] /\ s.time \in Nat
             /\ s.time \in Times \union {0}
             /\ \A c \in Channels : s.channel[c] \in Nat
  <2>1. /\ s.root \in Nat /\ s.timestamp \in Nat /\ s.snapshot \in Nat
        /\ s.targets \in Nat /\ s.channel \in [Channels -> Nat] /\ s.time \in Times \union {0}
    BY DEF Trusts
  <2>2. QED
    BY <1>1, <2>1
<1>4. ASSUME NEW set \in Sets
      PROVE  /\ set.roots \in Nat /\ set.timestamp \in Nat /\ set.snapshot \in Nat
             /\ set.targets \in Nat /\ set.file \in Nat /\ set.name \in Channels
             /\ set.roots >= 1 /\ set.targets >= 1
  BY Parameters DEF Sets
<1>5. ASSUME NEW r \in Checkpoints
      PROVE  r.set \in Sets /\ r.time \in Times /\ r.time \in Nat
  <2>1. r.set \in Sets /\ r.time \in Times
    BY DEF Checkpoints
  <2>2. QED
    BY <1>1, <2>1
<1>6. QED
  BY <1>3, <1>4, <1>5

(* A trust against a later one.                                            *)
Advances(s, t) ==
  /\ s.root <= t.root /\ s.timestamp <= t.timestamp /\ s.snapshot <= t.snapshot
  /\ s.targets <= t.targets
  /\ \A c \in Channels : s.channel[c] <= t.channel[c]
  /\ s.time <= t.time
  /\ s.revoked \subseteq t.revoked

(* What a trust covers of a checkpoint or a receipt, as Covered has it.    *)
Covers(s, r) ==
  /\ r.set.roots <= s.root /\ r.set.timestamp <= s.timestamp
  /\ r.set.snapshot <= s.snapshot /\ r.set.targets <= s.targets
  /\ r.set.file <= s.channel[r.set.name] /\ r.time <= s.time

(* Lemma: what advances twice advances, and covers what was covered.       *)
LEMMA AdvancesOn ==
  ASSUME NEW s \in Trusts, NEW t \in Trusts, Advances(s, t)
  PROVE  \A r \in Checkpoints : Covers(s, r) => Covers(t, r)
<1> SUFFICES ASSUME NEW r \in Checkpoints, Covers(s, r)
             PROVE  Covers(t, r)
  OBVIOUS
<1>1. /\ r.set.roots \in Nat /\ r.set.timestamp \in Nat /\ r.set.snapshot \in Nat
      /\ r.set.targets \in Nat /\ r.set.file \in Nat /\ r.set.name \in Channels /\ r.time \in Nat
  BY Parts
<1>2. /\ s.root \in Nat /\ s.timestamp \in Nat /\ s.snapshot \in Nat /\ s.targets \in Nat
      /\ s.time \in Nat /\ s.channel[r.set.name] \in Nat
      /\ t.root \in Nat /\ t.timestamp \in Nat /\ t.snapshot \in Nat /\ t.targets \in Nat
      /\ t.time \in Nat /\ t.channel[r.set.name] \in Nat
  BY <1>1, Parts
<1>3. QED
  BY <1>1, <1>2 DEF Covers, Advances

(* Lemma: a step takes what was one publication's as a whole to what is a  *)
(* later one's.                                                            *)
LEMMA StepWhole ==
  ASSUME PublisherInv, NEW x \in Steps, x[1] \in Whole
  PROVE  /\ x[3] \in Whole /\ x[3].timestamp >= 1
         /\ Advances(x[1], x[3]) /\ Covers(x[3], x[2])
<1> DEFINE s == x[1]
           set == x[2].set
           now == x[2].time
           t == x[3]
           P == publications
<1>1. /\ s \in Whole /\ s \in Trusts /\ s.root \in Roots /\ set \in KnownSets
      /\ x[2] \in Checkpoints /\ now \in Times
      /\ Authenticates(s, set, now) /\ Larger(now, s.time) = now
      /\ t = Trusting(s, set, now)
  BY DEF Steps, Checkpoints
<1> HIDE DEF s, set, now, t
<1>2. /\ t \in Trusts /\ t.root = Larger(s.root, set.roots)
      /\ t.timestamp = set.timestamp /\ t.snapshot = set.snapshot /\ t.targets = set.targets
      /\ t.channel = [s.channel EXCEPT ![set.name] = set.file]
      /\ t.time = Larger(now, s.time)
      /\ t.revoked = s.revoked \union P[set.targets].revoked
  BY <1>1, TrustingFields
<1>3. /\ set.timestamp \in 1 .. Now /\ set.targets \in 1 .. Now /\ set.roots \in Roots
      /\ set.file \in 1 .. Now /\ set.name \in Channels /\ set.roots \in Nat
      /\ set.snapshot \in Nat /\ Now \in Nat
  BY <1>1, Parameters DEF KnownSets, Sets, PublisherInv
<1>4. /\ s.root \in Nat /\ s.timestamp \in Nat /\ s.snapshot \in Nat /\ s.targets \in Nat
      /\ s.time \in Nat /\ s.channel \in [Channels -> Nat] /\ now \in Nat
  BY <1>1, Parts DEF now
<1>5. /\ set.snapshot = set.timestamp /\ set.targets = set.timestamp
      /\ set.file = P[set.timestamp].channel[set.name]
      /\ s.revoked \subseteq P[set.timestamp].revoked
      /\ s.timestamp <= set.timestamp /\ s.snapshot <= set.snapshot /\ s.targets <= set.targets
      /\ s.channel[set.name] <= set.file
      /\ P[set.timestamp].online = OnlineKey(Larger(s.root, set.roots))
  BY <1>1 DEF Authenticates, Bound, AboveFloors, Above, Authorized, Signer
<1>6. t.root \in Roots /\ s.root <= t.root /\ set.roots <= t.root
  BY <1>1, <1>2, <1>3, <1>4 DEF Larger
<1>7. now <= t.time /\ s.time <= t.time
  BY <1>1, <1>2, <1>4 DEF Larger
<1>8. /\ t.channel[set.name] = set.file
      /\ \A c \in Channels : c # set.name => t.channel[c] = s.channel[c]
  BY <1>2, <1>3, <1>4
<1>9. \A c \in Channels : s.channel[c] <= t.channel[c] /\ t.channel[c] \in Nat
  BY <1>3, <1>4, <1>5, <1>8
<1>10. \A c \in Channels : t.channel[c] <= P[set.timestamp].channel[c]
  <2> SUFFICES ASSUME NEW c \in Channels
               PROVE  t.channel[c] <= P[set.timestamp].channel[c]
    OBVIOUS
  <2>1. P[set.timestamp].channel[c] \in Nat
    <3>1. P[set.timestamp] \in Publications
      BY <1>3 DEF PublisherInv, Now
    <3>2. QED
      BY <3>1 DEF Publications
  <2>2. CASE c = set.name
    BY <1>5, <1>8, <2>1, <2>2
  <2>3. CASE c # set.name /\ s.timestamp = 0
    <3>1. s.channel[c] = 0
      BY <1>1, <2>3 DEF Whole
    <3>2. QED
      BY <1>8, <2>1, <2>3, <3>1
  <2>4. CASE c # set.name /\ s.timestamp # 0
    <3>1. s.timestamp \in 1 .. Now /\ s.channel[c] <= P[s.timestamp].channel[c]
      BY <1>1, <2>4 DEF Whole
    <3>2. P[s.timestamp].channel[c] <= P[set.timestamp].channel[c]
      BY <1>3, <1>5, <3>1 DEF PublisherInv, Grows
    <3>3. P[s.timestamp].channel[c] \in Nat
      <4>1. P[s.timestamp] \in Publications
        BY <3>1 DEF PublisherInv, Now
      <4>2. QED
        BY <4>1 DEF Publications
    <3>4. QED
      BY <1>4, <1>8, <2>1, <2>4, <3>1, <3>2, <3>3
  <2>5. QED
    BY <2>2, <2>3, <2>4
<1>11. t.revoked = P[t.timestamp].revoked /\ s.revoked \subseteq t.revoked
  BY <1>2, <1>5
<1>12. OnlineKey(t.root) = P[t.timestamp].online
  BY <1>2, <1>5
<1>13. t.timestamp \in 1 .. Now /\ t.timestamp # 0 /\ t.timestamp >= 1
  BY <1>2, <1>3
<1>14. t \in Whole
  BY <1>2, <1>5, <1>6, <1>10, <1>11, <1>12, <1>13 DEF Whole
<1>15. Advances(s, t)
  BY <1>2, <1>5, <1>6, <1>7, <1>9, <1>11 DEF Advances
<1>16. Covers(t, x[2])
  <2>1. /\ set.roots <= t.root /\ set.timestamp <= t.timestamp /\ set.snapshot <= t.snapshot
        /\ set.targets <= t.targets /\ set.file <= t.channel[set.name] /\ now <= t.time
    BY <1>2, <1>3, <1>6, <1>7, <1>8
  <2>2. QED
    BY <2>1 DEF Covers, set, now
<1>17. QED
  BY <1>13, <1>14, <1>15, <1>16 DEF s, t

(* Lemma: without a publication, all of these stay as they are.            *)
LEMMA KnownSame ==
  ASSUME UNCHANGED publications
  PROVE  /\ Now' = Now /\ Roots' = Roots /\ KnownSets' = KnownSets
         /\ Whole' = Whole /\ Steps' = Steps /\ GoodReceipts' = GoodReceipts
         /\ PublisherInv' = PublisherInv
<1>1. Now' = Now /\ Roots' = Roots
  BY DEF Now, Roots
<1>2. KnownSets' = KnownSets
  BY <1>1 DEF KnownSets
<1>3. Whole' = Whole
  BY <1>1 DEF Whole, OnlineKey, WithRoot
<1>4. Steps' = Steps
  BY <1>1, <1>2 DEF Steps, Authenticates, Constructs, RootsFollow, Authorized, Signer, Fresh, Bound,
                    AboveFloors, OnlineKey, RootSigners, RootKeys, WithRoot, Trusting
<1>5. GoodReceipts' = GoodReceipts
  BY <1>1, <1>2 DEF GoodReceipts, Bound, Signer, OnlineKey, WithRoot
<1>6. PublisherInv' = PublisherInv
  BY <1>1 DEF PublisherInv, Latest
<1>7. QED
  BY <1>1, <1>2, <1>3, <1>4, <1>5, <1>6

-----------------------------------------------------------------------------
(* The invariant.                                                          *)

(* The trust is one publication's as a whole, and no one's before the      *)
(* first checkpoint.                                                       *)
TrustInv ==
  /\ trusted \in Whole
  /\ chain # << >> => trusted.timestamp >= 1

(* There is a trust for every checkpoint, that a step leads to from the    *)
(* one before.                                                             *)
ReplayInv ==
  \E f : /\ f[0] = Untrusting /\ f[Len(chain)] = trusted
         /\ \A n \in 1 .. Len(chain) :
              chain[n].set \in bundles /\ <<f[n - 1], chain[n], f[n]>> \in Steps

(* What the running update goes on with.                                   *)
PendingInv ==
  /\ pc = "fetch" => pending.set.name \in Channels
  /\ pc = "authenticate" => pending.set \in KnownSets
  /\ pc = "checkpoint" =>
       /\ \E t : <<trusted, pending, t>> \in Steps
       /\ pending.set \in bundles /\ Len(chain) < MaxRecords
  /\ pc = "select" => pending.set \in KnownSets /\ Covers(trusted, pending)

ReceiptInv ==
  /\ receipts \subseteq GoodReceipts
  /\ \A r \in receipts : Covers(trusted, r)
  /\ \A r, q \in receipts : r.set.file = q.set.file => r = q

MetadataInv == PublisherInv /\ TypeOK /\ TrustInv /\ ReplayInv /\ PendingInv /\ ReceiptInv

(* Lemma: reading checkpoints that follow each other gives the last trust. *)
LEMMA StepsLoad ==
  ASSUME NEW c \in Seq(Checkpoints), NEW stored, NEW f,
         f[0] = Untrusting,
         \A n \in 1 .. Len(c) : c[n].set \in stored /\ <<f[n - 1], c[n], f[n]>> \in Steps
  PROVE  Load(c, stored) = f[Len(c)]
<1>1. ASSUME NEW n \in 1 .. Len(c)
      PROVE  f[n] = Reads(f[n - 1], c[n], stored)
  <2>1. /\ f[n - 1] \in Trusts /\ c[n].set \in stored
        /\ Authenticates(f[n - 1], c[n].set, c[n].time)
        /\ Larger(c[n].time, f[n - 1].time) = c[n].time
        /\ f[n] = Trusting(f[n - 1], c[n].set, c[n].time)
    BY DEF Steps
  <2>2. f[n - 1].valid
    BY <2>1 DEF Trusts
  <2>3. QED
    BY <2>1, <2>2 DEF Reads
<1>2. Len(c) \in Nat
  OBVIOUS
<1>3. QED
  BY <1>1, <1>2, LoadIs

(* Lemma: the checkpoints are accepted again.                              *)
LEMMA InvReplays ==
  ASSUME MetadataInv
  PROVE  ChainReplays
<1>1. PICK f : /\ f[0] = Untrusting /\ f[Len(chain)] = trusted
               /\ \A n \in 1 .. Len(chain) :
                    chain[n].set \in bundles /\ <<f[n - 1], chain[n], f[n]>> \in Steps
  BY DEF MetadataInv, ReplayInv
<1>2. chain \in Seq(Checkpoints)
  BY DEF MetadataInv, TypeOK
<1>3. Load(chain, bundles) = trusted
  BY <1>1, <1>2, StepsLoad
<1>4. trusted.valid
  BY DEF MetadataInv, TrustInv, Whole, Trusts
<1>5. QED
  BY <1>3, <1>4 DEF ChainReplays

(* Lemma: the invariant holds at first.                                    *)
LEMMA MetadataInit ==
  ASSUME Init
  PROVE  MetadataInv
<1>1. PICK first \in Channels : publications = <<FirstPublication(first)>>
  BY DEF Init
<1> DEFINE p == FirstPublication(first)
<1>2. /\ p \in Publications /\ p.root = 1 /\ p.online = 1 /\ p.revoked = {}
      /\ \A c \in Channels : p.channel[c] \in 0 .. 1
  BY Parameters DEF FirstPublication, Publications, Keys, RootNames
<1> HIDE DEF p
<1>3. /\ publications \in Seq(Publications) /\ Now = 1 /\ publications[1] = p
  BY <1>1, <1>2 DEF Now, p
<1>4. Latest = p /\ \A n \in 1 .. Now : n = 1
  BY <1>3 DEF Latest
<1>5. WellMade(p, 1) /\ Grows(p, p)
  BY <1>2 DEF WellMade, Grows, Publications
<1>6. PublisherInv
  <2>1. 1 .. Latest.root \subseteq Roots
    BY <1>2, <1>3, <1>4 DEF Roots
  <2>2. QED
    BY <1>2, <1>3, <1>4, <1>5, <2>1, Parameters DEF PublisherInv
<1>7. TypeOK
  BY <1>3, Parameters DEF Init, TypeOK, Nothing
<1>8. /\ Untrusting \in Trusts /\ Untrusting.root = 1 /\ Untrusting.timestamp = 0
      /\ Untrusting.snapshot = 0 /\ Untrusting.targets = 0 /\ Untrusting.revoked = {}
      /\ \A c \in Channels : Untrusting.channel[c] = 0
  BY Parameters DEF Untrusting, Trusts
<1>9. TrustInv
  <2>1. Untrusting.root \in Roots
    BY <1>2, <1>3, <1>8 DEF Roots
  <2>2. Untrusting \in Whole
    BY <1>8, <2>1 DEF Whole
  <2>3. QED
    BY <2>2 DEF Init, TrustInv
<1>10. ReplayInv
  <2> DEFINE f == [n \in {0} |-> Untrusting]
  <2>1. f[0] = Untrusting /\ Len(chain) = 0 /\ trusted = Untrusting
    BY DEF Init
  <2>2. 1 .. Len(chain) = {}
    BY <2>1
  <2> HIDE DEF f
  <2>3. QED
    BY <2>1, <2>2 DEF ReplayInv
<1>11. PendingInv /\ ReceiptInv
  BY DEF Init, PendingInv, ReceiptInv
<1>12. QED
  BY <1>6, <1>7, <1>9, <1>10, <1>11 DEF MetadataInv

(* Lemma: a publication keeps the invariant.                               *)
LEMMA MetadataPublish ==
  ASSUME MetadataInv, Publisher
  PROVE  MetadataInv'
<1>1. PublisherInv /\ PublisherInv'
  BY PublisherStep DEF MetadataInv
<1>2. PICK p \in Publications : Publish(p)
  BY <1>1, PublisherStep
<1>3. /\ Now' \in 1 .. MaxPublications
      /\ chain' = chain /\ trusted' = trusted /\ bundles' = bundles /\ receipts' = receipts
      /\ pc' = pc /\ pending' = pending
  BY <1>1, <1>2, Published DEF client
<1>4. /\ KnownSets \subseteq KnownSets' /\ Steps \subseteq Steps'
      /\ Whole \subseteq Whole' /\ GoodReceipts \subseteq GoodReceipts'
  BY <1>1, <1>2, KnownKept, StepsKept, WholeKept
<1>5. TypeOK'
  BY <1>3 DEF MetadataInv, TypeOK
<1>6. TrustInv'
  BY <1>3, <1>4 DEF MetadataInv, TrustInv
<1>7. ReplayInv'
  <2>1. PICK f : /\ f[0] = Untrusting /\ f[Len(chain)] = trusted
                 /\ \A n \in 1 .. Len(chain) :
                      chain[n].set \in bundles /\ <<f[n - 1], chain[n], f[n]>> \in Steps
    BY DEF MetadataInv, ReplayInv
  <2>2. /\ f[0] = Untrusting /\ f[Len(chain')] = trusted'
        /\ \A n \in 1 .. Len(chain') :
             chain'[n].set \in bundles' /\ <<f[n - 1], chain'[n], f[n]>> \in Steps'
    BY <1>3, <1>4, <2>1
  <2>3. Untrusting' = Untrusting
    BY DEF Untrusting
  <2>4. QED
    BY <2>2, <2>3 DEF ReplayInv
<1>8. PendingInv'
  BY <1>3, <1>4 DEF MetadataInv, PendingInv, Covers
<1>9. ReceiptInv'
  BY <1>3, <1>4 DEF MetadataInv, ReceiptInv, Covers
<1>10. QED
  BY <1>1, <1>5, <1>6, <1>7, <1>8, <1>9 DEF MetadataInv

(* Lemma: and so does loading the checkpoints, which changes no trust.     *)
LEMMA MetadataStart ==
  ASSUME MetadataInv, NEW c \in Channels, Start(c)
  PROVE  MetadataInv' /\ trusted' = trusted
<1>1. /\ trusted' = trusted /\ chain' = chain /\ receipts' = receipts /\ UNCHANGED publications
      /\ bundles' = {chain[n].set : n \in DOMAIN chain}
      /\ pc' = "fetch" /\ pending' = [Nothing EXCEPT !.set.name = c]
  BY InvReplays DEF Start, ChainReplays
<1>2. /\ Now' = Now /\ Steps' = Steps /\ Whole' = Whole /\ GoodReceipts' = GoodReceipts
      /\ PublisherInv'
  BY <1>1, KnownSame DEF MetadataInv
<1>3. chain \in Seq(Checkpoints) /\ DOMAIN chain = 1 .. Len(chain)
  BY DEF MetadataInv, TypeOK
<1>4. bundles' \subseteq Sets
  BY <1>1, <1>3, Parts
<1>5. pending'.set.roots = 0 /\ pending'.set.name = c
  BY <1>1 DEF Nothing
<1>6. TypeOK'
  BY <1>1, <1>2, <1>4, <1>5 DEF MetadataInv, TypeOK
<1>7. TrustInv' /\ PendingInv' /\ ReceiptInv'
  BY <1>1, <1>2, <1>5 DEF MetadataInv, TrustInv, PendingInv, ReceiptInv, Covers
<1>8. ReplayInv'
  <2>1. PICK f : /\ f[0] = Untrusting /\ f[Len(chain)] = trusted
                 /\ \A n \in 1 .. Len(chain) :
                      chain[n].set \in bundles /\ <<f[n - 1], chain[n], f[n]>> \in Steps
    BY DEF MetadataInv, ReplayInv
  <2>2. /\ f[0] = Untrusting /\ f[Len(chain')] = trusted'
        /\ \A n \in 1 .. Len(chain') :
             chain'[n].set \in bundles' /\ <<f[n - 1], chain'[n], f[n]>> \in Steps'
    BY <1>1, <1>2, <1>3, <2>1
  <2>3. Untrusting' = Untrusting
    BY DEF Untrusting
  <2>4. QED
    BY <2>2, <2>3 DEF ReplayInv
<1>9. QED
  BY <1>1, <1>2, <1>6, <1>7, <1>8 DEF MetadataInv

(* Lemma: fetching does: what is fetched was published.                    *)
LEMMA MetadataFetch ==
  ASSUME MetadataInv, Fetch
  PROVE  MetadataInv' /\ trusted' = trusted
<1>1. /\ pc = "fetch" /\ pc' = "authenticate"
      /\ UNCHANGED <<publications, chain, trusted, bundles, receipts>>
  BY DEF Fetch
<1> DEFINE name == pending.set.name
<1>2. PICK set \in [roots : {publications[n].root : n \in Served},
                    timestamp : Served, snapshot : Served, targets : Served,
                    file : {publications[n].channel[name] : n \in Served} \ {0},
                    name : {name}] :
             pending' = [set |-> set, time |-> 0]
  BY DEF Fetch
<1>3. /\ PublisherInv /\ Now \in Nat /\ Now <= MaxPublications /\ Served \subseteq 1 .. Now
  BY Parameters DEF MetadataInv, PublisherInv, Served, Larger
<1>4. name \in Channels
  BY <1>1 DEF MetadataInv, PendingInv
<1> HIDE DEF name
<1>5. \A n \in 1 .. Now : /\ publications[n].root \in 1 .. Now
                         /\ publications[n].channel[name] \in Nat
                         /\ publications[n].channel[name] <= Now
  <2> SUFFICES ASSUME NEW n \in 1 .. Now
               PROVE  /\ publications[n].root \in 1 .. Now
                      /\ publications[n].channel[name] \in Nat
                      /\ publications[n].channel[name] <= Now
    OBVIOUS
  <2>1. WellMade(publications[n], n) /\ publications[n] \in Publications
    BY <1>3 DEF PublisherInv, Now
  <2>2. publications[n].channel[name] \in Nat /\ publications[n].channel[name] <= n
    BY <1>4, <2>1 DEF WellMade, Publications
  <2>3. publications[n].root \in 1 .. n
    BY <2>1 DEF WellMade
  <2>4. QED
    BY <1>3, <2>2, <2>3
<1>6. /\ set.roots \in Roots /\ set.roots \in 1 .. Now
      /\ set.timestamp \in 1 .. Now /\ set.snapshot \in 1 .. Now /\ set.targets \in 1 .. Now
      /\ set.file \in 1 .. Now /\ set.name = name
  <2>1. PICK n \in Served : set.roots = publications[n].root
    BY <1>2
  <2>2. PICK m \in Served : set.file = publications[m].channel[name] /\ set.file # 0
    BY <1>2
  <2>3. set.roots \in Roots /\ set.roots \in 1 .. Now
    BY <1>3, <1>5, <2>1 DEF Roots
  <2>4. set.file \in 1 .. Now
    BY <1>3, <1>5, <2>2
  <2>5. QED
    BY <1>2, <1>3, <2>3, <2>4
<1>7. set \in Sets
  <2>1. set = [roots |-> set.roots, timestamp |-> set.timestamp, snapshot |-> set.snapshot,
               targets |-> set.targets, file |-> set.file, name |-> set.name]
    BY <1>2
  <2>2. 1 .. Now \subseteq 1 .. MaxPublications
    BY <1>3, Parameters
  <2>3. QED
    BY <1>4, <1>6, <2>1, <2>2 DEF Sets
<1>8. set \in KnownSets
  BY <1>6, <1>7 DEF KnownSets
<1>9. /\ Now' = Now /\ KnownSets' = KnownSets /\ Steps' = Steps /\ Whole' = Whole
      /\ GoodReceipts' = GoodReceipts /\ PublisherInv'
  BY <1>1, <1>3, KnownSame
<1>10. pending' \in [set : Sets, time : Times \union {0}] /\ pending'.set = set
  BY <1>2, <1>7
<1>11. TypeOK'
  BY <1>1, <1>9, <1>10 DEF MetadataInv, TypeOK
<1>12. TrustInv' /\ ReceiptInv'
  BY <1>1, <1>9 DEF MetadataInv, TrustInv, ReceiptInv, Covers
<1>13. PendingInv'
  BY <1>1, <1>8, <1>9, <1>10 DEF PendingInv
<1>14. ReplayInv'
  BY <1>1, <1>9 DEF MetadataInv, ReplayInv, Untrusting
<1>15. QED
  BY <1>1, <1>9, <1>11, <1>12, <1>13, <1>14 DEF MetadataInv

(* Lemma: ending the update, which forgets the pending set, does too.      *)
LEMMA MetadataStop ==
  ASSUME MetadataInv, Stop
  PROVE  MetadataInv' /\ trusted' = trusted
<1>1. /\ pc' = "idle" /\ pending' = Nothing
      /\ UNCHANGED <<publications, chain, trusted, bundles, receipts>>
  BY DEF Stop
<1>2. /\ Now' = Now /\ KnownSets' = KnownSets /\ Steps' = Steps /\ Whole' = Whole
      /\ GoodReceipts' = GoodReceipts /\ PublisherInv'
  BY <1>1, KnownSame DEF MetadataInv
<1>3. TypeOK'
  BY <1>1, <1>2 DEF MetadataInv, TypeOK, Nothing
<1>4. TrustInv' /\ ReceiptInv' /\ PendingInv'
  BY <1>1, <1>2 DEF MetadataInv, TrustInv, ReceiptInv, PendingInv, Covers
<1>5. ReplayInv'
  BY <1>1, <1>2 DEF MetadataInv, ReplayInv, Untrusting
<1>6. QED
  BY <1>1, <1>2, <1>3, <1>4, <1>5 DEF MetadataInv

(* Lemma: a set is stored, once it is authenticated, at the larger time.   *)
LEMMA MetadataAuthenticate ==
  ASSUME MetadataInv, Authenticate
  PROVE  MetadataInv' /\ trusted' = trusted
<1>1. /\ pc = "authenticate" /\ pc' = "checkpoint" /\ Room(pending.set) /\ Store(pending.set)
      /\ UNCHANGED <<publications, chain, trusted, receipts>>
  BY DEF Authenticate
<1>2. PICK now \in Times : /\ Authenticates(trusted, pending.set, now)
                          /\ pending' = [pending EXCEPT !.time = Larger(now, trusted.time)]
  BY DEF Authenticate
<1> DEFINE set == pending.set
           time == Larger(now, trusted.time)
<1>3. /\ pending \in [set : Sets, time : Times \union {0}] /\ set \in KnownSets /\ set \in Sets
  BY <1>1 DEF MetadataInv, TypeOK, PendingInv
<1>4. trusted \in Trusts /\ trusted.root \in Roots
  BY DEF MetadataInv, TrustInv, Whole
<1>5. /\ trusted.time \in Nat /\ trusted.time \in Times \union {0} /\ now \in Nat
  BY <1>4, Parts, Parameters
<1>6. /\ time \in Times /\ time \in Nat /\ Larger(time, trusted.time) = time
  BY <1>5 DEF Larger
<1>7. pending' = [set |-> set, time |-> time]
  BY <1>2, <1>3
<1>8. Authenticates(trusted, set, time)
  BY <1>2, <1>6 DEF Authenticates, Fresh
<1> HIDE DEF set, time
<1>9. pending' \in Checkpoints /\ pending'.set = set /\ pending'.time = time
  BY <1>3, <1>6, <1>7 DEF Checkpoints
<1>10. \E t : <<trusted, pending', t>> \in Steps
  <2> DEFINE t == Trusting(trusted, set, time)
  <2>1. t \in Trusts
    BY <1>3, <1>4, <1>6, TrustingFields DEF MetadataInv
  <2> HIDE DEF t
  <2>2. <<trusted, pending', t>> \in Steps
    BY <1>3, <1>4, <1>6, <1>8, <1>9, <2>1 DEF Steps, t
  <2>3. QED
    BY <2>2
<1>11. bundles' = bundles \union {set} /\ Len(chain) < MaxRecords
  BY <1>1 DEF Room, Store, set
<1>12. /\ Now' = Now /\ KnownSets' = KnownSets /\ Steps' = Steps /\ Whole' = Whole
      /\ GoodReceipts' = GoodReceipts /\ PublisherInv'
  BY <1>1, KnownSame DEF MetadataInv
<1>13. TypeOK'
  <2>1. pending' \in [set : Sets, time : Times \union {0}]
    BY <1>3, <1>6, <1>7
  <2>2. QED
    BY <1>1, <1>3, <1>9, <1>11, <1>12, <2>1 DEF MetadataInv, TypeOK
<1>14. TrustInv' /\ ReceiptInv'
  BY <1>1, <1>12 DEF MetadataInv, TrustInv, ReceiptInv, Covers
<1>15. PendingInv'
  BY <1>1, <1>9, <1>10, <1>11, <1>12 DEF PendingInv
<1>16. ReplayInv'
  BY <1>1, <1>11, <1>12 DEF MetadataInv, ReplayInv, Untrusting
<1>17. QED
  BY <1>1, <1>12, <1>13, <1>14, <1>15, <1>16 DEF MetadataInv

(* Lemma: a checkpoint more: the trust that follows from it is loaded, it  *)
(* covers the checkpoint, and it advances on what was trusted.             *)
LEMMA MetadataAppend ==
  ASSUME MetadataInv, AppendCheckpoint
  PROVE  MetadataInv' /\ Advances(trusted, trusted')
<1>1. /\ pc = "checkpoint" /\ pc' = "select" /\ chain' = Append(chain, pending)
      /\ trusted' = Load(chain', bundles)
      /\ UNCHANGED <<publications, bundles, receipts, pending>>
  BY DEF AppendCheckpoint
<1>2. /\ Now' = Now /\ KnownSets' = KnownSets /\ Steps' = Steps /\ Whole' = Whole
      /\ GoodReceipts' = GoodReceipts /\ PublisherInv'
  BY <1>1, KnownSame DEF MetadataInv
<1>3. /\ chain \in Seq(Checkpoints) /\ Len(chain) < MaxRecords /\ pending.set \in bundles
      /\ pending \in Checkpoints /\ trusted \in Whole /\ PublisherInv
  BY <1>1 DEF MetadataInv, TypeOK, PendingInv, TrustInv
<1>4. PICK t : <<trusted, pending, t>> \in Steps
  BY <1>1 DEF MetadataInv, PendingInv
<1>5. /\ chain' \in Seq(Checkpoints) /\ Len(chain) \in Nat /\ Len(chain') = Len(chain) + 1
      /\ chain'[Len(chain')] = pending /\ \A n \in 1 .. Len(chain) : chain'[n] = chain[n]
      /\ Len(chain') <= MaxRecords /\ chain' # << >>
  BY <1>1, <1>3, Parameters
<1>6. PICK f : /\ f[0] = Untrusting /\ f[Len(chain)] = trusted
               /\ \A n \in 1 .. Len(chain) :
                    chain[n].set \in bundles /\ <<f[n - 1], chain[n], f[n]>> \in Steps
  BY DEF MetadataInv, ReplayInv
<1> DEFINE g == [n \in 0 .. Len(chain') |-> IF n = Len(chain') THEN t ELSE f[n]]
<1>7. /\ g[0] = Untrusting /\ g[Len(chain')] = t
      /\ \A n \in 0 .. Len(chain) : g[n] = f[n]
  BY <1>5, <1>6
<1> HIDE DEF g
<1>8. ASSUME NEW n \in 1 .. Len(chain')
      PROVE  chain'[n].set \in bundles /\ <<g[n - 1], chain'[n], g[n]>> \in Steps
  <2>1. CASE n = Len(chain')
    <3>1. g[n - 1] = trusted /\ g[n] = t /\ chain'[n] = pending
      BY <1>5, <1>6, <1>7, <2>1
    <3>2. QED
      BY <1>3, <1>4, <3>1
  <2>2. CASE n # Len(chain')
    <3>1. n \in 1 .. Len(chain) /\ n - 1 \in 0 .. Len(chain) /\ n \in 0 .. Len(chain)
      BY <1>5, <2>2
    <3>2. g[n - 1] = f[n - 1] /\ g[n] = f[n] /\ chain'[n] = chain[n]
      BY <1>5, <1>7, <3>1
    <3>3. QED
      BY <1>6, <3>1, <3>2
  <2>3. QED
    BY <2>1, <2>2
<1>9. Load(chain', bundles) = g[Len(chain')]
  BY <1>5, <1>7, <1>8, StepsLoad
<1>10. trusted' = t
  BY <1>1, <1>7, <1>9
<1>11. /\ t \in Whole /\ t.timestamp >= 1 /\ Advances(trusted, t) /\ Covers(t, pending)
  <2> DEFINE x == <<trusted, pending, t>>
  <2>1. x \in Steps /\ x[1] = trusted /\ x[2] = pending /\ x[3] = t
    BY <1>4
  <2> HIDE DEF x
  <2>2. QED
    BY <1>3, <2>1, StepWhole
<1>12. TypeOK'
  BY <1>1, <1>2, <1>3, <1>5 DEF MetadataInv, TypeOK
<1>13. TrustInv'
  BY <1>2, <1>10, <1>11 DEF TrustInv
<1>14. ReplayInv'
  <2>1. /\ g[0] = Untrusting /\ g[Len(chain')] = trusted'
        /\ \A n \in 1 .. Len(chain') :
             chain'[n].set \in bundles' /\ <<g[n - 1], chain'[n], g[n]>> \in Steps'
    BY <1>1, <1>2, <1>7, <1>8, <1>10
  <2>2. Untrusting' = Untrusting
    BY DEF Untrusting
  <2>3. QED
    BY <2>1, <2>2 DEF ReplayInv
<1>15. PendingInv'
  <2>1. pending.set \in KnownSets
    BY <1>4 DEF Steps
  <2>2. QED
    BY <1>1, <1>2, <1>10, <1>11, <2>1 DEF PendingInv, Covers
<1>16. ReceiptInv'
  <2>1. trusted \in Trusts /\ t \in Trusts
    BY <1>3, <1>11 DEF Whole
  <2>2. \A r \in receipts : r \in Checkpoints /\ Covers(trusted, r)
    BY DEF MetadataInv, ReceiptInv, TypeOK
  <2>3. \A r \in receipts : Covers(t, r)
    BY <1>11, <2>1, <2>2, AdvancesOn
  <2>4. \A r \in receipts : Covers(trusted', r)
    BY <1>10, <2>3
  <2>5. QED
    BY <1>1, <1>2, <2>4 DEF MetadataInv, ReceiptInv, Covers
<1>17. QED
  BY <1>2, <1>10, <1>11, <1>12, <1>13, <1>14, <1>15, <1>16 DEF MetadataInv

(* Lemma: selecting a release: its receipt is new, and it is covered.      *)
LEMMA MetadataSelect ==
  ASSUME MetadataInv, Select
  PROVE  MetadataInv' /\ trusted' = trusted
<1>1. /\ pc = "select" /\ pc' = "idle" /\ pending' = Nothing
      /\ IF Known = {} THEN Persist ELSE UNCHANGED receipts
      /\ UNCHANGED <<publications, chain, trusted, bundles>>
  BY DEF Select
<1>2. /\ Now' = Now /\ KnownSets' = KnownSets /\ Steps' = Steps /\ Whole' = Whole
      /\ GoodReceipts' = GoodReceipts /\ PublisherInv'
  BY <1>1, KnownSame DEF MetadataInv
<1>3. /\ pending \in Checkpoints /\ pending.set \in KnownSets /\ Covers(trusted, pending)
  BY <1>1 DEF MetadataInv, TypeOK, PendingInv
<1>4. CASE Known # {}
  <2>1. UNCHANGED receipts
    BY <1>1, <1>4
  <2>2. QED
    BY <1>1, <1>2, <2>1 DEF MetadataInv, TypeOK, Nothing, TrustInv, ReplayInv, PendingInv, ReceiptInv,
                            Covers, Untrusting
<1>5. CASE Known = {}
  <2>1. ReceiptVerifies(pending.set, trusted.revoked) /\ receipts' = receipts \union {pending}
    BY <1>1, <1>5 DEF Persist
  <2>2. pending \in GoodReceipts
    BY <1>3, <2>1 DEF ReceiptVerifies, GoodReceipts
  <2>3. \A r \in receipts : r.set.file # pending.set.file
    BY <1>5 DEF Known
  <2>4. \A r \in receipts' : Covers(trusted, r)
    BY <1>3, <2>1 DEF MetadataInv, ReceiptInv
  <2>5. \A r, q \in receipts' : r.set.file = q.set.file => r = q
    BY <2>1, <2>3 DEF MetadataInv, ReceiptInv
  <2>6. ReceiptInv'
    <3>1. receipts' \subseteq GoodReceipts
      BY <2>1, <2>2 DEF MetadataInv, ReceiptInv
    <3>2. QED
      BY <1>1, <1>2, <2>4, <2>5, <3>1 DEF ReceiptInv, Covers
  <2>7. TypeOK'
    BY <1>1, <1>2, <1>3, <2>1 DEF MetadataInv, TypeOK, Nothing
  <2>8. TrustInv' /\ ReplayInv' /\ PendingInv'
    BY <1>1, <1>2 DEF MetadataInv, TrustInv, ReplayInv, PendingInv, Untrusting
  <2>9. QED
    BY <1>1, <1>2, <2>6, <2>7, <2>8 DEF MetadataInv
<1>6. QED
  BY <1>4, <1>5

-----------------------------------------------------------------------------
(* What the invariant gives.                                               *)

(* Lemma: what is trusted is one publication's as a whole.                 *)
LEMMA InvOnePublication ==
  ASSUME MetadataInv
  PROVE  OnePublication
<1>1. SUFFICES ASSUME chain # << >>
               PROVE  /\ trusted.snapshot = trusted.timestamp /\ trusted.targets = trusted.timestamp
                      /\ trusted.revoked = publications[trusted.timestamp].revoked
                      /\ \A c \in Channels :
                           trusted.channel[c] <= publications[trusted.timestamp].channel[c]
                      /\ OnlineKey(trusted.root) = publications[trusted.timestamp].online
  BY DEF OnePublication
<1>2. trusted \in Whole /\ trusted.timestamp >= 1
  BY <1>1 DEF MetadataInv, TrustInv
<1>3. QED
  BY <1>2 DEF Whole

(* Lemma: revoked is only what the latest publication revokes too, which   *)
(* is no key in use.                                                       *)
LEMMA OnlyOnlineRevoked ==
  ASSUME PublisherInv
  PROVE  /\ \A n \in 1 .. Now : publications[n].revoked \subseteq Latest.revoked
         /\ RootKeysKept => \A revoked \in SUBSET Latest.revoked :
                              \A v \in Roots : RootSigners(v) \intersect revoked = {}
         /\ <<"online", Latest.online>> \notin Latest.revoked
<1>1. Now \in Nat /\ Now >= 1 /\ WellMade(Latest, Now) /\ Latest \in Publications
  BY DEF PublisherInv, Latest, Now
<1>2. ASSUME NEW n \in 1 .. Now
      PROVE  publications[n].revoked \subseteq Latest.revoked
  <2>1. n <= Now /\ Now \in 1 .. Now
    BY <1>1
  <2>2. Grows(publications[n], Latest)
    BY <2>1 DEF PublisherInv, Latest
  <2>3. QED
    BY <2>2 DEF Grows
<1>3. ASSUME RootKeysKept, NEW revoked \in SUBSET Latest.revoked, NEW v \in Roots
      PROVE  RootSigners(v) \intersect revoked = {}
  <2>1. \A key \in revoked : key[1] = "online"
    BY <1>3 DEF RootKeysKept
  <2>2. PICK n \in 1 .. Now : v = publications[n].root
    BY DEF Roots
  <2>3. RootSigners(v) = publications[n].signers /\ publications[n] \in Publications
    BY <2>2, KeysOf DEF RootSigners, SameKeys, PublisherInv, Now
  <2>4. \A key \in RootSigners(v) : key[1] = "root"
    BY <2>3 DEF Publications, RootNames
  <2>5. QED
    BY <2>1, <2>4
<1>4. <<"online", Latest.online>> \notin Latest.revoked
  BY <1>1 DEF WellMade, Publications
<1>5. QED
  BY <1>2, <1>3, <1>4

(* Lemma: all receipts can be read together.                               *)
LEMMA InvReceipts ==
  ASSUME MetadataInv
  PROVE  ReceiptsReadable
<1>1. SUFFICES ASSUME RootKeysKept, receipts # {}
               PROVE  /\ \A r \in receipts : ReceiptVerifies(r.set, {})
                      /\ Consistent
                      /\ \A r \in receipts : RootsGood(r.set.roots, NewestRevoked)
                      /\ \A r \in receipts : Covered(r)
                      /\ NewestRevoked \subseteq trusted.revoked
  BY DEF ReceiptsReadable, Reconstructs
<1>2. /\ PublisherInv /\ Now \in Nat
      /\ receipts \subseteq GoodReceipts /\ receipts \subseteq Checkpoints
      /\ \A r \in receipts : Covers(trusted, r)
      /\ \A r, q \in receipts : r.set.file = q.set.file => r = q
  BY DEF MetadataInv, ReceiptInv, TypeOK, PublisherInv
<1>3. \A r \in receipts : /\ r.set \in KnownSets /\ Bound(r.set)
                          /\ Signer(r.set.targets) = OnlineKey(r.set.roots)
                          /\ r.set.targets \in 1 .. Now
  BY <1>2 DEF GoodReceipts, KnownSets
<1>4. ASSUME NEW r \in receipts
      PROVE  ReceiptVerifies(r.set, {})
  <2>1. r.set.snapshot = r.set.timestamp /\ r.set.targets = r.set.snapshot
    BY <1>3 DEF Bound
  <2>2. \A n \in {r.set.timestamp, r.set.snapshot, r.set.targets} : Signer(n) = OnlineKey(r.set.roots)
    BY <1>3, <2>1
  <2>3. RootsGood(r.set.roots, {}) /\ SignersGood(r.set, {})
    BY DEF RootsGood, SignersGood
  <2>4. QED
    BY <1>3, <2>2, <2>3 DEF ReceiptVerifies
<1>5. Consistent
  <2> SUFFICES ASSUME NEW r \in receipts, NEW q \in receipts
               PROVE  /\ r.set.file = q.set.file => r = q
                      /\ r.set.targets <= q.set.targets =>
                           publications[r.set.targets].revoked \subseteq publications[q.set.targets].revoked
    BY DEF Consistent
  <2>1. r.set.targets \in 1 .. Now /\ q.set.targets \in 1 .. Now
    BY <1>3
  <2>2. r.set.targets <= q.set.targets => Grows(publications[r.set.targets], publications[q.set.targets])
    BY <1>2, <2>1 DEF PublisherInv
  <2>3. QED
    BY <1>2, <2>2 DEF Grows
<1>6. PICK newest \in receipts : NewestRevoked = publications[newest.set.targets].revoked
  <2> DEFINE Versions == {r.set.targets : r \in receipts}
  <2>1. Versions \in SUBSET (0 .. Now) /\ Versions # {}
    BY <1>1, <1>2, <1>3
  <2> HIDE DEF Versions
  <2>2. PICK m \in Versions : \A n \in Versions : n <= m
    BY <1>2, <2>1, BoundedHasMaximum
  <2>3. \E r \in receipts : \A q \in receipts : q.set.targets <= r.set.targets
    BY <2>2 DEF Versions
  <2> DEFINE largest == CHOOSE r \in receipts : \A q \in receipts : q.set.targets <= r.set.targets
  <2>4. largest \in receipts
    BY <2>3
  <2>5. NewestRevoked = publications[largest.set.targets].revoked
    BY DEF NewestRevoked
  <2> HIDE DEF largest
  <2>6. QED
    BY <2>4, <2>5
<1>7. NewestRevoked \subseteq trusted.revoked
  <2>1. newest.set.targets \in 1 .. Now /\ newest.set.targets <= trusted.targets
    BY <1>2, <1>3 DEF Covers
  <2>2. trusted \in Whole /\ trusted.timestamp \in Nat
    BY Parts DEF MetadataInv, TrustInv, Whole
  <2>3. trusted.targets = trusted.timestamp
    BY <2>2 DEF Whole
  <2>4. trusted.timestamp # 0
    BY <2>1, <2>2, <2>3
  <2>5. trusted.timestamp \in 1 .. Now /\ trusted.revoked = publications[trusted.timestamp].revoked
    BY <2>2, <2>4 DEF Whole
  <2>6. Grows(publications[newest.set.targets], publications[trusted.timestamp])
    BY <1>2, <2>1, <2>3, <2>5 DEF PublisherInv
  <2>7. QED
    BY <1>6, <2>5, <2>6 DEF Grows
<1>8. \A r \in receipts : RootsGood(r.set.roots, NewestRevoked)
  <2>1. NewestRevoked \subseteq Latest.revoked
    BY <1>2, <1>3, <1>6, OnlyOnlineRevoked
  <2>2. \A r \in receipts : Embedded + 1 .. r.set.roots \subseteq Roots
    <3> SUFFICES ASSUME NEW r \in receipts
                 PROVE  Embedded + 1 .. r.set.roots \subseteq Roots
      OBVIOUS
    <3>1. r.set.roots \in Nat /\ 1 .. r.set.roots \subseteq Roots
      BY <1>2, <1>3, RootsBefore DEF KnownSets
    <3>2. QED
      BY <3>1, Parameters
  <2>3. QED
    BY <1>1, <1>2, <2>1, <2>2, OnlyOnlineRevoked DEF RootsGood
<1>9. \A r \in receipts : Covered(r)
  BY <1>2 DEF Covers, Covered
<1>10. QED
  BY <1>4, <1>5, <1>7, <1>8, <1>9

(* Lemma: what the publisher has now is accepted.                          *)
LEMMA InvCurrentSet ==
  ASSUME MetadataInv
  PROVE  CurrentSetAccepted
<1> SUFFICES ASSUME NEW c \in Channels, NEW now \in Times,
                    RootKeysKept, NoCrossSigning, Latest.channel[c] > 0, WithinLimits(c),
                    Fresh(trusted, CurrentSet(c), now)
             PROVE  Authenticates(trusted, CurrentSet(c), now)
  BY DEF CurrentSetAccepted, Accepted
<1> DEFINE set == CurrentSet(c)
           s == trusted
<1>1. /\ set.roots = Latest.root /\ set.timestamp = Now /\ set.snapshot = Now /\ set.targets = Now
      /\ set.file = Latest.channel[c] /\ set.name = c
  BY DEF CurrentSet
<1>2. Fresh(s, set, now)
  OBVIOUS
<1> HIDE DEF set, s
<1>3. PublisherInv /\ s \in Whole /\ s \in Trusts
  BY DEF MetadataInv, TrustInv, Whole, s
<1>4. /\ Now \in Nat /\ Now >= 1 /\ Now \in 1 .. Now /\ publications[Now] = Latest
      /\ Latest.root \in Nat /\ Latest.root >= 1 /\ Latest.channel[c] \in Nat
  <2>1. Latest \in Publications /\ Now \in Nat /\ Now >= 1 /\ Latest.root >= 1
    BY <1>3 DEF PublisherInv, Latest, Now
  <2>2. QED
    BY <2>1 DEF Latest, Publications
<1>5. s.root \in Nat /\ s.timestamp \in Nat /\ s.channel[c] \in Nat
  BY <1>3, Parts
<1>6. s.root <= Latest.root
  <2>1. PICK n \in 1 .. Now : s.root = publications[n].root
    BY <1>3 DEF Whole, Roots
  <2>2. Grows(publications[n], Latest)
    BY <1>3, <1>4, <2>1 DEF PublisherInv
  <2>3. QED
    BY <2>1, <2>2 DEF Grows
<1>7. s.revoked \subseteq Latest.revoked
  <2>1. CASE s.timestamp = 0
    BY <1>3, <2>1 DEF Whole
  <2>2. CASE s.timestamp # 0
    <3>1. s.timestamp \in 1 .. Now /\ s.revoked = publications[s.timestamp].revoked
      BY <1>3, <2>2 DEF Whole
    <3>2. QED
      BY <1>3, <3>1, OnlyOnlineRevoked
  <2>3. QED
    BY <2>1, <2>2
<1>8. RootsFollow(s, set)
  <2>1. \A v \in Roots : RootSigners(v) \intersect s.revoked = {}
    BY <1>3, <1>7, OnlyOnlineRevoked
  <2>2. s.root + 1 .. Latest.root \subseteq Roots
    <3>1. s.root + 1 .. Latest.root \subseteq 1 .. Latest.root
      BY <1>4, <1>5
    <3>2. QED
      BY <1>3, <3>1 DEF PublisherInv
  <2>3. QED
    BY <1>1, <1>6, <2>1, <2>2 DEF RootsFollow
<1>9. Authorized(s, set)
  <2>1. Larger(s.root, set.roots) = Latest.root
    BY <1>1, <1>4, <1>5, <1>6 DEF Larger
  <2>2. OnlineKey(Latest.root) = Latest.online
    BY <1>3, <1>4, KeysOf DEF OnlineKey, SameKeys
  <2>3. Signer(Now) = Latest.online
    BY <1>4 DEF Signer
  <2>4. <<"online", Latest.online>> \notin s.revoked
    BY <1>3, <1>7, OnlyOnlineRevoked
  <2>5. QED
    BY <1>1, <2>1, <2>2, <2>3, <2>4 DEF Authorized
<1>10. Bound(set)
  BY <1>1, <1>4 DEF Bound
<1>11. AboveFloors(s, set)
  <2>1. s.timestamp <= Now /\ s.snapshot = s.timestamp /\ s.targets = s.timestamp
    BY <1>3, <1>4, <1>5 DEF Whole
  <2>2. s.channel[c] <= Latest.channel[c]
    <3>1. CASE s.timestamp = 0
      BY <1>3, <1>4, <3>1 DEF Whole
    <3>2. CASE s.timestamp # 0
      <4>1. s.timestamp \in 1 .. Now /\ s.channel[c] <= publications[s.timestamp].channel[c]
        BY <1>3, <3>2 DEF Whole
      <4>2. publications[s.timestamp].channel[c] <= Latest.channel[c]
        BY <1>3, <1>4, <2>1, <4>1 DEF PublisherInv, Grows
      <4>3. publications[s.timestamp].channel[c] \in Nat
        <5>1. publications[s.timestamp] \in Publications
          BY <1>3, <4>1 DEF PublisherInv, Now
        <5>2. QED
          BY <5>1 DEF Publications
      <4>4. QED
        BY <1>4, <1>5, <4>1, <4>2, <4>3
    <3>3. QED
      BY <3>1, <3>2
  <2>3. /\ s.timestamp > 0 => Now - s.timestamp <= MaxAdvance
        /\ s.channel[c] > 0 => Latest.channel[c] - s.channel[c] <= MaxAdvance
    BY DEF WithinLimits, s
  <2>4. QED
    BY <1>1, <1>4, <1>5, <2>1, <2>2, <2>3 DEF AboveFloors, Above
<1>12. s.revoked \subseteq publications[set.targets].revoked
  BY <1>1, <1>4, <1>7
<1>13. Constructs(s)
  <2>1. PICK n \in 1 .. Now : s.root = publications[n].root
    BY <1>3 DEF Whole, Roots
  <2>2. RootSigners(s.root) = publications[n].signers /\ RootKeys(s.root) = publications[n].keys
    BY <1>3, <2>1, KeysOf DEF RootSigners, RootKeys, SameKeys
  <2>3. QED
    BY <2>2 DEF NoCrossSigning, Constructs
<1>14. QED
  BY <1>2, <1>8, <1>9, <1>10, <1>11, <1>12, <1>13 DEF Authenticates, s, set

-----------------------------------------------------------------------------
(* Lemma: every step keeps the invariant and takes nothing back.           *)
LEMMA MetadataNext ==
  ASSUME MetadataInv, [Next]_vars
  PROVE  MetadataInv' /\ Advances(trusted, trusted')
<1>1. Advances(trusted, trusted)
  <2>1. trusted \in Trusts
    BY DEF MetadataInv, TrustInv, Whole
  <2>2. QED
    BY <2>1, Parts DEF Advances
<1>2. CASE Publisher
  <2>1. PICK p \in Publications : Publish(p)
    BY <1>2, PublisherStep DEF MetadataInv
  <2>2. trusted' = trusted
    BY <2>1 DEF Publish, client
  <2>3. QED
    BY <1>1, <1>2, <2>2, MetadataPublish
<1>3. CASE \E c \in Channels : Start(c)
  BY <1>1, <1>3, MetadataStart
<1>4. CASE Fetch
  BY <1>1, <1>4, MetadataFetch
<1>5. CASE Authenticate
  BY <1>1, <1>5, MetadataAuthenticate
<1>6. CASE AppendCheckpoint
  BY <1>6, MetadataAppend
<1>7. CASE Select
  BY <1>1, <1>7, MetadataSelect
<1>8. CASE Stop
  BY <1>1, <1>8, MetadataStop
<1>9. CASE UNCHANGED vars
  <2>1. UNCHANGED <<publications, chain, trusted, bundles, receipts, pc, pending>>
    BY <1>9 DEF vars, client
  <2>2. MetadataInv'
    <3>1. /\ Now' = Now /\ KnownSets' = KnownSets /\ Steps' = Steps /\ Whole' = Whole
          /\ GoodReceipts' = GoodReceipts /\ PublisherInv'
      BY <2>1, KnownSame DEF MetadataInv
    <3>2. QED
      BY <2>1, <3>1 DEF MetadataInv, TypeOK, TrustInv, ReplayInv, PendingInv, ReceiptInv, Covers,
                        Untrusting
  <2>3. QED
    BY <1>1, <2>1, <2>2
<1>10. QED
  BY <1>2, <1>3, <1>4, <1>5, <1>6, <1>7, <1>8, <1>9 DEF Next, Update

(* The invariant holds in every state a client comes to, however many      *)
(* publications and updates there were (loadMetadataCheckpointChain and    *)
(* authenticateAndAppendMetadataCheckpoint, metadata-checkpoint.ts).       *)
THEOREM MetadataInvariant == Spec => []MetadataInv
<1>1. Init => MetadataInv
  BY MetadataInit
<1>2. MetadataInv /\ [Next]_vars => MetadataInv'
  BY MetadataNext
<1>3. QED
  BY <1>1, <1>2, PTL DEF Spec

(* The records have the types the loader demands of them.                  *)
THEOREM MetadataTypeCorrect == Spec => []TypeOK
<1>1. MetadataInv => TypeOK
  BY DEF MetadataInv
<1>2. QED
  BY <1>1, MetadataInvariant, PTL

(* Whatever was accepted is accepted again whenever the checkpoints are    *)
(* loaded (loadMetadataCheckpointChain, metadata-checkpoint.ts:183).       *)
THEOREM MetadataReplays == Spec => []ChainReplays
<1>1. MetadataInv => ChainReplays
  BY InvReplays
<1>2. QED
  BY <1>1, MetadataInvariant, PTL

(* What is trusted is what one publication contained, never a mixture      *)
(* (verifyMetadataBindings and assertMetadataFloors, trust.ts:275-341).    *)
THEOREM MetadataOnePublication == Spec => []OnePublication
<1>1. MetadataInv => OnePublication
  BY InvOnePublication
<1>2. QED
  BY <1>1, MetadataInvariant, PTL

(* The receipts of all updates can be read together and are covered by the *)
(* checkpoints, as long as no root key was revoked                         *)
(* (reconstructStateFromReceipts, receipt.ts:261).                         *)
THEOREM MetadataReceipts == Spec => []ReceiptsReadable
<1>1. MetadataInv => ReceiptsReadable
  BY InvReceipts
<1>2. QED
  BY <1>1, MetadataInvariant, PTL

(* No history of updates shuts a client out of what is published now, as   *)
(* long as no root is cross-signed and no root key revoked                 *)
(* (TufTrustStore, trust.ts:93-273).                                       *)
THEOREM MetadataCurrentSet == Spec => []CurrentSetAccepted
<1>1. MetadataInv => CurrentSetAccepted
  BY InvCurrentSet
<1>2. QED
  BY <1>1, MetadataInvariant, PTL

(* No step takes back a version, a revocation or the time that is trusted  *)
(* (assertMetadataFloors, trust.ts:275).                                   *)
THEOREM MetadataNeverBack == Spec => NeverBack
<1> DEFINE Ahead ==
      /\ trusted.root <= trusted'.root /\ trusted.timestamp <= trusted'.timestamp
      /\ trusted.targets <= trusted'.targets
      /\ \A c \in Channels : trusted.channel[c] <= trusted'.channel[c]
      /\ trusted.time <= trusted'.time
      /\ trusted.revoked \subseteq trusted'.revoked
<1>1. MetadataInv /\ [Next]_vars => [Ahead]_vars
  BY MetadataNext DEF Advances
<1>2. QED
  BY <1>1, MetadataInvariant, PTL DEF Spec, NeverBack
=============================================================================
