--------------------------- MODULE IdentityProofs ---------------------------
(***************************************************************************)
(* Proofs about IdentitySessions and LoginProtection for any number of     *)
(* requests, sessions, passwords, names and sources, and any clock.        *)
(*                                                                         *)
(* The throttle is proved on maps alone: whatever an operator of           *)
(* LoginProtection leaves behind keeps the bound and every block.  For the *)
(* rest, RequestInv says what a goroutine may still believe: what it read  *)
(* of the credentials is not newer than they are, and an open password     *)
(* change holds the row whose hash it verified.  RoomInv makes sure that   *)
(* the id of a new session was never used before.                          *)
(***************************************************************************)
EXTENDS IdentitySessions, FiniteSetTheorems, TLAPS

-----------------------------------------------------------------------------
(* The throttle *)

Bucket == [start : Nat, failures : Nat, until : Nat, touched : Nat]

\* The map of buckets, and that it keeps its bound.
Throttle(b) ==
    /\ IsFiniteSet(DOMAIN b)
    /\ b = [k \in DOMAIN b |-> b[k]]
    /\ \A k \in DOMAIN b : b[k] \in Bucket
    /\ Cardinality(DOMAIN b) <= MaxTrackedKeys

\* Every block of map b at time now is still there in map c.
BlocksKept(b, c, now) ==
    \A k \in DOMAIN b : BlockedAt(b[k], now) =>
       k \in DOMAIN c /\ c[k].until = b[k].until

\* Looking at a bucket later never ends a block early.
LEMMA Normalized ==
    ASSUME NEW b \in Bucket, NEW now \in Nat
    PROVE  /\ normalizeBucket(b, now) \in Bucket
           /\ BlockedAt(b, now) => normalizeBucket(b, now) = b
  BY PolicyAssumption DEF normalizeBucket, Bucket, BlockedAt, NoFailures

LEMMA NoFailuresIsBucket == NoFailures \in Bucket
  BY Zenon DEF NoFailures, Bucket

LEMMA BucketOfType ==
    ASSUME NEW b, Throttle(b), NEW key
    PROVE  BucketOf(b, key) \in Bucket
  BY Zenon, NoFailuresIsBucket DEF BucketOf, Throttle

\* Putting a bucket under its own key or into a map with room keeps the bound.
LEMMA PutMap ==
    ASSUME NEW b, Throttle(b), NEW key, NEW bucket \in Bucket, NEW now \in Nat,
           key \in DOMAIN b \/ Cardinality(DOMAIN b) < MaxTrackedKeys,
           key \in DOMAIN b /\ BlockedAt(b[key], now) => bucket.until = b[key].until
    PROVE  Throttle(Put(b, key, bucket)) /\ BlocksKept(b, Put(b, key, bucket), now)
<1> DEFINE c == Put(b, key, bucket)
<1>1. DOMAIN c = DOMAIN b \union {key} /\ c = [k \in DOMAIN c |-> c[k]]
  BY Zenon DEF Put
<1>2. \A k \in DOMAIN c : c[k] = IF k = key THEN bucket ELSE b[k]
  BY Zenon DEF Put
<1>3. /\ IsFiniteSet(DOMAIN b) /\ Cardinality(DOMAIN b) \in Nat
      /\ MaxTrackedKeys \in Nat
  BY Zenon, FS_CardinalityType, PolicyAssumption DEF Throttle
<1> HIDE DEF c
<1>4. IsFiniteSet(DOMAIN c) /\ Cardinality(DOMAIN c) <= MaxTrackedKeys
  <2>1. /\ IsFiniteSet(DOMAIN b \union {key})
        /\ Cardinality(DOMAIN b \union {key})
             = IF key \in DOMAIN b THEN Cardinality(DOMAIN b) ELSE Cardinality(DOMAIN b) + 1
    BY Zenon, <1>3, FS_AddElement
  <2>2. Cardinality(DOMAIN b) <= MaxTrackedKeys
    BY Zenon DEF Throttle
  <2> QED
    BY <1>1, <1>3, <2>1, <2>2
<1>5. Throttle(c)
  BY Zenon, <1>1, <1>2, <1>4 DEF Throttle
<1>6. BlocksKept(b, c, now)
  BY Zenon, <1>1, <1>2 DEF BlocksKept
<1> QED
  BY Zenon, <1>5, <1>6 DEF c

\* Taking a bucket out.
LEMMA WithoutMap ==
    ASSUME NEW b, Throttle(b), NEW key
    PROVE  LET c == Without(b, key)
           IN /\ Throttle(c)
              /\ DOMAIN c = DOMAIN b \ {key}
              /\ \A k \in DOMAIN c : c[k] = b[k]
<1> DEFINE c == Without(b, key)
<1>1. DOMAIN c = DOMAIN b \ {key} /\ c = [k \in DOMAIN c |-> c[k]]
  BY Zenon DEF Without, Restrict
<1>2. \A k \in DOMAIN c : c[k] = b[k]
  BY Zenon DEF Without, Restrict
<1>3. /\ IsFiniteSet(DOMAIN b) /\ Cardinality(DOMAIN b) \in Nat
      /\ MaxTrackedKeys \in Nat
  BY Zenon, FS_CardinalityType, PolicyAssumption DEF Throttle
<1> HIDE DEF c
<1>4. IsFiniteSet(DOMAIN c) /\ Cardinality(DOMAIN c) <= MaxTrackedKeys
  BY <1>1, <1>3, FS_RemoveElement DEF Throttle
<1>5. Throttle(c)
  BY Zenon, <1>1, <1>2, <1>4 DEF Throttle
<1> QED
  BY Zenon, <1>1, <1>2, <1>5 DEF c

\* A look at a key forgets or touches its bucket, and no block.
LEMMA LookedMap ==
    ASSUME NEW b, Throttle(b), NEW key, NEW now \in Nat
    PROVE  Throttle(Looked(b, key, now)) /\ BlocksKept(b, Looked(b, key, now), now)
<1> DEFINE n == normalizeBucket(BucketOf(b, key), now)
           t == [n EXCEPT !.touched = now]
<1>1. CASE key \notin DOMAIN b
  BY Zenon, <1>1 DEF Looked, BlocksKept
<1>2. CASE key \in DOMAIN b
  <2>1. b[key] \in Bucket /\ BucketOf(b, key) = b[key]
    BY Zenon, <1>2 DEF Throttle, BucketOf
  <2>2. n \in Bucket /\ (BlockedAt(b[key], now) => n = b[key])
    BY Zenon, <2>1, Normalized
  <2> HIDE DEF n
  <2>3. t \in Bucket /\ t.until = n.until
    BY Zenon, <2>2 DEF Bucket
  <2>4. CASE n.failures = 0 /\ n.until = 0
    <3>1. Looked(b, key, now) = Without(b, key)
      BY Zenon, <1>2, <2>4 DEF Looked, n
    <3>2. ~BlockedAt(b[key], now)
      BY Zenon, <2>2, <2>4 DEF BlockedAt
    <3> DEFINE c == Without(b, key)
    <3>3. Throttle(c) /\ DOMAIN c = DOMAIN b \ {key} /\ \A k \in DOMAIN c : c[k] = b[k]
      BY Zenon, WithoutMap
    <3> HIDE DEF c
    <3>4. BlocksKept(b, c, now)
      BY Zenon, <3>2, <3>3 DEF BlocksKept
    <3> QED
      BY Zenon, <3>1, <3>3, <3>4 DEF c
  <2>5. CASE ~(n.failures = 0 /\ n.until = 0)
    <3>1. Looked(b, key, now) = Put(b, key, t)
      BY Zenon, <1>2, <2>5 DEF Looked, n
    <3> HIDE DEF t
    <3> QED
      BY Zenon, <1>2, <2>2, <2>3, <3>1, PutMap
  <2> QED
    BY Zenon, <2>4, <2>5
<1> QED
  BY Zenon, <1>1, <1>2
\* Making room never evicts a blocked bucket.
LEMMA EvictableIsOpen ==
    ASSUME NEW b, Throttle(b), NEW now \in Nat, NEW old \in Evictable(b, now)
    PROVE  old \in DOMAIN b /\ ~BlockedAt(b[old], now)
<1> DEFINE n == [k \in DOMAIN b |-> normalizeBucket(b[k], now)]
           outdated == {k \in DOMAIN b : n[k].failures = 0 /\ n[k].until = 0}
           open == {k \in DOMAIN b : ~BlockedAt(n[k], now)}
<1>1. old \in outdated \/ old \in open
  BY Zenon DEF Evictable
<1>2. old \in DOMAIN b
  BY Zenon, <1>1
<1>3. b[old] \in Bucket /\ n[old] = normalizeBucket(b[old], now)
  BY Zenon, <1>2 DEF Throttle
<1>4. BlockedAt(b[old], now) => n[old] = b[old]
  BY Zenon, <1>3, Normalized
<1>5. n[old].until = 0 \/ ~BlockedAt(n[old], now)
  BY Zenon, <1>1
<1> HIDE DEF n
<1> QED
  BY Zenon, <1>2, <1>4, <1>5 DEF BlockedAt

\* Whatever putBucketLocked leaves behind keeps the bound and the blocks.
LEMMA PutLocked ==
    ASSUME NEW b, Throttle(b), NEW key, NEW bucket \in Bucket, NEW now \in Nat,
           key \in DOMAIN b /\ BlockedAt(b[key], now) => bucket.until = b[key].until,
           NEW c \in putBucketLocked(b, key, bucket, now)
    PROVE  Throttle(c) /\ BlocksKept(b, c, now)
<1>1. CASE key \in DOMAIN b \/ Cardinality(DOMAIN b) < MaxTrackedKeys
  <2>1. c = Put(b, key, bucket)
    BY Zenon, <1>1 DEF putBucketLocked
  <2> QED
    BY Zenon, <1>1, <2>1, PutMap
<1>2. CASE ~(key \in DOMAIN b \/ Cardinality(DOMAIN b) < MaxTrackedKeys)
  <2>1. CASE c = b
    BY Zenon, <2>1 DEF BlocksKept
  <2>2. ASSUME NEW old \in Evictable(b, now), c = Put(Without(b, old), key, bucket)
        PROVE  Throttle(c) /\ BlocksKept(b, c, now)
    <3> DEFINE d == Without(b, old)
    <3>1. Throttle(d) /\ DOMAIN d = DOMAIN b \ {old} /\ \A k \in DOMAIN d : d[k] = b[k]
      BY Zenon, WithoutMap
    <3> HIDE DEF d
    <3>2. old \in DOMAIN b /\ ~BlockedAt(b[old], now)
      BY Zenon, EvictableIsOpen
    <3>3. Cardinality(DOMAIN d) < MaxTrackedKeys
      <4>1. IsFiniteSet(DOMAIN b) /\ Cardinality(DOMAIN b) <= MaxTrackedKeys
        BY Zenon DEF Throttle
      <4>2. Cardinality(DOMAIN b) \in Nat /\ MaxTrackedKeys \in Nat
        BY Zenon, <4>1, FS_CardinalityType, PolicyAssumption
      <4>3. Cardinality(DOMAIN b \ {old}) = Cardinality(DOMAIN b) - 1
        BY Zenon, <3>2, <4>1, FS_RemoveElement
      <4> QED
        BY <3>1, <4>1, <4>2, <4>3
    <3>4. key \notin DOMAIN d
      BY Zenon, <1>2, <3>1
    <3>5. Throttle(c) /\ BlocksKept(d, c, now)
      BY Zenon, <2>2, <3>1, <3>3, <3>4, PutMap DEF d
    <3> QED
      BY Zenon, <3>1, <3>2, <3>5 DEF BlocksKept
  <2> QED
    BY Zenon, <1>2, <2>1, <2>2 DEF putBucketLocked
<1> QED
  BY Zenon, <1>1, <1>2

\* Counting a failure, for one key and for the two of a login.
LEMMA FailureLocked ==
    ASSUME NEW b, Throttle(b), NEW key, NEW limit \in Nat, NEW now \in Nat,
           NEW c \in recordFailureLocked(b, key, limit, now)
    PROVE  Throttle(c) /\ BlocksKept(b, c, now)
<1> DEFINE n == normalizeBucket(BucketOf(b, key), now)
           t == [n EXCEPT !.touched = now]
           counted == [start |-> IF n.start = 0 THEN now ELSE n.start,
                       failures |-> n.failures + 1,
                       until |-> IF n.failures + 1 >= limit THEN now + BlockDuration
                                 ELSE n.until,
                       touched |-> now]
           bucket == IF BlockedAt(n, now) THEN t ELSE counted
<1>1. n \in Bucket /\ (key \in DOMAIN b /\ BlockedAt(b[key], now) => n = b[key])
  BY Zenon, BucketOfType, Normalized DEF BucketOf
<1>2. c \in putBucketLocked(b, key, bucket, now)
  BY Zenon DEF recordFailureLocked
<1> HIDE DEF n
<1>3. t \in Bucket /\ t.until = n.until
  BY Zenon, <1>1 DEF Bucket
<1>4. counted \in Bucket
  BY <1>1, PolicyAssumption DEF Bucket
<1>5. bucket \in Bucket
  BY Zenon, <1>3, <1>4
<1>6. key \in DOMAIN b /\ BlockedAt(b[key], now) => bucket.until = b[key].until
  BY Zenon, <1>1, <1>3
<1> HIDE DEF bucket
<1> QED
  BY Zenon, <1>2, <1>5, <1>6, PutLocked

LEMMA KeptTwice ==
    ASSUME NEW b, NEW c, NEW d, NEW now, BlocksKept(b, c, now), BlocksKept(c, d, now)
    PROVE  BlocksKept(b, d, now)
  BY Zenon DEF BlocksKept, BlockedAt

LEMMA FailureMap ==
    ASSUME NEW b, Throttle(b), NEW account, NEW source, NEW now \in Nat,
           NEW d \in RecordFailure(b, account, source, now)
    PROVE  Throttle(d) /\ BlocksKept(b, d, now)
<1>1. PICK c \in recordFailureLocked(b, account, AccountFailureLimit, now) :
         d \in recordFailureLocked(c, source, SourceFailureLimit, now)
  BY Zenon DEF RecordFailure
<1>2. AccountFailureLimit \in Nat /\ SourceFailureLimit \in Nat
  BY Zenon, PolicyAssumption
<1>3. Throttle(c) /\ BlocksKept(b, c, now)
  BY Zenon, <1>2, FailureLocked
<1>4. Throttle(d) /\ BlocksKept(c, d, now)
  BY Zenon, <1>1, <1>2, <1>3, FailureLocked
<1> QED
  BY Zenon, <1>3, <1>4, KeptTwice

\* A login looks at both of its keys.
LEMMA AfterBlockedMap ==
    ASSUME NEW b, Throttle(b), NEW account, NEW source, NEW now \in Nat
    PROVE  /\ Throttle(AfterBlocked(b, account, source, now))
           /\ BlocksKept(b, AfterBlocked(b, account, source, now), now)
<1> DEFINE c == Looked(b, account, now)
<1>1. Throttle(c) /\ BlocksKept(b, c, now)
  BY Zenon, LookedMap
<1> HIDE DEF c
<1>2. Throttle(Looked(c, source, now)) /\ BlocksKept(c, Looked(c, source, now), now)
  BY Zenon, <1>1, LookedMap
<1> QED
  BY Zenon, <1>1, <1>2, KeptTwice DEF AfterBlocked, c
-----------------------------------------------------------------------------
(* The inductive invariant *)

Hashes == Passwords \X Nat

\* What a goroutine holds, by where it is.
LoginReq  == [pc : {"login"}, name : {Account} \union Strangers, password : Passwords,
              source : Sources, now : Nat]
CreateReq == [pc : {"create"}, now : Nat, hash : Hashes, version : Nat]
ReportReq == [pc : {"report", "last", "undo"}, now : Nat, session : SessionIds]
UserReq   == [pc : {"user"}, session : SessionIds, now : Nat, version : Nat, began : Nat]
AuthReq   == [pc : {"touch", "admitted"}, session : SessionIds, now : Nat, version : Nat,
              began : Nat, required : BOOLEAN]
BareReq   == [pc : {"idle", "password", "revoke", "revoke_all"}]
ChangeReq == [pc : {"update", "commit"}, hash : Hashes, new : Acceptable, now : Nat]
FindReq   == [pc : {"find"}, now : Nat, version : Nat]
RevokeReq == [pc : {"ask", "apply"}, session : SessionIds, now : Nat]
AllReq    == [pc : {"apply_all"}, now : Nat]

Request == LoginReq \union CreateReq \union ReportReq \union UserReq \union AuthReq
           \union BareReq \union ChangeReq \union FindReq \union RevokeReq \union AllReq

HoldsSession == {"report", "last", "undo", "user", "touch", "admitted", "ask", "apply"}

\* A goroutine, given the sessions that were made, the time, the user's row and who
\* has it locked.  The goroutine holds sessions that exist; what it read of the
\* credentials is not newer than they are; a password change verified an earlier
\* hash, and while it is open that hash is still in the row.
RequestInv(r, q, made, at, row, lock) ==
    /\ q \in Request
    /\ q.pc \in HoldsSession => q.session \in made
    /\ q.pc = "login" => q.now <= at
    /\ q.pc \in {"user", "touch", "admitted"} => q.began <= row.changedAt
    /\ q.pc \in {"touch", "admitted"} => q.version >= q.began
    /\ q.pc \in {"update", "commit"} => q.hash[2] < q.now
    /\ q.pc = "commit" => lock = r /\ row.hash = q.hash

UserInv == user \in User /\ user.hash[2] = user.changedAt

SessionInv ==
    /\ sessions \in [SessionIds -> Session \union {None}]
    /\ \A s \in Created : sessions[s].activity < sessions[s].expires
    /\ doomed \subseteq Created
    /\ issued \subseteq Created

\* Session ids are given out in order, and one is reserved for each login.
Reserving == {r \in Requests : request[r].pc \in {"login", "create"}}

RoomInv ==
    /\ Created = 1..Cardinality(Created)
    /\ Cardinality(Created) + Cardinality(Reserving) <= MaxSessions

IInv ==
    /\ UserInv
    /\ SessionInv
    /\ RoomInv
    /\ request \in [Requests -> Request]
    /\ \A r \in Requests : RequestInv(r, request[r], Created, clock, user, userLock)
    /\ Throttle(buckets)
    /\ clock \in Nat
-----------------------------------------------------------------------------
(* Goroutines *)

LEMMA Shape ==
    ASSUME NEW q \in Request
    PROVE  /\ q.pc = "login" => q \in LoginReq
           /\ q.pc = "create" => q \in CreateReq
           /\ q.pc \in {"report", "last", "undo"} => q \in ReportReq
           /\ q.pc = "user" => q \in UserReq
           /\ q.pc \in {"touch", "admitted"} => q \in AuthReq
           /\ q.pc \in {"update", "commit"} => q \in ChangeReq
           /\ q.pc = "find" => q \in FindReq
           /\ q.pc \in {"ask", "apply"} => q \in RevokeReq
           /\ q.pc = "apply_all" => q \in AllReq
  BY Zenon DEF Request, LoginReq, CreateReq, ReportReq, UserReq, AuthReq, BareReq, ChangeReq,
     FindReq, RevokeReq, AllReq

LEMMA IdleRequest ==
    ASSUME NEW r, NEW made, NEW at, NEW row, NEW lock, NEW q \in BareReq
    PROVE  RequestInv(r, q, made, at, row, lock) /\ q.pc \notin {"login", "create"}
  BY Zenon DEF RequestInv, Request, BareReq, HoldsSession

\* What the others have read stays right while sessions are only added, time and
\* credentials move forward, and the holder of the row keeps it.
Calm(r) ==
    /\ Created \subseteq Created'
    /\ clock \in Nat /\ clock' \in Nat /\ clock <= clock'
    /\ user'.changedAt \in Nat /\ user.changedAt <= user'.changedAt
    /\ \A x \in Requests \ {r} : userLock = x => userLock' = x /\ user' = user

LEMMA StillCalm ==
    ASSUME IInv, NEW r, Created \subseteq Created', clock' = clock, user' = user,
           \A x \in Requests \ {r} : userLock = x => userLock' = x
    PROVE  Calm(r)
<1>1. clock \in Nat /\ user.changedAt \in Nat
  BY DEF IInv, UserInv, User
<1> QED
  BY <1>1 DEF Calm

Requested ==
    /\ request' \in [Requests -> Request]
    /\ \A x \in Requests : RequestInv(x, request'[x], Created', clock', user', userLock')

LEMMA OthersKeep ==
    ASSUME IInv, NEW r, Calm(r), NEW x \in Requests, x # r
    PROVE  RequestInv(x, request[x], Created', clock', user', userLock')
<1> DEFINE q == request[x]
<1>1. RequestInv(x, q, Created, clock, user, userLock) /\ q \in Request
  BY Zenon DEF IInv
<1>2. user.changedAt \in Nat
  BY Zenon DEF IInv, UserInv, User
<1> HIDE DEF q
<1>3. q.pc = "login" => q.now \in Nat
  BY Zenon, <1>1, Shape DEF LoginReq
<1>4. q.pc \in {"user", "touch", "admitted"} => q.began \in Nat
  BY Zenon, <1>1, Shape DEF UserReq, AuthReq
<1>5. q.pc \in HoldsSession => q.session \in Created'
  BY Zenon, <1>1 DEF RequestInv, Calm
<1>6. q.pc = "login" => q.now <= clock'
  BY <1>1, <1>3 DEF RequestInv, Calm
<1>7. q.pc \in {"user", "touch", "admitted"} => q.began <= user'.changedAt
  BY <1>1, <1>2, <1>4 DEF RequestInv, Calm
<1>8. q.pc = "commit" => userLock' = x /\ user'.hash = q.hash
  BY Zenon, <1>1 DEF RequestInv, Calm
<1>9. RequestInv(x, q, Created', clock', user', userLock')
  BY Zenon, <1>1, <1>5, <1>6, <1>7, <1>8 DEF RequestInv
<1> QED
  BY Zenon, <1>9 DEF q

LEMMA OneRequest ==
    ASSUME IInv, NEW r \in Requests, Calm(r), NEW q, Goes(r, q),
           RequestInv(r, q, Created', clock', user', userLock')
    PROVE  Requested
<1>1. q \in Request
  BY Zenon DEF RequestInv
<1>2. ASSUME NEW x \in Requests
      PROVE  RequestInv(x, request'[x], Created', clock', user', userLock')
  <2>1. CASE x = r
    BY Zenon, <2>1 DEF Goes, IInv
  <2>2. CASE x # r
    <3>1. request'[x] = request[x]
      BY Zenon, <2>2 DEF Goes, IInv
    <3> QED
      BY <2>2, <3>1, OthersKeep
  <2> QED
    BY Zenon, <2>1, <2>2
<1> QED
  BY Zenon, <1>1, <1>2 DEF Requested, Goes, IInv

\* The reservation of ids, when no session is made and no login begins.
LEMMA RoomKept ==
    ASSUME IInv, NEW r \in Requests, NEW q, Goes(r, q), Created' = Created,
           q.pc \in {"login", "create"} => request[r].pc \in {"login", "create"}
    PROVE  RoomInv'
<1>1. Reserving' \subseteq Reserving
  BY Zenon DEF Reserving, Goes, IInv
<1>2. IsFiniteSet(Reserving)
  BY Zenon, ServiceAssumption, FS_Subset DEF Reserving
<1>3. Cardinality(Reserving') <= Cardinality(Reserving)
  BY Zenon, <1>1, <1>2, FS_Subset
<1>4. Cardinality(Reserving) \in Nat /\ Cardinality(Reserving') \in Nat
  BY Zenon, <1>1, <1>2, FS_Subset, FS_CardinalityType
<1>5. Cardinality(Created) \in Nat
  <2>1. IsFiniteSet(SessionIds)
    BY ServiceAssumption, FS_Interval DEF SessionIds
  <2> QED
    BY Zenon, <2>1, FS_Subset, FS_CardinalityType DEF Created
<1>6. RoomInv
  BY Zenon DEF IInv
<1> HIDE DEF Reserving
<1> QED
  BY <1>3, <1>4, <1>5, <1>6, ServiceAssumption DEF RoomInv

\* A step of one goroutine that changes nothing but where it is.
LEMMA QuietStep ==
    ASSUME IInv, NEW r \in Requests, NEW q, Goes(r, q),
           UNCHANGED <<user, sessions, userLock, doomed, buckets, issued, clock>>,
           RequestInv(r, q, Created, clock, user, userLock),
           q.pc \notin {"login", "create"}
    PROVE  IInv'
<1>1. Created' = Created
  BY Zenon DEF Created
<1>2. Calm(r)
  BY Zenon, <1>1, StillCalm
<1>3. Requested
  BY Zenon, <1>1, <1>2, OneRequest
<1>4. RoomInv'
  BY Zenon, <1>1, RoomKept
<1>5. UserInv' /\ SessionInv' /\ Throttle(buckets') /\ clock' \in Nat
  BY Zenon, <1>1 DEF IInv, UserInv, SessionInv
<1> QED
  BY Zenon, <1>3, <1>4, <1>5 DEF IInv, Requested
\* A goroutine that gives up.
LEMMA EndStep ==
    ASSUME IInv, NEW r \in Requests, Ends(r),
           UNCHANGED <<user, sessions, userLock, doomed, buckets, issued, clock>>
    PROVE  IInv'
<1>1. Idle \in BareReq
  BY Zenon DEF Idle, BareReq
<1> QED
  BY Zenon, <1>1, IdleRequest, QuietStep DEF Ends

\* AuthFind, AuthUser and Dispatch: nobody passes AuthUser on credentials older
\* than the ones AuthFind began with.
LEMMA AuthFindStep ==
    ASSUME IInv, NEW r \in Requests, AuthFind(r)
    PROVE  IInv'
<1>1. PICK s \in issued :
         Goes(r, [pc |-> "user", session |-> s, now |-> clock,
                  version |-> sessions[s].version, began |-> user.changedAt])
  BY Zenon DEF AuthFind
<1> DEFINE q == [pc |-> "user", session |-> s, now |-> clock,
                 version |-> sessions[s].version, began |-> user.changedAt]
<1>2. s \in Created /\ s \in SessionIds /\ sessions[s] \in Session
  BY Zenon DEF IInv, SessionInv, Created
<1>3. /\ clock \in Nat /\ user.changedAt \in Nat /\ sessions[s].version \in Nat
      /\ user.changedAt <= user.changedAt
  BY <1>2 DEF IInv, UserInv, User, Session
<1>4. q \in Request
  BY Zenon, <1>2, <1>3 DEF Request, UserReq
<1>5. RequestInv(r, q, Created, clock, user, userLock) /\ q.pc \notin {"login", "create"}
  BY Zenon, <1>2, <1>3, <1>4 DEF RequestInv
<1> QED
  BY Zenon, <1>1, <1>5, QuietStep DEF AuthFind

LEMMA AuthUserStep ==
    ASSUME IInv, NEW r \in Requests, AuthUser(r)
    PROVE  IInv'
<1> DEFINE q == request[r]
           n == [pc |-> "touch", session |-> q.session, now |-> q.now,
                 version |-> q.version, began |-> q.began, required |-> user.required]
<1>1. RequestInv(r, q, Created, clock, user, userLock) /\ q.pc = "user" /\ q \in UserReq
  BY Zenon, Shape DEF AuthUser, At, IInv
<1>2. CASE SameCredentials(q.version) /\ Goes(r, n)
  <2>1. user.required \in BOOLEAN
    BY Zenon DEF IInv, UserInv, User
  <2>2. n \in Request
    BY Zenon, <1>1, <2>1 DEF UserReq, AuthReq, Request
  <2>3. RequestInv(r, n, Created, clock, user, userLock) /\ n.pc \notin {"login", "create"}
    BY Zenon, <1>1, <1>2, <2>2 DEF RequestInv, HoldsSession, SameCredentials, UserReq
  <2> HIDE DEF n
  <2> QED
    BY Zenon, <1>2, <2>3, QuietStep DEF AuthUser
<1>3. CASE Ends(r)
  BY Zenon, <1>3, EndStep DEF AuthUser
<1> QED
  BY Zenon, <1>2, <1>3 DEF AuthUser

LEMMA DispatchStep ==
    ASSUME IInv, NEW r \in Requests, Dispatch(r)
    PROVE  IInv'
<1>1. PICK op \in Operations : Ends(r) \/ (op # "self" /\ Goes(r, [pc |-> op]))
  BY Zenon DEF Dispatch
<1>2. CASE Ends(r)
  BY Zenon, <1>2, EndStep DEF Dispatch
<1>3. CASE op # "self" /\ Goes(r, [pc |-> op])
  <2>1. [pc |-> op] \in BareReq
    BY Zenon, <1>3 DEF Operations, BareReq
  <2> QED
    BY Zenon, <1>3, <2>1, IdleRequest, QuietStep DEF Dispatch
<1> QED
  BY Zenon, <1>1, <1>2, <1>3

LEMMA LoginReportStep ==
    ASSUME IInv, NEW r \in Requests, LoginReport(r)
    PROVE  IInv'
<1> DEFINE q == request[r]
<1>1. RequestInv(r, q, Created, clock, user, userLock) /\ q.pc = "report" /\ q \in ReportReq
  BY Zenon, Shape DEF LoginReport, At, IInv
<1>2. PICK pc \in {"last", "undo"} : Goes(r, [q EXCEPT !.pc = pc])
  BY Zenon DEF LoginReport
<1> DEFINE n == [q EXCEPT !.pc = pc]
<1>3. n \in ReportReq /\ n.pc = pc /\ n.session = q.session
  BY Zenon, <1>1 DEF ReportReq
<1> HIDE DEF n
<1>4. RequestInv(r, n, Created, clock, user, userLock) /\ n.pc \notin {"login", "create"}
  BY Zenon, <1>1, <1>3 DEF RequestInv, HoldsSession, Request
<1> QED
  BY Zenon, <1>2, <1>4, QuietStep DEF LoginReport, n

\* PasswordCheck: the new hash will be later than the one it replaces.
LEMMA PasswordCheckStep ==
    ASSUME IInv, NEW r \in Requests, PasswordCheck(r)
    PROVE  IInv'
<1>1. CASE Ends(r)
  BY Zenon, <1>1, EndStep DEF PasswordCheck
<1>2. ASSUME NEW new \in Acceptable, clock > user.changedAt,
             Goes(r, [pc |-> "update", hash |-> user.hash, new |-> new, now |-> clock])
      PROVE  IInv'
  <2> DEFINE n == [pc |-> "update", hash |-> user.hash, new |-> new, now |-> clock]
  <2>1. user.hash \in Hashes /\ user.hash[2] = user.changedAt /\ clock \in Nat
    BY Zenon DEF IInv, UserInv, User, Hashes
  <2>2. n \in Request
    BY Zenon, <2>1 DEF Request, ChangeReq
  <2>3. RequestInv(r, n, Created, clock, user, userLock) /\ n.pc \notin {"login", "create"}
    BY Zenon, <1>2, <2>1, <2>2 DEF RequestInv, HoldsSession
  <2> QED
    BY Zenon, <1>2, <2>3, QuietStep DEF PasswordCheck
<1> QED
  BY Zenon, <1>1, <1>2 DEF PasswordCheck

\* RevokeUser, RevokeFind, RevokeAsk and RevokeAllAsk.
LEMMA RevokeQuietStep ==
    ASSUME IInv, NEW r \in Requests,
           RevokeUser(r) \/ RevokeFind(r) \/ RevokeAsk(r) \/ RevokeAllAsk(r)
    PROVE  IInv'
<1> DEFINE q == request[r]
<1>1. clock \in Nat /\ user.changedAt \in Nat /\ q \in Request
      /\ RequestInv(r, q, Created, clock, user, userLock)
  BY Zenon DEF IInv, UserInv, User
<1>2. CASE Ends(r)
  BY Zenon, <1>2, EndStep DEF RevokeUser, RevokeFind, RevokeAsk, RevokeAllAsk
<1>3. CASE RevokeUser(r) /\ ~Ends(r)
  <2> DEFINE n == [pc |-> "find", now |-> clock, version |-> user.changedAt]
  <2>1. RequestInv(r, n, Created, clock, user, userLock) /\ n.pc \notin {"login", "create"}
    BY Zenon, <1>1 DEF RequestInv, HoldsSession, Request, FindReq
  <2> QED
    BY Zenon, <1>3, <2>1, QuietStep DEF RevokeUser
<1>4. CASE RevokeFind(r) /\ ~Ends(r)
  <2>1. q \in FindReq
    BY Zenon, <1>1, <1>4, Shape DEF RevokeFind, At
  <2>2. PICK s \in Created : Goes(r, [pc |-> "ask", session |-> s, now |-> q.now])
    BY Zenon, <1>4 DEF RevokeFind
  <2> DEFINE n == [pc |-> "ask", session |-> s, now |-> q.now]
  <2>3. n \in Request
    BY Zenon, <2>1 DEF FindReq, RevokeReq, Request, Created
  <2>4. RequestInv(r, n, Created, clock, user, userLock) /\ n.pc \notin {"login", "create"}
    BY Zenon, <2>3 DEF RequestInv
  <2> QED
    BY Zenon, <1>4, <2>2, <2>4, QuietStep DEF RevokeFind
<1>5. CASE RevokeAsk(r) /\ ~Ends(r)
  <2> DEFINE n == [q EXCEPT !.pc = "apply"]
  <2>1. q \in RevokeReq /\ q.pc = "ask"
    BY Zenon, <1>1, <1>5, Shape DEF RevokeAsk, At
  <2>2. n \in RevokeReq /\ n.pc = "apply" /\ n.session = q.session
    BY Zenon, <2>1 DEF RevokeReq
  <2>3. q.session \in Created
    BY Zenon, <1>1, <2>1 DEF RequestInv, HoldsSession
  <2>4. Goes(r, n)
    BY Zenon, <1>5 DEF RevokeAsk
  <2> HIDE DEF n
  <2>5. RequestInv(r, n, Created, clock, user, userLock) /\ n.pc \notin {"login", "create"}
    BY Zenon, <2>2, <2>3 DEF RequestInv, Request
  <2> QED
    BY Zenon, <1>5, <2>4, <2>5, QuietStep DEF RevokeAsk
<1>6. CASE RevokeAllAsk(r) /\ ~Ends(r)
  <2> DEFINE n == [pc |-> "apply_all", now |-> clock]
  <2>1. RequestInv(r, n, Created, clock, user, userLock) /\ n.pc \notin {"login", "create"}
    BY Zenon, <1>1 DEF RequestInv, HoldsSession, Request, AllReq
  <2> QED
    BY Zenon, <1>6, <2>1, QuietStep DEF RevokeAllAsk
<1> QED
  BY Zenon, <1>2, <1>3, <1>4, <1>5, <1>6
-----------------------------------------------------------------------------
(* Sessions *)

\* What may happen to a session that exists.
Worn(old, new) ==
    /\ \A f \in DOMAIN old \ {"activity", "revoked"} : new[f] = old[f]
    /\ old.revoked => new = old
    /\ new.activity >= old.activity /\ new.activity < new.expires

\* The sessions after a step that makes none.
SessionsStep ==
    /\ Created' = Created
    /\ sessions' \in [SessionIds -> Session \union {None}]
    /\ \A s \in Created : sessions'[s] \in Session /\ Worn(sessions[s], sessions'[s])

LEMMA SameSession ==
    ASSUME NEW old \in Session, old.activity < old.expires
    PROVE  Worn(old, old)
  BY DEF Worn, Session

LEMMA RevokedSession ==
    ASSUME NEW old \in Session, old.activity < old.expires
    PROVE  LET new == [old EXCEPT !.revoked = TRUE]
           IN new \in Session /\ Worn(old, new)
<1> DEFINE new == [old EXCEPT !.revoked = TRUE]
<1>1. new \in Session
  BY Zenon DEF Session
<1>2. DOMAIN new = DOMAIN old /\ \A f \in DOMAIN old \ {"revoked"} : new[f] = old[f]
  BY Zenon DEF Session
<1>3. /\ new.activity = old.activity /\ new.expires = old.expires
      /\ old.activity \in Nat /\ old.expires \in Nat
  BY Zenon DEF Session
<1>4. ASSUME old.revoked PROVE new = old
  <2>1. old.revoked = TRUE
    BY Zenon, <1>4 DEF Session
  <2> QED
    BY Zenon, <2>1 DEF Session
<1> HIDE DEF new
<1>5. Worn(old, new)
  BY <1>2, <1>3, <1>4 DEF Worn
<1> QED
  BY Zenon, <1>1, <1>5 DEF new

LEMMA TouchedSession ==
    ASSUME NEW old \in Session, old.activity < old.expires, ~old.revoked,
           NEW at \in Nat, at < old.expires
    PROVE  LET new == [old EXCEPT !.activity = IF at > old.activity THEN at ELSE old.activity]
           IN new \in Session /\ Worn(old, new)
<1> DEFINE a == IF at > old.activity THEN at ELSE old.activity
           new == [old EXCEPT !.activity = a]
<1>1. a \in Nat /\ a >= old.activity /\ a < old.expires
  BY DEF Session
<1> HIDE DEF a
<1>2. new \in Session
  BY Zenon, <1>1 DEF Session
<1>3. DOMAIN new = DOMAIN old /\ \A f \in DOMAIN old \ {"activity"} : new[f] = old[f]
  BY Zenon DEF Session
<1>4. new.activity = a /\ new.expires = old.expires
  BY Zenon DEF Session
<1> HIDE DEF new
<1>5. Worn(old, new)
  BY Zenon, <1>1, <1>3, <1>4 DEF Worn
<1> QED
  BY Zenon, <1>2, <1>5 DEF new, a

LEMMA CreatedSession ==
    ASSUME IInv, NEW s \in Created
    PROVE  s \in SessionIds /\ sessions[s] \in Session /\ sessions[s].activity < sessions[s].expires
  BY Zenon DEF IInv, SessionInv, Created

LEMMA SameSessions ==
    ASSUME IInv, sessions' = sessions
    PROVE  SessionsStep
<1>1. Created' = Created
  BY Zenon DEF Created
<1> QED
  BY Zenon, <1>1, CreatedSession, SameSession DEF SessionsStep, IInv, SessionInv

\* Replacing the sessions of a set by ones that may follow them.
LEMMA ReplacedSessions ==
    ASSUME IInv, NEW set, set \subseteq Created, sessions' \in [SessionIds -> Session \union {None}],
           \A s \in SessionIds \ set : sessions'[s] = sessions[s],
           \A s \in set : sessions'[s] \in Session /\ Worn(sessions[s], sessions'[s])
    PROVE  SessionsStep
<1>1. None \notin Session
  BY Zenon, ServiceAssumption
<1>2. Created' = Created
  BY Zenon, <1>1 DEF Created
<1> QED
  BY Zenon, <1>2, CreatedSession, SameSession DEF SessionsStep

LEMMA RevokedSessions ==
    ASSUME IInv, NEW set, set \subseteq Created, sessions' = Revoked(set)
    PROVE  SessionsStep
<1>1. \A s \in set : /\ s \in SessionIds /\ sessions'[s] = [sessions[s] EXCEPT !.revoked = TRUE]
                     /\ sessions'[s] \in Session /\ Worn(sessions[s], sessions'[s])
  <2> TAKE s \in set
  <2>1. s \in SessionIds /\ sessions'[s] = [sessions[s] EXCEPT !.revoked = TRUE]
    BY Zenon DEF Revoked, Created
  <2> QED
    BY Zenon, <2>1, CreatedSession, RevokedSession
<1>2. \A s \in SessionIds \ set : sessions'[s] = sessions[s]
  BY Zenon DEF Revoked
<1>3. sessions' \in [SessionIds -> Session \union {None}]
  <2>1. \A s \in SessionIds : sessions'[s] \in Session \union {None}
    BY Zenon, <1>1, <1>2 DEF IInv, SessionInv
  <2> QED
    BY Zenon, <2>1 DEF Revoked
<1> QED
  BY Zenon, <1>1, <1>2, <1>3, ReplacedSessions

LEMMA TouchedSessions ==
    ASSUME IInv, NEW s \in Created, ~sessions[s].revoked, NEW at \in Nat,
           at < sessions[s].expires, sessions' = Touched(s, at)
    PROVE  SessionsStep
<1> DEFINE new == [sessions[s] EXCEPT !.activity =
                      IF at > sessions[s].activity THEN at ELSE sessions[s].activity]
<1>1. s \in SessionIds /\ sessions[s] \in Session /\ sessions[s].activity < sessions[s].expires
  BY Zenon, CreatedSession
<1>2. new \in Session /\ Worn(sessions[s], new)
  BY Zenon, <1>1, TouchedSession
<1>3. sessions' = [sessions EXCEPT ![s] = new]
  BY Zenon, <1>1 DEF Touched, IInv, SessionInv
<1> HIDE DEF new
<1>4. sessions' \in [SessionIds -> Session \union {None}] /\ sessions'[s] = new
  BY Zenon, <1>1, <1>2, <1>3 DEF IInv, SessionInv
<1>5. \A x \in SessionIds \ {s} : sessions'[x] = sessions[x]
  BY Zenon, <1>3 DEF IInv, SessionInv
<1> DEFINE set == {s}
<1>6. set \subseteq Created /\ (\A x \in SessionIds \ set : sessions'[x] = sessions[x])
  BY Zenon, <1>5
<1>7. \A x \in set : sessions'[x] \in Session /\ Worn(sessions[x], sessions'[x])
  BY Zenon, <1>2, <1>4
<1> HIDE DEF set
<1> QED
  BY Zenon, <1>4, <1>6, <1>7, ReplacedSessions

\* The invariant after a step that makes no session.
LEMMA SessionsKept ==
    ASSUME IInv, SessionsStep, doomed' \subseteq Created, issued' \subseteq Created
    PROVE  SessionInv'
  BY Zenon DEF SessionInv, SessionsStep, Worn
-----------------------------------------------------------------------------
(* Steps that change sessions, credentials or the throttle *)

\* A goroutine that ends with nothing made: only sessions and the throttle change.
LEMMA ClosingStep ==
    ASSUME IInv, NEW r \in Requests, Ends(r), SessionsStep, Throttle(buckets'),
           UNCHANGED <<user, userLock, clock>>, doomed' \subseteq Created, issued' \subseteq Created
    PROVE  IInv'
<1>1. Calm(r) /\ UserInv' /\ clock' \in Nat
  BY DEF Calm, IInv, UserInv, User, SessionsStep
<1>2. Idle \in BareReq
  BY Zenon DEF Idle, BareReq
<1>3. Requested
  BY Zenon, <1>1, <1>2, IdleRequest, OneRequest DEF Ends
<1>4. RoomInv'
  BY Zenon, <1>2, IdleRequest, RoomKept DEF Ends, SessionsStep
<1> QED
  BY Zenon, <1>1, <1>3, <1>4, SessionsKept DEF IInv, Requested

LEMMA LoginUndoStep ==
    ASSUME IInv, NEW r \in Requests, LoginUndo(r)
    PROVE  IInv' /\ SessionsStep
<1>1. request[r].session \in Created
  BY Zenon DEF LoginUndo, At, IInv, RequestInv, HoldsSession
<1>2. SessionsStep
  BY Zenon, <1>1, SameSessions, RevokedSessions DEF LoginUndo
<1> QED
  BY Zenon, <1>2, ClosingStep DEF LoginUndo, IInv, SessionInv

LEMMA LoginLastStep ==
    ASSUME IInv, NEW r \in Requests, LoginLast(r)
    PROVE  IInv' /\ SessionsStep
<1>1. request[r].session \in Created
  BY Zenon DEF LoginLast, At, IInv, RequestInv, HoldsSession
<1>2. SessionsStep
  BY Zenon, SameSessions DEF LoginLast
<1> QED
  BY Zenon, <1>1, <1>2, ClosingStep DEF LoginLast, IInv, SessionInv

LEMMA RevokeApplyStep ==
    ASSUME IInv, NEW r \in Requests, RevokeApply(r)
    PROVE  IInv' /\ SessionsStep
<1>1. request[r].session \in Created
  BY Zenon DEF RevokeApply, At, IInv, RequestInv, HoldsSession
<1>2. SessionsStep
  BY <1>1, SameSessions, RevokedSessions DEF RevokeApply
<1> QED
  BY Zenon, <1>2, ClosingStep DEF RevokeApply, IInv, SessionInv

LEMMA RevokeAllApplyStep ==
    ASSUME IInv, NEW r \in Requests, RevokeAllApply(r)
    PROVE  IInv' /\ SessionsStep
<1>1. Unrevoked \subseteq Created
  BY Zenon DEF Unrevoked
<1>2. SessionsStep
  BY Zenon, <1>1, SameSessions, RevokedSessions DEF RevokeAllApply
<1> QED
  BY Zenon, <1>2, ClosingStep DEF RevokeAllApply, IInv, SessionInv

LEMMA LogoutStep ==
    ASSUME IInv, NEW r \in Requests, Logout(r)
    PROVE  IInv' /\ SessionsStep
<1>1. PICK s \in issued : sessions' = Revoked({s})
  BY Zenon DEF Logout
<1>2. SessionsStep
  BY <1>1, RevokedSessions DEF IInv, SessionInv
<1>3. Calm(r)
  BY Zenon, <1>2, StillCalm DEF Logout, SessionsStep
<1>4. Goes(r, request[r]) /\ RequestInv(r, request[r], Created', clock', user', userLock')
  BY Zenon, <1>2 DEF Logout, Goes, IInv, SessionsStep
<1>5. Requested
  BY Zenon, <1>3, <1>4, OneRequest
<1>6. RoomInv'
  BY Zenon, <1>2, <1>4, RoomKept DEF SessionsStep
<1>7. SessionInv'
  BY Zenon, <1>2, SessionsKept DEF Logout, IInv, SessionInv
<1> QED
  BY Zenon, <1>2, <1>5, <1>6, <1>7 DEF Logout, IInv, UserInv, Requested

LEMMA AuthTouchStep ==
    ASSUME IInv, NEW r \in Requests, AuthTouch(r)
    PROVE  IInv' /\ SessionsStep
<1> DEFINE q == request[r]
           n == [q EXCEPT !.pc = "admitted"]
<1>1. RequestInv(r, q, Created, clock, user, userLock) /\ q.pc = "touch" /\ q \in AuthReq
  BY Zenon, Shape DEF AuthTouch, At, IInv
<1>2. CASE Ends(r) /\ UNCHANGED sessions
  BY Zenon, <1>2, EndStep, SameSessions DEF AuthTouch
<1>3. CASE /\ ~sessions[q.session].revoked /\ q.now < sessions[q.session].expires
           /\ sessions' = Touched(q.session, q.now) /\ Goes(r, n)
  <2>1. q.session \in Created /\ q.now \in Nat
    BY Zenon, <1>1 DEF RequestInv, HoldsSession, AuthReq
  <2>2. SessionsStep
    BY Zenon, <1>3, <2>1, TouchedSessions
  <2>3. Calm(r)
    BY Zenon, <2>2, StillCalm DEF AuthTouch, SessionsStep
  <2>4. /\ n \in AuthReq /\ n.pc = "admitted" /\ n.session = q.session
        /\ n.version = q.version /\ n.began = q.began
    BY Zenon, <1>1 DEF AuthReq
  <2>5. Goes(r, n)
    BY Zenon, <1>3
  <2> HIDE DEF n
  <2>6. RequestInv(r, n, Created', clock', user', userLock')
    BY Zenon, <1>1, <2>1, <2>2, <2>4 DEF RequestInv, Request, AuthTouch, SessionsStep
  <2>7. Requested
    BY Zenon, <2>3, <2>5, <2>6, OneRequest
  <2>8. RoomInv'
    BY Zenon, <2>2, <2>4, <2>5, RoomKept DEF SessionsStep
  <2>9. SessionInv'
    BY Zenon, <2>2, SessionsKept DEF AuthTouch, IInv, SessionInv
  <2> QED
    BY Zenon, <2>2, <2>7, <2>8, <2>9 DEF AuthTouch, IInv, UserInv, Requested
<1> QED
  BY Zenon, <1>2, <1>3 DEF AuthTouch
LEMMA PasswordUpdateStep ==
    ASSUME IInv, NEW r \in Requests, PasswordUpdate(r)
    PROVE  IInv'
<1> DEFINE q == request[r]
           n == [q EXCEPT !.pc = "commit"]
<1>1. RequestInv(r, q, Created, clock, user, userLock) /\ q.pc = "update" /\ q \in ChangeReq
  BY Zenon, Shape DEF PasswordUpdate, At, IInv
<1>2. CASE Ends(r) /\ UNCHANGED <<userLock, doomed>>
  BY Zenon, <1>2, EndStep DEF PasswordUpdate
<1>3. CASE Unchanged(q.hash) /\ userLock' = r /\ doomed' = Unrevoked /\ Goes(r, n)
  <2>1. SessionsStep
    BY Zenon, SameSessions DEF PasswordUpdate
  <2>2. \A x \in Requests : userLock # x
    BY Zenon, ServiceAssumption DEF PasswordUpdate
  <2>3. Calm(r)
    BY Zenon, <2>1, <2>2, StillCalm DEF PasswordUpdate, SessionsStep
  <2>4. n \in ChangeReq /\ n.pc = "commit" /\ n.hash = q.hash /\ n.now = q.now
    BY Zenon, <1>1 DEF ChangeReq
  <2>5. Goes(r, n)
    BY Zenon, <1>3
  <2> HIDE DEF n
  <2>6. RequestInv(r, n, Created', clock', user', userLock')
    BY Zenon, <1>1, <1>3, <2>4 DEF RequestInv, Request, PasswordUpdate, Unchanged, HoldsSession
  <2>7. Requested
    BY Zenon, <2>3, <2>5, <2>6, OneRequest
  <2>8. RoomInv'
    BY Zenon, <2>1, <2>4, <2>5, RoomKept DEF SessionsStep
  <2>9. SessionInv'
    BY Zenon, <1>3, <2>1, SessionsKept DEF PasswordUpdate, IInv, SessionInv, Unrevoked
  <2> QED
    BY Zenon, <2>7, <2>8, <2>9 DEF PasswordUpdate, IInv, UserInv, Requested
<1> QED
  BY Zenon, <1>2, <1>3 DEF PasswordUpdate

\* PasswordCommit: the new credentials are later than the ones they replace.
LEMMA PasswordCommitStep ==
    ASSUME IInv, NEW r \in Requests, PasswordCommit(r)
    PROVE  /\ IInv' /\ SessionsStep
           /\ user'.changedAt > user.changedAt /\ ~user'.required
           /\ userLock = r /\ request[r].hash = user.hash
<1> DEFINE q == request[r]
<1>1. RequestInv(r, q, Created, clock, user, userLock) /\ q.pc = "commit" /\ q \in ChangeReq
  BY Zenon, Shape DEF PasswordCommit, At, IInv
<1>2. /\ userLock = r /\ q.hash = user.hash
      /\ q.now \in Nat /\ q.new \in Passwords /\ user.changedAt < q.now
      /\ user.changedAt \in Nat
  BY Zenon, <1>1 DEF RequestInv, ChangeReq, IInv, UserInv, User, Passwords
<1>3. user' = [hash |-> <<q.new, q.now>>, changedAt |-> q.now, required |-> FALSE]
  BY Zenon DEF PasswordCommit, Hash
<1>4. user' \in User
  <2> DEFINE h == <<q.new, q.now>>
  <2>1. h \in Passwords \X Nat
    BY Zenon, <1>2
  <2> HIDE DEF h
  <2>2. [hash |-> h, changedAt |-> q.now, required |-> FALSE] \in User
    BY Zenon, <1>2, <2>1 DEF User
  <2> QED
    BY Zenon, <1>3, <2>2 DEF h
<1>5. user'.changedAt = q.now /\ ~user'.required /\ user'.hash[2] = q.now
  BY Zenon, <1>3
<1>6. SessionsStep
  BY Zenon, RevokedSessions DEF PasswordCommit, IInv, SessionInv
<1>7. Calm(r)
  BY <1>2, <1>5, <1>6 DEF PasswordCommit, Calm, IInv, SessionsStep
<1>8. Idle \in BareReq
  BY Zenon DEF Idle, BareReq
<1>9. Requested
  BY Zenon, <1>7, <1>8, IdleRequest, OneRequest DEF PasswordCommit, Ends
<1>10. RoomInv'
  BY Zenon, <1>6, <1>8, IdleRequest, RoomKept DEF PasswordCommit, Ends, SessionsStep
<1>11. SessionInv'
  BY Zenon, <1>6, SessionsKept DEF PasswordCommit, IInv, SessionInv
<1>12. IInv'
  BY Zenon, <1>4, <1>5, <1>9, <1>10, <1>11 DEF PasswordCommit, IInv, UserInv, Requested
<1> QED
  BY Zenon, <1>2, <1>5, <1>6, <1>12

LEMMA PasswordAbortStep ==
    ASSUME IInv, NEW r \in Requests, PasswordAbort(r)
    PROVE  IInv'
<1>1. SessionsStep
  BY Zenon, SameSessions DEF PasswordAbort
<1>2. userLock = r
  BY Zenon DEF PasswordAbort, At, IInv, RequestInv
<1>3. Calm(r)
  BY Zenon, <1>1, <1>2, StillCalm DEF PasswordAbort, SessionsStep
<1>4. Idle \in BareReq
  BY Zenon DEF Idle, BareReq
<1>5. Requested
  BY Zenon, <1>3, <1>4, IdleRequest, OneRequest DEF PasswordAbort, Ends
<1>6. RoomInv'
  BY Zenon, <1>1, <1>4, IdleRequest, RoomKept DEF PasswordAbort, Ends, SessionsStep
<1>7. SessionInv'
  BY Zenon, <1>1, SessionsKept DEF PasswordAbort, IInv, SessionInv
<1> QED
  BY Zenon, <1>5, <1>6, <1>7 DEF PasswordAbort, IInv, UserInv, Requested

\* The sizes that the reservation is about.
LEMMA Sizes ==
    ASSUME IInv
    PROVE  /\ IsFiniteSet(Reserving) /\ Cardinality(Reserving) \in Nat
           /\ Cardinality(Created) \in Nat /\ Created = 1..Cardinality(Created)
           /\ Cardinality(Created) + Cardinality(Reserving) <= MaxSessions
           /\ Cardinality(SessionIds \ Created) = MaxSessions - Cardinality(Created)
<1> DEFINE n == Cardinality(Created)
<1>1. IsFiniteSet(Reserving)
  BY Zenon, ServiceAssumption, FS_Subset DEF Reserving
<1>2. IsFiniteSet(SessionIds)
  BY ServiceAssumption, FS_Interval DEF SessionIds
<1>3. n \in Nat /\ Cardinality(Reserving) \in Nat
  BY Zenon, <1>1, <1>2, FS_Subset, FS_CardinalityType DEF Created
<1>4. Created = 1..n /\ n + Cardinality(Reserving) <= MaxSessions
  BY Zenon DEF IInv, RoomInv
<1> HIDE DEF n
<1>5. n <= MaxSessions
  BY <1>3, <1>4, ServiceAssumption
<1>6. SessionIds \ Created = (n + 1)..MaxSessions
  BY <1>3, <1>4, <1>5, ServiceAssumption DEF SessionIds
<1>7. Cardinality((n + 1)..MaxSessions) = MaxSessions - n
  <2>1. Cardinality((n + 1)..MaxSessions)
          = IF n + 1 > MaxSessions THEN 0 ELSE MaxSessions - (n + 1) + 1
    BY <1>3, ServiceAssumption, FS_Interval
  <2> QED
    BY <1>3, <1>5, <2>1, ServiceAssumption
<1> QED
  BY Zenon, <1>1, <1>3, <1>4, <1>6, <1>7 DEF n
LEMMA LoginStartStep ==
    ASSUME IInv, NEW r \in Requests, LoginStart(r)
    PROVE  IInv' /\ BlocksKept(buckets, buckets', clock)
<1>1. PICK name \in {Account} \union Strangers, password \in Passwords, source \in Sources :
         /\ Room
         /\ buckets' = AfterBlocked(buckets, name, source, clock)
         /\ \/ Ends(r)
            \/ Goes(r, [pc |-> "login", name |-> name, password |-> password,
                        source |-> source, now |-> clock])
  BY Zenon DEF LoginStart
<1>2. clock \in Nat /\ Throttle(buckets)
  BY Zenon DEF IInv
<1>3. Throttle(buckets') /\ BlocksKept(buckets, buckets', clock)
  BY Zenon, <1>1, <1>2, AfterBlockedMap
<1>4. SessionsStep
  BY Zenon, SameSessions DEF LoginStart
<1>5. CASE Ends(r)
  BY Zenon, <1>3, <1>4, <1>5, ClosingStep DEF LoginStart, IInv, SessionInv
<1>6. CASE Goes(r, [pc |-> "login", name |-> name, password |-> password,
                    source |-> source, now |-> clock])
  <2> DEFINE q == [pc |-> "login", name |-> name, password |-> password,
                   source |-> source, now |-> clock]
  <2>1. q \in Request
    BY Zenon, <1>2 DEF Request, LoginReq
  <2>2. RequestInv(r, q, Created', clock', user', userLock')
    BY <1>2, <2>1 DEF RequestInv, HoldsSession, LoginStart
  <2>3. q.pc = "login" /\ Goes(r, q)
    BY Zenon, <1>6
  <2> HIDE DEF q
  <2>4. Calm(r)
    BY Zenon, <1>4, StillCalm DEF LoginStart, SessionsStep
  <2>5. Requested
    BY Zenon, <2>2, <2>3, <2>4, OneRequest
  <2>6. Reserving' = Reserving \union {r} /\ r \notin Reserving
    BY Zenon, <2>3 DEF Reserving, Goes, IInv, LoginStart, At
  <2>7. RoomInv'
    <3>1. Created' = Created
      BY Zenon, <1>4 DEF SessionsStep
    <3>2. Cardinality(Reserving') = Cardinality(Reserving) + 1
      BY Zenon, <2>6, Sizes, FS_AddElement
    <3>3. Cardinality(SessionIds \ Created) > Cardinality(Reserving)
      BY Zenon, <1>1 DEF Room, Reserving
    <3> QED
      BY <3>1, <3>2, <3>3, Sizes, ServiceAssumption DEF RoomInv
  <2>8. SessionInv'
    BY Zenon, <1>4, SessionsKept DEF LoginStart, IInv, SessionInv
  <2> QED
    BY Zenon, <1>3, <2>5, <2>7, <2>8 DEF LoginStart, IInv, UserInv, Requested
<1> QED
  BY Zenon, <1>1, <1>3, <1>5, <1>6

LEMMA LoginVerifyStep ==
    ASSUME IInv, NEW r \in Requests, LoginVerify(r)
    PROVE  /\ IInv'
           /\ \/ BlocksKept(buckets, buckets', request[r].now)
              \/ /\ buckets' = Without(buckets, request[r].name)
                 /\ request'[r].pc = "create"
<1> DEFINE q == request[r]
           n == [pc |-> "create", now |-> q.now, hash |-> user.hash, version |-> user.changedAt]
<1>1. q \in LoginReq /\ q.pc = "login" /\ q.now \in Nat
  BY Shape DEF LoginVerify, At, IInv, LoginReq
<1>2. Throttle(buckets)
  BY Zenon DEF IInv
<1>3. SessionsStep
  BY Zenon, SameSessions DEF LoginVerify
<1>4. CASE buckets' \in RecordFailure(buckets, q.name, q.source, q.now) /\ Ends(r)
  <2>1. Throttle(buckets') /\ BlocksKept(buckets, buckets', q.now)
    BY Zenon, <1>1, <1>2, <1>4, FailureMap
  <2> QED
    BY Zenon, <1>3, <1>4, <2>1, ClosingStep DEF LoginVerify, IInv, SessionInv
<1>5. CASE buckets' = RecordSuccess(buckets, q.name) /\ Goes(r, n)
  <2>1. Throttle(buckets') /\ buckets' = Without(buckets, q.name)
    BY Zenon, <1>2, <1>5, WithoutMap DEF RecordSuccess
  <2>2. user.hash \in Hashes /\ user.changedAt \in Nat
    BY Zenon DEF IInv, UserInv, User, Hashes
  <2>3. n \in Request
    BY Zenon, <1>1, <2>2 DEF Request, CreateReq
  <2>4. RequestInv(r, n, Created', clock', user', userLock') /\ n.pc = "create" /\ Goes(r, n)
    BY Zenon, <1>5, <2>3 DEF RequestInv, HoldsSession
  <2> HIDE DEF n
  <2>5. Calm(r)
    BY Zenon, <1>3, StillCalm DEF LoginVerify, SessionsStep
  <2>6. Requested
    BY Zenon, <2>4, <2>5, OneRequest
  <2>7. RoomInv'
    BY Zenon, <1>1, <1>3, <2>4, RoomKept DEF SessionsStep
  <2>8. SessionInv'
    BY Zenon, <1>3, SessionsKept DEF LoginVerify, IInv, SessionInv
  <2>9. request'[r].pc = "create"
    BY Zenon, <2>4 DEF Goes, IInv
  <2> QED
    BY Zenon, <2>1, <2>6, <2>7, <2>8, <2>9 DEF LoginVerify, IInv, UserInv, Requested
<1> QED
  BY Zenon, <1>4, <1>5 DEF LoginVerify

\* CreateSession: there is room, and the new session takes a fresh id.
LEMMA CreateSessionStep ==
    ASSUME IInv, NEW r \in Requests, CreateSession(r)
    PROVE  IInv' /\ \A s \in Created : Worn(sessions[s], sessions'[s])
<1> DEFINE q == request[r]
           id == Cardinality(Created) + 1
           new == [version |-> q.version, created |-> q.now, activity |-> q.now,
                   expires |-> q.now + SessionTTL, revoked |-> FALSE]
           n == [pc |-> "report", now |-> q.now, session |-> id]
<1>1. q \in CreateReq /\ q.pc = "create"
  BY Zenon, Shape DEF CreateSession, At, IInv
<1>2. CASE Ends(r) /\ UNCHANGED sessions
  BY Zenon, <1>2, EndStep, SameSessions DEF CreateSession, SessionsStep
<1>3. CASE sessions' = [sessions EXCEPT ![id] = new] /\ Goes(r, n)
  <2>1. r \in Reserving
    BY Zenon, <1>1 DEF Reserving
  <2>2. Cardinality(Reserving \ {r}) = Cardinality(Reserving) - 1
        /\ Cardinality(Reserving \ {r}) \in Nat
    BY Zenon, <2>1, Sizes, FS_RemoveElement, FS_CardinalityType
  <2>3. id \in SessionIds /\ id \notin Created /\ Created = 1..(id - 1) /\ id \in Nat
    BY <2>2, Sizes, ServiceAssumption DEF SessionIds
  <2> HIDE DEF id
  <2>4. new \in Session /\ new.activity < new.expires
    <3> DEFINE e == q.now + SessionTTL
    <3>1. q.version \in Nat /\ q.now \in Nat /\ e \in Nat /\ q.now < e
      BY <1>1, ServiceAssumption DEF CreateReq
    <3> HIDE DEF e
    <3>2. [version |-> q.version, created |-> q.now, activity |-> q.now,
           expires |-> e, revoked |-> FALSE] \in Session
      BY Zenon, <3>1 DEF Session
    <3> QED
      BY Zenon, <3>1, <3>2 DEF e
  <2>5. new # None
    BY Zenon, <2>4, ServiceAssumption
  <2> HIDE DEF new
  <2>6. /\ sessions' \in [SessionIds -> Session \union {None}]
        /\ sessions'[id] = new
        /\ \A s \in SessionIds \ {id} : sessions'[s] = sessions[s]
    BY Zenon, <1>3, <2>3, <2>4 DEF IInv, SessionInv
  <2>7. Created' = Created \union {id}
    BY Zenon, <2>3, <2>5, <2>6 DEF Created
  <2>8. \A s \in Created : sessions'[s] = sessions[s]
    BY Zenon, <2>3, <2>6 DEF Created
  <2>9. \A s \in Created : Worn(sessions[s], sessions'[s])
    BY Zenon, <2>8, CreatedSession, SameSession
  <2>10. SessionInv'
    BY Zenon, <2>4, <2>6, <2>7, <2>8 DEF SessionInv, IInv, CreateSession
  <2>11. n \in Request /\ n.pc = "report" /\ n.session = id
    BY Zenon, <1>1, <2>3 DEF Request, ReportReq, CreateReq
  <2>12. Goes(r, n)
    BY Zenon, <1>3
  <2> HIDE DEF n
  <2>13. RequestInv(r, n, Created', clock', user', userLock')
    BY Zenon, <2>7, <2>11 DEF RequestInv
  <2>14. Calm(r)
    BY Zenon, <2>7, StillCalm DEF CreateSession
  <2>15. Requested
    BY Zenon, <2>12, <2>13, <2>14, OneRequest
  <2>16. RoomInv'
    <3>1. Reserving' = Reserving \ {r}
      BY Zenon, <2>11, <2>12 DEF Reserving, Goes, IInv
    <3>2. Created' = 1..id
      BY <2>3, <2>7, ServiceAssumption DEF SessionIds
    <3>3. Cardinality(1..id) = id
      BY <2>3, FS_Interval
    <3>4. id = Cardinality(Created) + 1
      BY Zenon DEF id
    <3> QED
      BY <2>2, <3>1, <3>2, <3>3, <3>4, Sizes, ServiceAssumption DEF RoomInv
  <2> QED
    BY Zenon, <2>9, <2>10, <2>15, <2>16 DEF CreateSession, IInv, UserInv, Requested
<1> QED
  BY Zenon, <1>2, <1>3 DEF CreateSession

LEMMA RestartStep ==
    ASSUME IInv, Restart
    PROVE  IInv' /\ SessionsStep /\ user' = user
<1>1. user' = user
  BY Zenon, ServiceAssumption DEF Restart, BootstrapAdmin, IInv, UserInv
<1>2. SessionsStep
  BY Zenon, SameSessions DEF Restart
<1>3. Idle \in BareReq
  BY Zenon DEF Idle, BareReq
<1>4. Requested
  <2>1. \A x \in Requests : RequestInv(x, Idle, Created', clock', user', userLock')
    BY Zenon, <1>3, IdleRequest
  <2>2. Idle \in Request
    BY Zenon, <1>3 DEF Request
  <2> QED
    BY Zenon, <2>1, <2>2 DEF Requested, Restart
<1>5. Reserving' = {}
  BY Zenon DEF Reserving, Restart, Idle
<1>6. RoomInv'
  <2>1. Created' = Created
    BY Zenon, <1>2 DEF SessionsStep
  <2> QED
    BY <1>5, <2>1, Sizes, FS_EmptySet, ServiceAssumption DEF RoomInv
<1>7. SessionInv'
  BY Zenon, <1>2, SessionsKept DEF Restart, IInv, SessionInv
<1>8. Throttle(buckets')
  <2>1. buckets' = <<>> /\ DOMAIN buckets' = {}
    BY DEF Restart
  <2>2. buckets' = [k \in {} |-> buckets'[k]]
    BY <2>1
  <2> QED
    BY <2>1, <2>2, FS_EmptySet, PolicyAssumption DEF Throttle
<1> QED
  BY Zenon, <1>1, <1>2, <1>4, <1>6, <1>7, <1>8 DEF Restart, IInv, UserInv, Requested

\* Time passing, and stuttering.
LEMMA TickStep ==
    ASSUME IInv, Tick \/ UNCHANGED vars
    PROVE  IInv' /\ SessionsStep
<1>1. UNCHANGED <<user, sessions, request, userLock, doomed, buckets, issued>>
  BY Zenon DEF Tick, vars
<1>2. clock \in Nat /\ clock' \in Nat /\ clock <= clock'
  BY DEF Tick, vars, IInv
<1>3. SessionsStep
  BY Zenon, <1>1, SameSessions
<1>4. \A r : Calm(r)
  BY <1>1, <1>2, <1>3 DEF Calm, IInv, UserInv, User, SessionsStep
<1>5. \A x \in Requests : RequestInv(x, request[x], Created', clock', user', userLock')
  <2> TAKE x \in Requests
  <2>1. Calm(None) /\ x # None
    BY Zenon, <1>4, ServiceAssumption
  <2> QED
    BY Zenon, <2>1, OthersKeep
<1>6. RoomInv'
  <2>1. Created' = Created /\ Reserving' = Reserving
    BY Zenon, <1>1, <1>3 DEF SessionsStep, Reserving
  <2> QED
    BY Zenon, <2>1 DEF IInv, RoomInv
<1>7. SessionInv'
  BY Zenon, <1>1, <1>3, SessionsKept DEF IInv, SessionInv
<1> QED
  BY Zenon, <1>1, <1>2, <1>3, <1>5, <1>6, <1>7 DEF IInv, UserInv
-----------------------------------------------------------------------------
(* The theorems *)

\* What the actions do together: the invariant is kept, sessions only end, and
\* the user's row changes only by a password change that verified it.
LEMMA EveryStep ==
    ASSUME IInv, [Next]_vars
    PROVE  /\ IInv'
           /\ \A s \in Created : Worn(sessions[s], sessions'[s])
<1>1. ASSUME SessionsStep PROVE \A s \in Created : Worn(sessions[s], sessions'[s])
  BY Zenon, <1>1 DEF SessionsStep
<1>2. ASSUME sessions' = sessions PROVE \A s \in Created : Worn(sessions[s], sessions'[s])
  BY Zenon, <1>1, <1>2, SameSessions
<1>3. CASE Restart \/ Tick \/ UNCHANGED vars
  BY Zenon, <1>1, <1>3, RestartStep, TickStep
<1>4. ASSUME NEW r \in Requests, LoginStart(r) \/ AuthFind(r) \/ Logout(r) \/ Step(r)
      PROVE  IInv' /\ \A s \in Created : Worn(sessions[s], sessions'[s])
  <2>1. CASE LoginStart(r)
    BY Zenon, <1>2, <2>1, LoginStartStep DEF LoginStart
  <2>2. CASE LoginVerify(r)
    BY Zenon, <1>2, <2>2, LoginVerifyStep DEF LoginVerify
  <2>3. CASE CreateSession(r)
    BY Zenon, <2>3, CreateSessionStep
  <2>4. CASE LoginReport(r)
    BY Zenon, <1>2, <2>4, LoginReportStep DEF LoginReport
  <2>5. CASE LoginUndo(r) \/ LoginLast(r)
    BY Zenon, <1>1, <2>5, LoginUndoStep, LoginLastStep
  <2>6. CASE AuthFind(r)
    BY Zenon, <1>2, <2>6, AuthFindStep DEF AuthFind
  <2>7. CASE AuthUser(r)
    BY Zenon, <1>2, <2>7, AuthUserStep DEF AuthUser
  <2>8. CASE AuthTouch(r)
    BY Zenon, <1>1, <2>8, AuthTouchStep
  <2>9. CASE Dispatch(r)
    BY Zenon, <1>2, <2>9, DispatchStep DEF Dispatch
  <2>10. CASE PasswordCheck(r)
    BY Zenon, <1>2, <2>10, PasswordCheckStep DEF PasswordCheck
  <2>11. CASE PasswordUpdate(r)
    BY Zenon, <1>2, <2>11, PasswordUpdateStep DEF PasswordUpdate
  <2>12. CASE PasswordCommit(r)
    BY Zenon, <1>1, <2>12, PasswordCommitStep
  <2>13. CASE PasswordAbort(r)
    BY Zenon, <1>2, <2>13, PasswordAbortStep DEF PasswordAbort
  <2>14. CASE RevokeUser(r) \/ RevokeFind(r) \/ RevokeAsk(r) \/ RevokeAllAsk(r)
    BY Zenon, <1>2, <2>14, RevokeQuietStep DEF RevokeUser, RevokeFind, RevokeAsk, RevokeAllAsk
  <2>15. CASE RevokeApply(r) \/ RevokeAllApply(r) \/ Logout(r)
    BY Zenon, <1>1, <2>15, RevokeApplyStep, RevokeAllApplyStep, LogoutStep
  <2> QED
    BY Zenon, <1>4, <2>1, <2>2, <2>3, <2>4, <2>5, <2>6, <2>7, <2>8, <2>9, <2>10, <2>11, <2>12,
       <2>13, <2>14, <2>15 DEF Step
<1> QED
  BY Zenon, <1>3, <1>4 DEF Next

\* The inductive invariant: what a goroutine has read is never newer than what is
\* stored, and the sessions it holds exist (service.go, identity.go).
THEOREM IdentityInvariant == Spec => []IInv
<1>1. Init => IInv
  <2> SUFFICES ASSUME Init PROVE IInv
    BY Zenon
  <2>1. UserInv
    <3> DEFINE h == <<Initial, 1>>
    <3>1. user = [hash |-> h, changedAt |-> 1, required |-> TRUE]
      BY Zenon DEF Init, BootstrapAdmin, Hash
    <3>2. h \in Passwords \X Nat /\ h[2] = 1
      BY Zenon DEF Passwords
    <3> HIDE DEF h
    <3> QED
      BY Zenon, <3>1, <3>2 DEF UserInv, User
  <2>2. Created = {}
    BY Zenon DEF Init, Created
  <2>3. SessionInv
    BY Zenon, <2>2 DEF Init, SessionInv
  <2>4. Reserving = {}
    BY Zenon DEF Init, Reserving, Idle
  <2>5. RoomInv
    BY <2>2, <2>4, FS_EmptySet, ServiceAssumption DEF RoomInv
  <2>6. Idle \in BareReq /\ Idle \in Request
    BY Zenon DEF Idle, BareReq, Request
  <2>7. request \in [Requests -> Request]
    BY Zenon, <2>6 DEF Init
  <2>8. \A r \in Requests : RequestInv(r, request[r], Created, clock, user, userLock)
    <3>1. \A r \in Requests : request[r] = Idle
      BY Zenon DEF Init
    <3> QED
      BY Zenon, <2>6, <3>1, IdleRequest
  <2>9. Throttle(buckets)
    <3>1. buckets = <<>> /\ DOMAIN buckets = {}
      BY DEF Init
    <3>2. buckets = [k \in {} |-> buckets[k]]
      BY <3>1
    <3> QED
      BY <3>1, <3>2, FS_EmptySet, PolicyAssumption DEF Throttle
  <2> QED
    BY Zenon, <2>1, <2>3, <2>5, <2>7, <2>8, <2>9 DEF Init, IInv
<1>2. IInv /\ [Next]_vars => IInv'
  BY Zenon, EveryStep
<1> QED
  BY <1>1, <1>2, PTL DEF Spec

\* Nobody is admitted on credentials that were replaced before the request began,
\* for any number of concurrent requests and password changes (Authenticate).
THEOREM AdmissionSafety == Spec => []AdmissionIsCurrent
<1>1. IInv => AdmissionIsCurrent
  BY Zenon DEF IInv, RequestInv, AdmissionIsCurrent, At
<1> QED
  BY <1>1, IdentityInvariant, PTL

\* Access that ended does not come back: sessions only end, and the password row
\* is replaced only by a change that verified the very hash it replaces (Touch,
\* RevokeAll, ChangePassword, BootstrapAdmin).
THEOREM NoRevival == Spec => NothingIsRevived
<1>1. IInv /\ [Next]_vars =>
        [\A s \in Created :
            LET old == sessions[s]
                new == sessions'[s]
            IN /\ \A f \in DOMAIN old \ {"activity", "revoked"} : new[f] = old[f]
               /\ old.revoked => new = old
               /\ new.activity >= old.activity /\ new.activity < new.expires]_vars
  BY Zenon, EveryStep DEF Worn
<1>2. IInv /\ [Next]_vars =>
        [user' # user =>
            /\ user'.changedAt > user.changedAt /\ ~user'.required
            /\ userLock # None /\ request[userLock].hash = user.hash]_vars
  <2> SUFFICES ASSUME IInv, [Next]_vars, user' # user
               PROVE  /\ user'.changedAt > user.changedAt /\ ~user'.required
                      /\ userLock # None /\ request[userLock].hash = user.hash
    BY Zenon
  <2>1. ~Restart
    BY Zenon, RestartStep
  <2>2. PICK r \in Requests : LoginStart(r) \/ AuthFind(r) \/ Logout(r) \/ Step(r)
    BY Zenon, <2>1 DEF Next, vars, Tick
  <2>3. PasswordCommit(r)
    BY Zenon, <2>2 DEF LoginStart, AuthFind, Logout, Step, LoginVerify,
       CreateSession, LoginReport, LoginUndo, LoginLast, AuthUser, AuthTouch, Dispatch,
       PasswordCheck, PasswordUpdate, PasswordAbort, RevokeUser, RevokeFind, RevokeAsk,
       RevokeApply, RevokeAllAsk, RevokeAllApply
  <2> QED
    BY Zenon, <2>3, PasswordCommitStep, ServiceAssumption
<1> QED
  BY <1>1, <1>2, IdentityInvariant, PTL
     DEF Spec, NothingIsRevived, SessionsOnlyEnd, CredentialsMoveForward

\* A block outlasts everything that is counted or evicted meanwhile, and the map of
\* buckets keeps its bound, for any number of names and sources
\* (login_protection.go).
THEOREM BlocksHold == Spec => BlockHolds
<1> DEFINE Kept(k) ==
             BlockedAt(buckets[k], clock) =>
                \/ k \in DOMAIN buckets' /\ buckets'[k].until = buckets[k].until
                \/ \E r \in Requests : At(r, "login") /\ request'[r].pc = "create" /\ request[r].name = k
                \/ Restart
<1>1. ASSUME IInv, [Next]_vars, NEW k \in DOMAIN buckets
      PROVE  Kept(k)
  <2> SUFFICES ASSUME BlockedAt(buckets[k], clock)
               PROVE  \/ k \in DOMAIN buckets' /\ buckets'[k].until = buckets[k].until
                      \/ \E r \in Requests : At(r, "login") /\ request'[r].pc = "create" /\ request[r].name = k
                      \/ Restart
    BY Zenon
  <2>1. CASE Restart
    BY Zenon, <2>1
  <2>2. ASSUME NEW r \in Requests, LoginStart(r)
        PROVE  k \in DOMAIN buckets' /\ buckets'[k].until = buckets[k].until
    BY Zenon, <1>1, <2>2, LoginStartStep DEF BlocksKept
  <2>3. ASSUME NEW r \in Requests, LoginVerify(r)
        PROVE  \/ k \in DOMAIN buckets' /\ buckets'[k].until = buckets[k].until
               \/ At(r, "login") /\ request'[r].pc = "create" /\ request[r].name = k
    <3>1. At(r, "login")
      BY Zenon, <2>3 DEF LoginVerify
    <3>2. request[r].now \in Nat /\ request[r].now <= clock /\ clock \in Nat
      BY Zenon, <1>1, <3>1, Shape DEF At, IInv, RequestInv, LoginReq
    <3>3. BlockedAt(buckets[k], request[r].now)
      BY <1>1, <3>2 DEF BlockedAt, IInv, Throttle, Bucket
    <3>4. CASE BlocksKept(buckets, buckets', request[r].now)
      BY Zenon, <3>3, <3>4 DEF BlocksKept
    <3>5. CASE buckets' = Without(buckets, request[r].name) /\ request'[r].pc = "create"
      BY Zenon, <3>1, <3>5 DEF Without, Restrict
    <3> QED
      BY Zenon, <1>1, <2>3, <3>4, <3>5, LoginVerifyStep
  <2>4. CASE UNCHANGED buckets
    BY Zenon, <2>4
  <2>5. \/ Restart \/ UNCHANGED buckets
        \/ \E r \in Requests : LoginStart(r) \/ LoginVerify(r)
    BY Zenon, <1>1 DEF Next, vars, Tick, AuthFind, Logout, Step,
       CreateSession, LoginReport, LoginUndo, LoginLast, AuthUser, AuthTouch, Dispatch,
       PasswordCheck, PasswordUpdate, PasswordCommit, PasswordAbort, RevokeUser, RevokeFind,
       RevokeAsk, RevokeApply, RevokeAllAsk, RevokeAllApply
  <2> QED
    BY Zenon, <2>1, <2>2, <2>3, <2>4, <2>5
<1>2. IInv /\ [Next]_vars =>
        [/\ Cardinality(DOMAIN buckets') <= MaxTrackedKeys
         /\ \A k \in DOMAIN buckets : Kept(k)]_vars
  <2> HIDE DEF Kept
  <2> SUFFICES ASSUME IInv, [Next]_vars
               PROVE  /\ Cardinality(DOMAIN buckets') <= MaxTrackedKeys
                      /\ \A k \in DOMAIN buckets : Kept(k)
    BY Zenon
  <2>1. IInv'
    BY Zenon, EveryStep
  <2> QED
    BY Zenon, <1>1, <2>1 DEF IInv, Throttle
<1> QED
  BY <1>1, <1>2, IdentityInvariant, PTL DEF Spec, BlockHolds
=============================================================================
