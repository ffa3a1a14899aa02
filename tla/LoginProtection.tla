--------------------------- MODULE LoginProtection ---------------------------
(***************************************************************************)
(* The login throttle (identity/auth/login_protection.go): one bucket of   *)
(* failures per account name and one per source address, in memory, in a   *)
(* map of bounded size. A bucket is forgotten when its failure window or   *)
(* its block is over, or, while it is not blocked, to make room.           *)
(*                                                                         *)
(* A key stands for the digest of a normalised name or address. Go visits  *)
(* a map in any order, so an operator that may evict returns the set of    *)
(* maps it can leave behind. Time 0 is the zero time.                      *)
(***************************************************************************)
EXTENDS Integers, FiniteSets, Functions

CONSTANTS
    FailureWindow, AccountFailureLimit, SourceFailureLimit, BlockDuration,
    MaxTrackedKeys

\* LoginProtectionPolicy.validate, its minutes and its 128 keys scaled down.
ASSUME PolicyAssumption ==
    /\ FailureWindow \in Nat \ {0} /\ BlockDuration \in Nat \ {0}
    /\ AccountFailureLimit \in Nat /\ AccountFailureLimit >= 2
    /\ SourceFailureLimit \in Nat /\ SourceFailureLimit >= AccountFailureLimit
    /\ MaxTrackedKeys \in Nat \ {0}

NoFailures == [start |-> 0, failures |-> 0, until |-> 0, touched |-> 0]

BlockedAt(bucket, now) == bucket.until # 0 /\ now < bucket.until

normalizeBucket(bucket, now) ==
    IF \/ bucket.until # 0 /\ now >= bucket.until
       \/ bucket.until = 0 /\ bucket.start # 0 /\ now >= bucket.start + FailureWindow
    THEN NoFailures ELSE bucket

BucketOf(buckets, key) == IF key \in DOMAIN buckets THEN buckets[key] ELSE NoFailures

Put(buckets, key, bucket) ==
    [k \in DOMAIN buckets \union {key} |-> IF k = key THEN bucket ELSE buckets[k]]

Without(buckets, key) == Restrict(buckets, DOMAIN buckets \ {key})

\* The map a look at a key leaves: an outdated bucket goes, another is touched.
Looked(buckets, key, now) ==
    LET bucket == normalizeBucket(BucketOf(buckets, key), now)
    IN IF key \notin DOMAIN buckets THEN buckets
       ELSE IF bucket.failures = 0 /\ bucket.until = 0 THEN Without(buckets, key)
       ELSE Put(buckets, key, [bucket EXCEPT !.touched = now])

blockedLocked(buckets, key, now) == BlockedAt(BucketOf(Looked(buckets, key, now), key), now)

\* Mutant of Evictable: a blocked bucket may be the oldest too.
EvictableBlocked(buckets, now) ==
    {k \in DOMAIN buckets : \A j \in DOMAIN buckets : buckets[k].touched <= buckets[j].touched}

Evictable(buckets, now) ==
    LET normalized == [k \in DOMAIN buckets |-> normalizeBucket(buckets[k], now)]
        outdated == {k \in DOMAIN buckets : normalized[k].failures = 0 /\ normalized[k].until = 0}
        open == {k \in DOMAIN buckets : ~BlockedAt(normalized[k], now)}
    IN IF outdated # {} THEN outdated
       ELSE {k \in open : \A j \in open : normalized[k].touched <= normalized[j].touched}

\* When nothing can be evicted the bucket is not kept.
putBucketLocked(buckets, key, bucket, now) ==
    IF key \in DOMAIN buckets \/ Cardinality(DOMAIN buckets) < MaxTrackedKeys
    THEN {Put(buckets, key, bucket)}
    ELSE IF Evictable(buckets, now) = {} THEN {buckets}
    ELSE {Put(Without(buckets, old), key, bucket) : old \in Evictable(buckets, now)}

recordFailureLocked(buckets, key, limit, now) ==
    LET bucket == normalizeBucket(BucketOf(buckets, key), now)
        counted == [start |-> IF bucket.start = 0 THEN now ELSE bucket.start,
                    failures |-> bucket.failures + 1,
                    until |-> IF bucket.failures + 1 >= limit THEN now + BlockDuration
                              ELSE bucket.until,
                    touched |-> now]
    IN putBucketLocked(buckets, key,
           IF BlockedAt(bucket, now) THEN [bucket EXCEPT !.touched = now] ELSE counted, now)

Blocked(buckets, account, source, now) ==
    \/ blockedLocked(buckets, account, now)
    \/ blockedLocked(Looked(buckets, account, now), source, now)

AfterBlocked(buckets, account, source, now) ==
    Looked(Looked(buckets, account, now), source, now)

RecordFailure(buckets, account, source, now) ==
    UNION {recordFailureLocked(b, source, SourceFailureLimit, now) :
             b \in recordFailureLocked(buckets, account, AccountFailureLimit, now)}

RecordSuccess(buckets, account) == Without(buckets, account)
=============================================================================
