---------------------- MODULE OrchestrationServerProofs ----------------------
(***************************************************************************)
(* Proofs about OrchestrationServer for any Changes, any actors, any risks *)
(* and any failures of the calls to the database: a Change ends only as    *)
(* its Job ended, and what the server holds in memory is backed by the     *)
(* stored row.                                                             *)
(*                                                                         *)
(* The argument: Sound says of one Change that its machine in memory, its  *)
(* stored row and its Job fit together. The row never runs ahead of        *)
(* memory, both were let through by the policy once they passed            *)
(* pending_approval, and neither is in a terminal state other than the     *)
(* status of the Job. A terminal state comes from a copy of the Job that   *)
(* reconcileJob follows; a copy may be old, but one that says the Job      *)
(* ended is never wrong, for an ended Job does not move (CopiesAreFinal).  *)
(* A row left behind by a failed write is held by the reconciliation's     *)
(* candidates (LaggingRowIsTracked). A crash loses memory and keeps rows,  *)
(* so what New restores must again be Sound: that is the lemma Replays.    *)
(*                                                                         *)
(* A database call is a set of results, so a step is one result per call.  *)
(* Each call gets a lemma that keeps Sound for one Change, and OneChange   *)
(* lifts it to all.                                                        *)
(***************************************************************************)
EXTENDS OrchestrationServer, FiniteSetTheorems, TLAPS

\* Approval machines (change.Machine).
Machine == [state : States, version : Nat, approvals : Seq(Actors), risk : Risks]

\* Rows of cc_changes together with their approvals.
Row == [state : States, version : Nat, approvals : Seq(Actors), risk : Risks, hasJob : BOOLEAN]

\* What the server's map holds of a Change.
Record == [machine : Machine, hasJob : BOOLEAN, input : {"raw", "stored"}]

\* Types of the server's state, the rows and the Jobs.
TypeOK ==
    /\ up \in {"down", "starting", "up", "failed", "refused"}
    /\ changes \in [Changes -> Record]
    /\ tracked \subseteq Changes
    /\ rows \in [Changes -> Row]
    /\ jobs \in [Changes -> Life!Life]
    /\ admitted \in [Changes -> {"none", "raw", "stored"}]
    /\ loop \in [change : Changes \cup {"none"}, status : Life!Statuses]
    /\ cancelling \subseteq Changes

\* The states of a Change that its policy let through.
Decided == {"approved", "queued", "executing", "verifying", "succeeded", "failed", "cancelled"}

\* The policy allows the risk and the approvals suffice for it (Evaluate,
\* CheckApprovals).
Backed(risk, approvals) == InitialState(risk) # "rejected" /\ CheckApprovals(risk, approvals)

\* What holds of one Change: its record in memory, its row, and its Job's
\* status and input, with the process in state u.
Sound(u, record, row, status, input) ==
    LET m == record.machine
    IN /\ input = "none" <=> status = "absent"
       /\ row.state \in Decided => Backed(row.risk, row.approvals)
       /\ m.state \in Decided => Backed(m.risk, m.approvals)
       /\ row.state = "pending_approval" => InitialState(row.risk) # "rejected"
       /\ m.state = "pending_approval" => InitialState(m.risk) # "rejected"
       /\ row.state # "absent" => row.version > 0
       /\ status # "absent" => row.state \in Decided /\ m.state \in Decided \cup {"absent"}
       /\ m.state # "absent" => row.version \in 1..m.version
       /\ m.state = "absent" => ~record.hasJob
       /\ row.state \in Life!TerminalStatuses => status = row.state
       /\ m.state \in Life!TerminalStatuses => status = m.state
       /\ u = "starting" /\ m.state = "approved" /\ ~record.hasJob => row.state = "approved"

\* A copy of a Job that ended is never stale: neither the one the worker loop
\* or the sweep holds, nor the one cancelJob goes on with.
CopiesAreFinal ==
    /\ \A c \in Changes : loop.change = c /\ loop.status \in Life!TerminalStatuses
                             => jobs[c].status = loop.status
    /\ \A c \in cancelling : jobs[c].status = "cancelled"

\* The inductive invariant.
ServerInv ==
    /\ TypeOK
    /\ CopiesAreFinal
    /\ LaggingRowIsTracked
    /\ \A c \in Changes : Sound(up, changes[c], rows[c], jobs[c].status, admitted[c])

-----------------------------------------------------------------------------

\* Every nonempty set of naturals has a least element: the induction that the
\* proofs below use.
LEMMA LeastNumber ==
    ASSUME NEW T \in SUBSET Nat, T # {}
    PROVE  \E n \in T : \A o \in T : n <= o
<1> DEFINE Less == OpToRel(<, Nat)
<1>1. IsWellFoundedOn(Less, Nat)
  BY Zenon, NatLessThanWellFounded
<1>2. PICK n \in T : \A o \in T : <<o, n>> \notin Less
  <2> HIDE DEF Less
  <2> QED BY <1>1, WFMin, Zenon
<1>3. ASSUME NEW o \in T  PROVE  n <= o
  <2>1. <<o, n>> \notin {ss \in Nat \X Nat : ss[1] < ss[2]}
    BY Zenon, <1>2 DEF OpToRel
  <2>2. ~(o < n)
    BY Zenon, <2>1
  <2> QED BY <2>2
<1> QED BY Zenon, <1>3

\* Sequences of one length with the same elements are the same.
LEMMA SameSequence ==
    ASSUME NEW S, NEW s \in Seq(S), NEW t \in Seq(S), Len(s) = Len(t),
           \A i \in 1..Len(s) : s[i] = t[i]
    PROVE  s = t
<1>1. s \in [1..Len(s) -> S] /\ t \in [1..Len(s) -> S]
  OBVIOUS
<1> QED BY <1>1

\* The concatenations that Towards makes, written out.
LEMMA Steps ==
    /\ <<"executing">> \o <<"failed">> = <<"executing", "failed">>
    /\ <<"executing">> \o <<"verifying">> \o <<"succeeded">>
         = <<"executing", "verifying", "succeeded">>
    /\ <<"queued", "executing", "verifying">> \o <<"succeeded">>
         = <<"queued", "executing", "verifying", "succeeded">>
<1> DEFINE a == <<"executing">> \o <<"failed">>
           b == <<"executing">> \o <<"verifying">> \o <<"succeeded">>
           c == <<"queued", "executing", "verifying">> \o <<"succeeded">>
           a1 == <<"executing", "failed">>
           b1 == <<"executing", "verifying", "succeeded">>
           c1 == <<"queued", "executing", "verifying", "succeeded">>
<1>1. a \in Seq(States) /\ a1 \in Seq(States) /\ Len(a) = 2 /\ Len(a1) = 2
      /\ a[1] = a1[1] /\ a[2] = a1[2]
  BY DEF States
<1>2. b \in Seq(States) /\ b1 \in Seq(States) /\ Len(b) = 3 /\ Len(b1) = 3
      /\ b[1] = b1[1] /\ b[2] = b1[2] /\ b[3] = b1[3]
  BY DEF States
<1>3. c \in Seq(States) /\ c1 \in Seq(States) /\ Len(c) = 4 /\ Len(c1) = 4
      /\ c[1] = c1[1] /\ c[2] = c1[2] /\ c[3] = c1[3] /\ c[4] = c1[4]
  BY DEF States
<1>4. a = a1 /\ b = b1 /\ c = c1
  <2> HIDE DEF a, b, c, a1, b1, c1
  <2>1. a = a1
    BY <1>1, SameSequence
  <2>2. b = b1
    BY <1>2, SameSequence
  <2>3. c = c1
    BY <1>3, SameSequence
  <2> QED BY Zenon, <2>1, <2>2, <2>3
<1> QED BY <1>4, Zenon

\* The actors of a list of approvals are finitely many.
LEMMA ActorsAreFinite ==
    ASSUME NEW s \in Seq(Actors)
    PROVE  IsFiniteSet(Range(s)) /\ Range(s) \subseteq Actors
<1>1. IsFiniteSet(DOMAIN s)
  BY FS_Interval
<1>2. s \in Surjection(DOMAIN s, Range(s))
  BY DEF Range, Surjection
<1>3. IsFiniteSet(Range(s))
  BY <1>1, <1>2, FS_Surjection, Zenon
<1> QED BY <1>3 DEF Range

\* Further approvals never make a sufficient list insufficient
\* (CheckApprovals).
LEMMA MoreApprovalsCount ==
    ASSUME NEW risk \in Risks, NEW s \in Seq(Actors), NEW t \in Seq(Actors),
           Range(s) \subseteq Range(t), CheckApprovals(risk, s)
    PROVE  CheckApprovals(risk, t)
<1> DEFINE S == Range(s) \ {Requester}
           T == Range(t) \ {Requester}
<1>1. IsFiniteSet(T) /\ S \subseteq T
  <2>1. IsFiniteSet(Range(t))
    BY Zenon, ActorsAreFinite
  <2> QED BY Zenon, <2>1, FS_Subset
<1>2. /\ IsFiniteSet(S)
      /\ Cardinality(S) <= Cardinality(T)
  BY Zenon, <1>1, FS_Subset
<1>3. Cardinality(S) \in Nat /\ Cardinality(T) \in Nat
  BY Zenon, <1>1, <1>2, FS_CardinalityType
<1>4. Evaluate(risk).minimum \in Nat
  BY Zenon DEF Evaluate, Risks
<1>5. Cardinality(S) >= Evaluate(risk).minimum
  BY Zenon DEF CheckApprovals, CountedApprovals
<1>6. Cardinality(T) >= Evaluate(risk).minimum
  BY <1>2, <1>3, <1>4, <1>5
<1> QED BY Zenon, <1>6 DEF CheckApprovals, CountedApprovals

\* A risk that starts as approved needs no approval (Evaluate,
\* CheckApprovals).
LEMMA NothingIsAsked ==
    ASSUME NEW risk \in Risks, NEW s \in Seq(Actors), InitialState(risk) = "approved"
    PROVE  CheckApprovals(risk, s)
<1>1. Cardinality(Range(s) \ {Requester}) \in Nat
  BY Zenon, ActorsAreFinite, FS_Subset, FS_CardinalityType
<1>2. Evaluate(risk).minimum = 0
  BY DEF InitialState, Evaluate, Risks
<1> QED BY <1>1, <1>2 DEF CheckApprovals, CountedApprovals

\* The approvals table keeps what it has and gains the new actors (the INSERT
\* of persistApprovals, keyed by change and actor).
LEMMA MergedApprovals ==
    ASSUME NEW stored \in Seq(Actors), NEW approvals \in Seq(Actors)
    PROVE  /\ Merged(stored, approvals) \in Seq(Actors)
           /\ Range(stored) \subseteq Range(Merged(stored, approvals))
           /\ Range(approvals) \subseteq Range(Merged(stored, approvals))
<1> DEFINE Fresh == {k \in DOMAIN approvals :
                       /\ approvals[k] \notin Range(stored)
                       /\ \A h \in 1..(k - 1) : approvals[h] # approvals[k]}
           UpTo(k) == {h \in Fresh : h <= k}
           rank(k) == Cardinality(UpTo(k))
           count == Cardinality(Fresh)
           tail == [n \in 1..count |-> approvals[CHOOSE k \in Fresh : rank(k) = n]]
<1>1. Fresh \subseteq 1..Len(approvals)
  OBVIOUS
<1>2. IsFiniteSet(Fresh) /\ count \in Nat
  <2>1. IsFiniteSet(1..Len(approvals))
    BY FS_Interval
  <2> HIDE DEF Fresh
  <2> QED BY Zenon, <1>1, <2>1, FS_Subset, FS_CardinalityType
<1>3. ASSUME NEW k \in Fresh  PROVE  rank(k) \in 1..count
  <2>1. UpTo(k) \in SUBSET Fresh /\ k \in UpTo(k)
    BY <1>1
  <2>2. IsFiniteSet(UpTo(k)) /\ rank(k) <= count /\ rank(k) \in Nat
    BY Zenon, <2>1, <1>2, FS_Subset, FS_CardinalityType
  <2>3. rank(k) # 0
    BY Zenon, <2>1, <2>2, FS_EmptySet
  <2> QED BY <2>2, <2>3, <1>2
<1>4. ASSUME NEW k \in Fresh, NEW l \in Fresh, rank(k) = rank(l)  PROVE  k = l
  <2>1. ASSUME NEW a \in Fresh, NEW b \in Fresh, rank(a) = rank(b), a < b  PROVE  FALSE
    <3>1. UpTo(a) \in SUBSET UpTo(b) /\ b \in UpTo(b) /\ b \notin UpTo(a)
      BY <2>1, <1>1
    <3>2. IsFiniteSet(UpTo(b))
      BY Zenon, <1>2, FS_Subset
    <3> QED BY Zenon, <2>1, <3>1, <3>2, FS_Subset
  <2>2. k \in Int /\ l \in Int
    BY <1>1
  <2> HIDE DEF Fresh, rank
  <2> QED BY <2>1, <2>2, <1>4
<1> DEFINE f == [k \in Fresh |-> rank(k)]
<1>5. f \in Surjection(Fresh, 1..count)
  <2>1. f \in Injection(Fresh, 1..count)
    <3> HIDE DEF Fresh, rank, count
    <3> QED BY Zenon, <1>3, <1>4 DEF Injection, IsInjective
  <2>2. IsFiniteSet(1..count) /\ Cardinality(1..count) = count
    BY <1>2, FS_Interval
  <2> QED BY Zenon, <2>1, <2>2, FS_Injection
<1>6. ASSUME NEW n \in 1..count
      PROVE  (CHOOSE k \in Fresh : rank(k) = n) \in Fresh
  <2>1. \E k \in Fresh : rank(k) = n
    <3> HIDE DEF Fresh, rank, count
    <3> QED BY Zenon, <1>5 DEF Surjection
  <2> QED BY Zenon, <2>1
<1>7. tail \in Seq(Actors) /\ Len(tail) = count
  <2>1. \A k \in Fresh : approvals[k] \in Actors
    BY <1>1
  <2> HIDE DEF Fresh, rank, count
  <2>2. tail \in [1..count -> Actors]
    BY Zenon, <2>1, <1>6
  <2> HIDE DEF tail
  <2> QED BY <2>2, <1>2
<1>8. Merged(stored, approvals) = stored \o tail
  BY Zenon DEF Merged
<1> HIDE DEF tail
<1>9. Range(stored \o tail) = Range(stored) \cup Range(tail)
  <2>1. \A i \in DOMAIN stored : (stored \o tail)[i] = stored[i]
    BY <1>7
  <2>2. \A i \in DOMAIN tail : (stored \o tail)[Len(stored) + i] = tail[i]
    BY <1>7
  <2>3. \A i \in 1..(Len(stored) + Len(tail)) :
           i \in DOMAIN stored \/ i - Len(stored) \in DOMAIN tail
    BY <1>7
  <2>4. DOMAIN (stored \o tail) = 1..(Len(stored) + Len(tail))
    BY <1>7
  <2>5. \A i \in DOMAIN tail : Len(stored) + i \in 1..(Len(stored) + Len(tail))
    BY <1>7
  <2>6. \A i \in DOMAIN stored : i \in 1..(Len(stored) + Len(tail))
    BY <1>7
  <2>7. \A i \in Int : Len(stored) + (i - Len(stored)) = i
    OBVIOUS
  <2> QED BY <2>1, <2>2, <2>3, <2>4, <2>5, <2>6, <2>7 DEF Range
<1>10. Range(approvals) \subseteq Range(stored) \cup Range(tail)
  <2> SUFFICES ASSUME NEW i \in DOMAIN approvals, approvals[i] \notin Range(stored)
               PROVE  approvals[i] \in Range(tail)
    BY Zenon DEF Range
  <2> DEFINE Same == {k \in DOMAIN approvals : approvals[k] = approvals[i]}
  <2>1. PICK k \in Same : \A o \in Same : k <= o
    <3>1. Same \in SUBSET Nat /\ Same # {}
      OBVIOUS
    <3> HIDE DEF Same
    <3> QED BY Zenon, <3>1, LeastNumber
  <2>2. k \in Fresh
    BY <2>1
  <2>3. rank(k) \in 1..count
    BY Zenon, <1>3, <2>2
  <2>4. (CHOOSE l \in Fresh : rank(l) = rank(k)) = k
    <3> HIDE DEF Fresh, rank
    <3> QED BY Zenon, <1>4, <2>2
  <2>5. tail[rank(k)] = approvals[k] /\ rank(k) \in DOMAIN tail
    <3> HIDE DEF Fresh, rank, count
    <3> QED BY Zenon, <2>3, <2>4 DEF tail
  <2>6. approvals[k] = approvals[i]
    BY Zenon, <2>1
  <2> QED BY Zenon, <2>5, <2>6 DEF Range
<1> QED BY <1>7, <1>8, <1>9, <1>10

\* Replaying the stored approvals gives a machine that is approved only on
\* approvals that suffice, and approved if the stored ones do (restoreChange).
LEMMA ReplayedApprovals ==
    ASSUME NEW row \in Row
    PROVE  LET m == ReplayApprovals(row)
           IN /\ m \in Machine
              /\ m.risk = row.risk
              /\ m.version >= 1
              /\ m.state \in {"pending_approval", "approved", "rejected"}
              /\ m.state = "approved" => Backed(m.risk, m.approvals)
              /\ Backed(row.risk, row.approvals) => m.state = "approved"
<1> DEFINE initial == InitialState(row.risk)
           first(n) == SubSeq(row.approvals, 1, n)
           enough == {n \in 0..Len(row.approvals) : CheckApprovals(row.risk, first(n))}
           replayed == IF initial # "pending_approval" THEN 0
                       ELSE IF enough = {} THEN Len(row.approvals)
                       ELSE CHOOSE n \in enough : \A o \in enough : n <= o
           m == ReplayApprovals(row)
<1>1. row.risk \in Risks /\ row.approvals \in Seq(Actors)
  BY Zenon DEF Row
<1>0. m = [state |-> IF initial = "pending_approval" /\ enough # {} THEN "approved" ELSE initial,
           version |-> 1 + replayed, approvals |-> first(replayed), risk |-> row.risk]
  BY Zenon DEF ReplayApprovals
<1>2. /\ m.state = IF initial = "pending_approval" /\ enough # {} THEN "approved" ELSE initial
      /\ m.version = 1 + replayed
      /\ m.approvals = first(replayed)
      /\ m.risk = row.risk
      /\ m = [state |-> m.state, version |-> m.version, approvals |-> m.approvals,
              risk |-> m.risk]
  <2> HIDE DEF m, initial, enough, replayed, first
  <2> QED BY Zenon, <1>0
<1>3. initial \in {"pending_approval", "approved", "rejected"}
  BY Zenon DEF InitialState
<1>4. enough # {} => (CHOOSE n \in enough : \A o \in enough : n <= o) \in enough
  <2>1. enough \in SUBSET Nat
    OBVIOUS
  <2> HIDE DEF enough
  <2> QED BY Zenon, <2>1, LeastNumber
<1>5. replayed \in 0..Len(row.approvals)
  <2>1. Len(row.approvals) \in Nat
    BY <1>1
  <2>2. enough \subseteq 0..Len(row.approvals)
    BY Zenon
  <2>3. 0 \in 0..Len(row.approvals) /\ Len(row.approvals) \in 0..Len(row.approvals)
    BY <2>1
  <2> HIDE DEF enough, initial
  <2> QED BY <1>4, <2>2, <2>3, Zenon
<1>6. first(replayed) \in Seq(Actors)
  <2> HIDE DEF replayed
  <2> QED BY <1>1, <1>5
<1>7. m \in Machine /\ m.version >= 1
  <2> HIDE DEF m, replayed, initial, enough
  <2>1. m.state \in States /\ m.version \in Nat /\ m.version >= 1
    BY <1>2, <1>3, <1>5 DEF States
  <2> QED BY Zenon, <2>1, <1>1, <1>2, <1>6 DEF Machine
<1>8. m.state \in {"pending_approval", "approved", "rejected"}
  <2> HIDE DEF m, initial, enough
  <2> QED BY Zenon, <1>2, <1>3
<1>9. ASSUME m.state = "approved"  PROVE  Backed(m.risk, m.approvals)
  <2>1. CASE initial = "pending_approval"
    <3>1. enough # {} /\ replayed \in enough
      <4> HIDE DEF m, initial, enough
      <4> QED BY Zenon, <1>2, <1>4, <1>9, <2>1
    <3>2. CheckApprovals(row.risk, first(replayed))
      <4> HIDE DEF replayed
      <4> QED BY Zenon, <3>1
    <3> HIDE DEF m, replayed
    <3> QED BY Zenon, <2>1, <3>2, <1>2 DEF Backed
  <2>2. CASE initial # "pending_approval"
    <3>1. initial = "approved"
      <4> HIDE DEF m, initial, enough
      <4> QED BY Zenon, <1>2, <1>9, <2>2
    <3> HIDE DEF m, replayed
    <3> QED BY Zenon, <3>1, <1>1, <1>2, <1>6, NothingIsAsked DEF Backed
  <2> QED BY Zenon, <2>1, <2>2
<1>10. ASSUME Backed(row.risk, row.approvals)  PROVE  m.state = "approved"
  <2>1. first(Len(row.approvals)) = row.approvals /\ Len(row.approvals) \in Nat
    BY <1>1
  <2>2. CheckApprovals(row.risk, first(Len(row.approvals)))
    BY <2>1, <1>10, Zenon DEF Backed
  <2>4. Len(row.approvals) \in enough
    BY <2>1, <2>2
  <2>3. initial # "rejected"
    BY Zenon, <1>10 DEF Backed
  <2> HIDE DEF m, initial, enough
  <2> QED BY Zenon, <1>2, <1>3, <2>4, <2>3
<1> QED BY <1>2, <1>7, <1>8, <1>9, <1>10, Zenon

\* The machine after n transitions, the last one to the given state.
Reached(m, state, n) ==
    [state |-> state, version |-> m.version + n, approvals |-> m.approvals, risk |-> m.risk]

\* A walk makes all its transitions or stops at the first that Allowed refuses
\* (Machine.Transition).
LEMMA Walks ==
    ASSUME NEW m \in Machine, NEW steps \in Seq(States)
    PROVE  LET walk == Walk(m, steps)
               last == IF steps = <<>> THEN m.state ELSE steps[Len(steps)]
               made(i) == steps[i] \in Allowed(IF i = 1 THEN m.state ELSE steps[i - 1])
           IN /\ walk.ok \in BOOLEAN
              /\ walk.ok => walk.machine = Reached(m, last, Len(steps))
              /\ (\A i \in DOMAIN steps : made(i)) => walk.ok
              /\ steps # <<>> /\ ~made(1) => ~walk.ok /\ walk.machine = m
<1> DEFINE path == <<m.state>> \o steps
           Done == {i \in DOMAIN steps : \A h \in 1..i : path[h + 1] \in Allowed(path[h])}
           walk == Walk(m, steps)
           last == IF steps = <<>> THEN m.state ELSE steps[Len(steps)]
           made(i) == steps[i] \in Allowed(IF i = 1 THEN m.state ELSE steps[i - 1])
<1>0. walk = [machine |-> Reached(m, path[Cardinality(Done) + 1], Cardinality(Done)),
              ok |-> Cardinality(Done) = Len(steps)]
  BY Zenon DEF Walk, Reached
<1>1. /\ walk.machine = Reached(m, path[Cardinality(Done) + 1], Cardinality(Done))
      /\ walk.ok <=> Cardinality(Done) = Len(steps)
      /\ walk.ok \in BOOLEAN
  <2> HIDE DEF walk, Done, path
  <2> QED BY Zenon, <1>0
<1>2. m.state \in States /\ m.version \in Nat
  BY Zenon DEF Machine
<1>3. path[1] = m.state /\ \A i \in DOMAIN steps : path[i + 1] = steps[i]
  <2>1. \A i \in DOMAIN steps : i + 1 - 1 = i /\ i + 1 \in 1..(1 + Len(steps)) /\ i + 1 > 1
    OBVIOUS
  <2> QED BY <2>1, <1>2
<1>4. \A i \in DOMAIN steps : path[i] = IF i = 1 THEN m.state ELSE steps[i - 1]
  <2> SUFFICES ASSUME NEW i \in DOMAIN steps, i # 1  PROVE  path[i] = steps[i - 1]
    BY Zenon, <1>3
  <2>1. i - 1 \in DOMAIN steps /\ (i - 1) + 1 = i
    OBVIOUS
  <2> HIDE DEF path
  <2> QED BY Zenon, <2>1, <1>3
<1>5. \A h \in DOMAIN steps : path[h + 1] \in Allowed(path[h]) <=> made(h)
  <2> HIDE DEF path
  <2> QED BY <1>3, <1>4, Zenon
<1>6. IsFiniteSet(1..Len(steps)) /\ Cardinality(1..Len(steps)) = Len(steps)
      /\ DOMAIN steps = 1..Len(steps) /\ Len(steps) \in Nat
  <2>1. Len(steps) \in Nat /\ DOMAIN steps = 1..Len(steps)
    OBVIOUS
  <2> QED BY <2>1, FS_Interval
<1>7. path[Len(steps) + 1] = last
  <2>1. CASE steps = <<>>
    <3>1. Len(steps) + 1 = 1
      BY <2>1
    <3> HIDE DEF path
    <3> QED BY Zenon, <3>1, <2>1, <1>3
  <2>2. CASE steps # <<>>
    <3>1. Len(steps) \in DOMAIN steps
      BY <2>2
    <3> HIDE DEF path
    <3> QED BY Zenon, <3>1, <2>2, <1>3
  <2> QED BY Zenon, <2>1, <2>2
<1>8. walk.ok => walk.machine = Reached(m, last, Len(steps))
  <2> HIDE DEF walk, path, last, Done
  <2> QED BY Zenon, <1>1, <1>7
<1>9. ASSUME \A i \in DOMAIN steps : made(i)  PROVE  walk.ok
  <2>1. \A i \in DOMAIN steps : \A h \in 1..i : h \in DOMAIN steps
    OBVIOUS
  <2>2. Done = DOMAIN steps
    <3> HIDE DEF path, made
    <3> QED BY Zenon, <2>1, <1>5, <1>9
  <2> HIDE DEF Done, walk, path
  <2> QED BY Zenon, <2>2, <1>1, <1>6
<1>10. ASSUME steps # <<>>, ~made(1)  PROVE  ~walk.ok /\ walk.machine = m
  <2>1. 1 \in DOMAIN steps /\ Len(steps) # 0 /\ \A i \in DOMAIN steps : 1 \in 1..i
    BY <1>10
  <2>2. Done = {}
    <3> HIDE DEF path, made
    <3> QED BY Zenon, <2>1, <1>5, <1>10
  <2>3. Cardinality(Done) = 0
    BY Zenon, <2>2, FS_EmptySet
  <2>4. m = Reached(m, m.state, 0)
    BY DEF Machine, Reached
  <2> HIDE DEF Done, walk, path
  <2> QED BY <2>1, <2>3, <2>4, <1>1, <1>3
<1> QED BY <1>1, <1>8, <1>9, <1>10, Zenon

\* The transitions that reconcileJob tries, by state of the Change and status
\* of the Job.
LEMMA TowardsCases ==
    ASSUME NEW state \in States, NEW status \in Life!Statuses
    PROVE  Towards(state, status) =
             IF status = "cancelled"
             THEN IF state = "cancelled" THEN <<>> ELSE <<"cancelled">>
             ELSE IF status = "succeeded"
             THEN IF state = "queued" THEN <<"executing", "verifying", "succeeded">>
                  ELSE IF state = "executing" THEN <<"verifying", "succeeded">>
                  ELSE IF state = "succeeded" THEN <<>> ELSE <<"succeeded">>
             ELSE IF status = "failed"
             THEN IF state = "queued" THEN <<"executing", "failed">>
                  ELSE IF state = "failed" THEN <<>> ELSE <<"failed">>
             ELSE IF state = "queued" /\ status # "queued" THEN <<"executing">> ELSE <<>>
<1> DEFINE leave == IF state = "queued" /\ status # "queued" THEN <<"executing">> ELSE <<>>
           at    == IF leave = <<>> THEN state ELSE "executing"
           reach(to) == IF at = to THEN <<>> ELSE <<to>>
<1>0. Towards(state, status) =
        CASE status = "cancelled" -> IF state = "cancelled" THEN <<>> ELSE <<"cancelled">>
          [] status = "succeeded" ->
               leave \o (IF at = "executing" THEN <<"verifying">> ELSE <<>>) \o reach("succeeded")
          [] status = "failed"    -> leave \o reach("failed")
          [] OTHER                -> leave
  BY Zenon DEF Towards
<1>1. CASE status = "cancelled"
  BY Zenon, <1>0, <1>1
<1>2. CASE status = "succeeded"
  <2>1. Towards(state, status) =
          leave \o (IF at = "executing" THEN <<"verifying">> ELSE <<>>) \o reach("succeeded")
    <3> HIDE DEF leave, at, reach
    <3> QED BY Zenon, <1>0, <1>2
  <2>2. CASE state = "queued"
    <3>1. leave = <<"executing">> /\ at = "executing"
      BY Zenon, <1>2, <2>2
    <3>2. Towards(state, status) = <<"executing">> \o <<"verifying">> \o <<"succeeded">>
      <4> HIDE DEF leave, at
      <4> QED BY <2>1, <3>1, Zenon
    <3> QED BY Zenon, <2>2, <3>2, Steps, <1>2
  <2>3. CASE state # "queued"
    <3>1. leave = <<>> /\ at = state
      BY Zenon, <2>3
    <3> QED BY <2>1, <2>3, <3>1, <1>2
  <2> QED BY Zenon, <2>2, <2>3
<1>3. CASE status = "failed"
  <2>1. Towards(state, status) = leave \o reach("failed")
    <3> HIDE DEF leave, at, reach
    <3> QED BY Zenon, <1>0, <1>3
  <2>2. CASE state = "queued"
    <3>1. leave = <<"executing">> /\ at = "executing"
      BY Zenon, <1>3, <2>2
    <3>2. Towards(state, status) = <<"executing">> \o <<"failed">>
      <4> HIDE DEF leave, at
      <4> QED BY <2>1, <3>1, Zenon
    <3> QED BY Zenon, <2>2, <3>2, Steps, <1>3
  <2>3. CASE state # "queued"
    <3>1. leave = <<>> /\ at = state
      BY Zenon, <2>3
    <3> QED BY <2>1, <2>3, <3>1, <1>3
  <2> QED BY Zenon, <2>2, <2>3
<1>4. CASE status \notin {"cancelled", "succeeded", "failed"}
  BY Zenon, <1>0, <1>4
<1> QED BY Zenon, <1>1, <1>2, <1>3, <1>4

\* reconcileJob makes every transition it tries or none, ends a Change only as
\* the status it was given, and never approves one.
LEMMA Follows ==
    ASSUME NEW m \in Machine, NEW status \in Life!Statuses
    PROVE  LET walk == Follow(m, status)
           IN /\ walk.ok \in BOOLEAN
              /\ \E state \in States, n \in Nat :
                    /\ walk.machine = Reached(m, state, n)
                    /\ state # m.state => walk.ok
                    /\ walk.ok \/ n = 0
                    /\ state \in Life!TerminalStatuses => state \in {m.state, status}
                    /\ m.state \in Decided => state \in Decided
                    /\ m.state # "absent" => state # "absent"
                    /\ state # m.state => m.state \in Decided \/ status = "cancelled"
                    /\ state = "approved" => m.state = "approved"
<1> DEFINE steps == Towards(m.state, status)
           walk == Follow(m, status)
           last == IF steps = <<>> THEN m.state ELSE steps[Len(steps)]
           made(i) == steps[i] \in Allowed(IF i = 1 THEN m.state ELSE steps[i - 1])
           Fits(state) ==
                    /\ state \in Life!TerminalStatuses => state \in {m.state, status}
                    /\ m.state \in Decided => state \in Decided
                    /\ m.state # "absent" => state # "absent"
                    /\ state # m.state => m.state \in Decided \/ status = "cancelled"
                    /\ state = "approved" => m.state = "approved"
<1>1. m.state \in States
  BY Zenon DEF Machine
<1>2. walk = Walk(m, steps)
  BY DEF Follow
<1>3. /\ steps \in Seq(States) /\ last \in States
      /\ \/ steps = <<>>
         \/ steps # <<>> /\ ~made(1)
         \/ (\A i \in DOMAIN steps : made(i)) /\ Fits(last)
  <2>1. CASE status = "cancelled"
    <3>1. CASE m.state = "cancelled"
      <4>1. steps = <<>>
        BY Zenon, <1>1, <2>1, <3>1, TowardsCases
      <4> QED BY <1>1, <4>1
    <3>2. CASE m.state # "cancelled"
      <4>1. steps = <<"cancelled">>
        BY <1>1, <2>1, <3>2, TowardsCases
      <4> HIDE DEF steps
      <4> QED BY <1>1, <2>1, <4>1 DEF Allowed, States, Decided, Life!TerminalStatuses
    <3> QED BY Zenon, <3>1, <3>2
  <2>2. CASE status = "succeeded"
    <3>1. CASE m.state = "queued"
      <4>1. steps = <<"executing", "verifying", "succeeded">>
        BY Zenon, <1>1, <2>2, <3>1, TowardsCases
      <4> HIDE DEF steps
      <4> QED BY <1>1, <2>2, <3>1, <4>1 DEF Allowed, States, Decided, Life!TerminalStatuses
    <3>2. CASE m.state = "executing"
      <4>1. steps = <<"verifying", "succeeded">>
        BY Zenon, <1>1, <2>2, <3>2, TowardsCases
      <4> HIDE DEF steps
      <4> QED BY <1>1, <2>2, <3>2, <4>1 DEF Allowed, States, Decided, Life!TerminalStatuses
    <3>3. CASE m.state = "succeeded"
      <4>1. steps = <<>>
        BY Zenon, <1>1, <2>2, <3>3, TowardsCases
      <4> QED BY <1>1, <4>1
    <3>4. CASE m.state \notin {"queued", "executing", "succeeded"}
      <4>1. steps = <<"succeeded">>
        BY <1>1, <2>2, <3>4, TowardsCases
      <4> HIDE DEF steps
      <4> QED BY <1>1, <2>2, <3>4, <4>1 DEF Allowed, States, Decided, Life!TerminalStatuses
    <3> QED BY Zenon, <3>1, <3>2, <3>3, <3>4
  <2>3. CASE status = "failed"
    <3>1. CASE m.state = "queued"
      <4>1. steps = <<"executing", "failed">>
        BY Zenon, <1>1, <2>3, <3>1, TowardsCases
      <4> HIDE DEF steps
      <4> QED BY <1>1, <2>3, <3>1, <4>1 DEF Allowed, States, Decided, Life!TerminalStatuses
    <3>2. CASE m.state = "failed"
      <4>1. steps = <<>>
        BY Zenon, <1>1, <2>3, <3>2, TowardsCases
      <4> QED BY <1>1, <4>1
    <3>3. CASE m.state \notin {"queued", "failed"}
      <4>1. steps = <<"failed">>
        BY Zenon, <1>1, <2>3, <3>3, TowardsCases
      <4> HIDE DEF steps
      <4> QED BY <1>1, <2>3, <3>3, <4>1 DEF Allowed, States, Decided, Life!TerminalStatuses
    <3> QED BY Zenon, <3>1, <3>2, <3>3
  <2>4. CASE status \notin {"cancelled", "succeeded", "failed"}
    <3>1. CASE m.state = "queued" /\ status # "queued"
      <4>1. steps = <<"executing">>
        BY Zenon, <1>1, <2>4, <3>1, TowardsCases
      <4> HIDE DEF steps
      <4> QED BY <1>1, <2>4, <3>1, <4>1 DEF Allowed, States, Decided, Life!TerminalStatuses
    <3>2. CASE ~(m.state = "queued" /\ status # "queued")
      <4>1. steps = <<>>
        BY Zenon, <1>1, <2>4, <3>2, TowardsCases
      <4> QED BY <1>1, <4>1
    <3> QED BY Zenon, <3>1, <3>2
  <2> QED BY Zenon, <2>1, <2>2, <2>3, <2>4
<1>4. /\ walk.ok \in BOOLEAN
      /\ walk.ok => walk.machine = Reached(m, last, Len(steps))
      /\ (\A i \in DOMAIN steps : made(i)) => walk.ok
      /\ steps # <<>> /\ ~made(1) => ~walk.ok /\ walk.machine = m
  <2> HIDE DEF steps
  <2> QED BY <1>2, <1>3, Walks
<1>5. m = Reached(m, m.state, 0)
  BY DEF Machine, Reached
<1>6. Len(steps) \in Nat /\ Fits(m.state)
  <2>1. Fits(m.state)
    BY Zenon
  <2> HIDE DEF steps, Fits
  <2> QED BY <2>1, <1>3
<1>7. \E state \in States, n \in Nat :
         /\ walk.machine = Reached(m, state, n)
         /\ state # m.state => walk.ok
         /\ walk.ok \/ n = 0
         /\ Fits(state)
  <2> HIDE DEF steps, walk, Fits, made
  <2>1. CASE steps = <<>>
    <3>1. walk.ok
      <4>1. DOMAIN steps = {}
        BY <2>1
      <4> QED BY Zenon, <1>4, <4>1
    <3> QED BY Zenon, <2>1, <3>1, <1>1, <1>4, <1>6
  <2>2. CASE steps # <<>> /\ ~made(1)
    BY Zenon, <2>2, <1>1, <1>4, <1>5, <1>6
  <2>3. CASE (\A i \in DOMAIN steps : made(i)) /\ Fits(last)
    <3> HIDE DEF last
    <3> QED BY Zenon, <2>3, <1>3, <1>4, <1>6
  <2> QED BY Zenon, <2>1, <2>2, <2>3, <1>3
<1> QED BY <1>4, <1>7, Zenon

\* A row that can be restored is restored to the state and version it holds,
\* on approvals that suffice if the row's did (restoreChange, New).
LEMMA Replays ==
    ASSUME NEW row \in Row, row.state # "absent", Restorable(row)
    PROVE  LET m == Replay(row).machine
           IN /\ m \in Machine
              /\ m.state = row.state
              /\ m.version = row.version
              /\ m.risk = row.risk
              /\ row.state \in Decided /\ Backed(row.risk, row.approvals)
                    => Backed(m.risk, m.approvals)
<1> DEFINE base == ReplayApprovals(row)
           steps == Route(row, base)
           m == Replay(row).machine
           last == IF steps = <<>> THEN base.state ELSE steps[Len(steps)]
           made(i) == steps[i] \in Allowed(IF i = 1 THEN base.state ELSE steps[i - 1])
           behind == row.version - (base.version + 1)
           ended  == IF behind > 1 \/ behind < 0 THEN <<"queued", "executing", row.state>>
                     ELSE <<"queued", row.state>>
<1>1. /\ base \in Machine
      /\ base.risk = row.risk
      /\ base.state \in {"pending_approval", "approved", "rejected"}
      /\ base.state = "approved" => Backed(base.risk, base.approvals)
      /\ Backed(row.risk, row.approvals) => base.state = "approved"
  BY Zenon, ReplayedApprovals
<1>2. row.state \in States
  BY Zenon DEF Row
<1>3. Replay(row) = Walk(base, steps)
  BY Zenon DEF Replay
<1>4. Replay(row).ok /\ m.version = row.version
  BY Zenon DEF Restorable
<1> HIDE DEF base
<1>5. /\ steps \in Seq(States) /\ last \in States
      /\ \/ last = row.state
         \/ steps # <<>> /\ ~made(1)
  <2>0. steps =
       IF row.state = base.state THEN <<>>
       ELSE CASE row.state = "queued" -> <<"queued">>
              [] row.state = "executing" ->
                    IF base.state = "approved" THEN <<"queued", "executing">> ELSE <<"executing">>
              [] row.state \in {"verifying", "succeeded"} ->
                    IF base.state # "approved" THEN <<"succeeded">>
                    ELSE <<"queued", "executing", "verifying">>
                         \o IF row.state = "succeeded" THEN <<"succeeded">> ELSE <<>>
              [] row.state = "failed" -> IF base.state = "approved" THEN ended ELSE <<"failed">>
              [] row.state = "cancelled" ->
                    IF base.state = "approved" /\ row.hasJob THEN ended ELSE <<"cancelled">>
              [] OTHER -> <<"absent">>
    BY Zenon DEF Route
  <2>1. CASE row.state = base.state
    <3>1. steps = <<>>
      <4> HIDE DEF steps, ended
      <4> QED BY Zenon, <2>0, <2>1
    <3> HIDE DEF steps
    <3> QED BY <1>2, <2>1, <3>1
  <2>2. CASE row.state # base.state /\ row.state \in {"queued", "executing"}
    <3>1. steps \in {<<row.state>>, <<"queued", row.state>>}
      <4> HIDE DEF steps, ended
      <4> QED BY Zenon, <2>0, <2>2
    <3> HIDE DEF steps
    <3>2. CASE steps = <<row.state>>
      BY <1>2, <3>2
    <3>3. CASE steps = <<"queued", row.state>>
      BY <1>2, <3>3 DEF States
    <3> QED BY Zenon, <3>1, <3>2, <3>3
  <2>3. CASE row.state # base.state /\ row.state \in {"verifying", "succeeded"}
    <3>1. CASE base.state # "approved"
      <4>1. steps = <<"succeeded">>
        <5> HIDE DEF steps, ended
        <5> QED BY Zenon, <2>0, <2>3, <3>1
      <4> HIDE DEF steps
      <4> QED BY <1>1, <3>1, <4>1 DEF States, Allowed
    <3>2. CASE base.state = "approved" /\ row.state = "verifying"
      <4>1. steps = <<"queued", "executing", "verifying">> \o <<>>
        <5> HIDE DEF steps, ended
        <5> QED BY Zenon, <2>0, <3>2
      <4> HIDE DEF steps
      <4>2. steps = <<"queued", "executing", "verifying">>
        BY <4>1
      <4> QED BY <3>2, <4>2 DEF States
    <3>3. CASE base.state = "approved" /\ row.state = "succeeded"
      <4>1. steps = <<"queued", "executing", "verifying">> \o <<"succeeded">>
        <5> HIDE DEF steps, ended
        <5> QED BY Zenon, <2>0, <3>3
      <4> HIDE DEF steps
      <4>2. steps = <<"queued", "executing", "verifying", "succeeded">>
        BY Zenon, <4>1, Steps
      <4> QED BY <3>3, <4>2 DEF States
    <3> QED BY Zenon, <2>3, <3>1, <3>2, <3>3
  <2>4. CASE row.state # base.state /\ row.state \in {"failed", "cancelled"}
    <3>1. steps \in {<<row.state>>, ended}
      <4> HIDE DEF steps, ended
      <4> QED BY Zenon, <2>0, <2>4
    <3>2. ended \in {<<"queued", "executing", row.state>>, <<"queued", row.state>>}
      <4> HIDE DEF behind
      <4> QED OBVIOUS
    <3> HIDE DEF steps, ended
    <3>3. CASE steps = <<row.state>>
      BY <1>2, <3>3
    <3>4. CASE steps = <<"queued", row.state>>
      BY <1>2, <3>4 DEF States
    <3>5. CASE steps = <<"queued", "executing", row.state>>
      BY <1>2, <3>5 DEF States
    <3> QED BY Zenon, <3>1, <3>2, <3>3, <3>4, <3>5
  <2>5. CASE row.state # base.state
             /\ row.state \notin {"queued", "executing", "verifying", "succeeded", "failed",
                                  "cancelled"}
    <3>1. steps = <<"absent">>
      <4> HIDE DEF steps, ended
      <4> QED BY Zenon, <2>0, <2>5
    <3> HIDE DEF steps
    <3> QED BY <1>1, <3>1 DEF States, Allowed
  <2> HIDE DEF steps
  <2> QED BY Zenon, <2>1, <2>2, <2>3, <2>4, <2>5
<1>6. last = row.state /\ m = Reached(base, last, Len(steps))
  <2> HIDE DEF steps
  <2>1. /\ Replay(row).ok => m = Reached(base, last, Len(steps))
        /\ steps # <<>> /\ ~made(1) => ~Replay(row).ok
    BY <1>1, <1>3, <1>5, Walks
  <2> QED BY Zenon, <2>1, <1>4, <1>5
<1>7. Len(steps) \in Nat
  <2> HIDE DEF steps
  <2> QED BY <1>5
<1>8. /\ m \in Machine
      /\ m.state = row.state
      /\ m.risk = row.risk
      /\ m.approvals = base.approvals
  <2> HIDE DEF steps, m, last
  <2> QED BY <1>1, <1>2, <1>6, <1>7 DEF Reached, Machine
<1>9. ASSUME row.state \in Decided, Backed(row.risk, row.approvals)
      PROVE  Backed(m.risk, m.approvals)
  <2> HIDE DEF m
  <2> QED BY Zenon, <1>1, <1>8, <1>9
<1> QED BY <1>4, <1>8, <1>9, Zenon

-----------------------------------------------------------------------------
(* Calls to the database *)

\* The row that a write stores: the record's, on approvals that suffice if the
\* record's do (persistChange).
LEMMA StoredRow ==
    ASSUME NEW row \in Row, NEW record \in Record
    PROVE  /\ Stored(row, record) \in Row
           /\ Stored(row, record).state = record.machine.state
           /\ Stored(row, record).version = record.machine.version
           /\ Stored(row, record).risk = record.machine.risk
           /\ Stored(row, record).hasJob = record.hasJob
           /\ Backed(record.machine.risk, record.machine.approvals)
                => Backed(Stored(row, record).risk, Stored(row, record).approvals)
<1> DEFINE m == record.machine
           merged == Merged(row.approvals, m.approvals)
<1>1. /\ row.approvals \in Seq(Actors) /\ record.hasJob \in BOOLEAN
      /\ m.state \in States /\ m.version \in Nat /\ m.risk \in Risks
      /\ m.approvals \in Seq(Actors)
  BY Zenon DEF Row, Record, Machine
<1>2. merged \in Seq(Actors) /\ Range(m.approvals) \subseteq Range(merged)
  BY Zenon, <1>1, MergedApprovals
<1>3. Stored(row, record) = [state |-> m.state, version |-> m.version, approvals |-> merged,
                             risk |-> m.risk, hasJob |-> record.hasJob]
  BY Zenon DEF Stored
<1> HIDE DEF m, merged
<1>4. /\ Stored(row, record) \in Row
      /\ Stored(row, record).state = m.state
      /\ Stored(row, record).version = m.version
      /\ Stored(row, record).risk = m.risk
      /\ Stored(row, record).approvals = merged
      /\ Stored(row, record).hasJob = record.hasJob
  BY <1>1, <1>2, <1>3 DEF Row
<1>5. CheckApprovals(m.risk, m.approvals) => CheckApprovals(m.risk, merged)
  BY Zenon, <1>1, <1>2, MoreApprovalsCount
<1>6. Backed(m.risk, m.approvals) => Backed(m.risk, merged)
  BY Zenon, <1>5 DEF Backed
<1> QED BY Zenon, <1>4, <1>6 DEF m

\* UpdateChange stores the record or leaves the row, and reports success only
\* if it stored; it stores nothing older than the row (WHERE version <= $3).
LEMMA Updates ==
    ASSUME NEW row \in Row, NEW record \in Record, NEW u \in UpdateChange(row, record)
    PROVE  /\ u.ok \in BOOLEAN
           /\ u.row \in Row
           /\ \/ u.row = Stored(row, record) /\ row.version <= record.machine.version
              \/ u.row = row /\ ~u.ok
<1> DEFINE written == IF row.version <= record.machine.version
                      THEN {Stored(row, record)} ELSE {}
           kept(ok) == {[row |-> r, ok |-> ok] : r \in written}
<1>1. u \in kept(TRUE) \/ u = [row |-> row, ok |-> FALSE] \/ u \in kept(FALSE)
  BY Zenon DEF UpdateChange
<1>2. ASSUME NEW ok \in BOOLEAN, u \in kept(ok)
      PROVE  /\ u.row = Stored(row, record) /\ u.ok = ok
             /\ row.version <= record.machine.version
  BY <1>2
<1>3. Stored(row, record) \in Row
  BY Zenon, StoredRow
<1> HIDE DEF kept
<1>4. CASE u = [row |-> row, ok |-> FALSE]
  BY Zenon, <1>4
<1>5. CASE u \in kept(TRUE)
  BY Zenon, <1>5, <1>2, <1>3
<1>6. CASE u \in kept(FALSE)
  BY Zenon, <1>6, <1>2, <1>3
<1> QED BY Zenon, <1>1, <1>4, <1>5, <1>6

\* A write of the record in memory keeps the Change Sound, and after one that
\* reports success row and memory agree.
LEMMA RowBehind ==
    ASSUME NEW w, NEW row \in Row, NEW record \in Record, NEW status, NEW input,
           Sound(w, record, row, status, input),
           record.machine.state # "absent",
           NEW u \in UpdateChange(row, record)
    PROVE  /\ u.ok \in BOOLEAN /\ u.row \in Row
           /\ Sound(w, record, u.row, status, input)
           /\ u.ok => /\ u.row.state = record.machine.state
                      /\ u.row.version = record.machine.version
<1>1. CASE u.row = Stored(row, record)
  <2> DEFINE new == Stored(row, record)
  <2>1. /\ new.state = record.machine.state
        /\ new.version = record.machine.version
        /\ new.risk = record.machine.risk
        /\ Backed(record.machine.risk, record.machine.approvals) => Backed(new.risk, new.approvals)
    BY Zenon, StoredRow
  <2>2. row.version \in Nat /\ record.machine.version \in Nat
    BY Zenon DEF Row, Record, Machine
  <2>3. record.machine.version \in 1..record.machine.version
    BY <2>2 DEF Sound
  <2> HIDE DEF new
  <2>4. Sound(w, record, new, status, input)
    BY <2>1, <2>2, <2>3 DEF Sound
  <2> QED BY Zenon, <1>1, <2>1, <2>4, Updates DEF new
<1>2. CASE u.row = row /\ ~u.ok
  BY Zenon, <1>2, Updates
<1> QED BY Zenon, <1>1, <1>2, Updates

\* A Change that memory does not know is Sound by its row and Job alone.
LEMMA Unknown ==
    ASSUME NEW w, NEW old, NEW row, NEW status, NEW input, Sound(w, old, row, status, input),
           NEW v, NEW record, record.machine.state = "absent", ~record.hasJob
    PROVE  Sound(v, record, row, status, input)
BY DEF Sound, Decided, Life!TerminalStatuses

\* What the process does matters to a Change only while it starts.
LEMMA Process ==
    ASSUME NEW w, NEW record, NEW row, NEW status, NEW input,
           Sound(w, record, row, status, input), NEW v, v = w \/ v # "starting"
    PROVE  Sound(v, record, row, status, input)
BY DEF Sound

\* Following a copy of the Job makes this walk and this record (reconcileJob).
IsFollowed(record, copy, walk, new) ==
    /\ walk = Follow(record.machine, copy)
    /\ new = [record EXCEPT !.machine = walk.machine]

\* reconcileJob on a copy of the Job, old or new, keeps the Change Sound: a
\* copy that says the Job ended is true.
LEMMA Followed ==
    ASSUME NEW w, NEW row \in Row, NEW record \in Record, NEW status \in Life!Statuses,
           NEW input,
           Sound(w, record, row, status, input),
           record.machine.state # "absent",
           NEW copy \in Life!Statuses, copy \in Life!TerminalStatuses => status = copy,
           NEW walk, NEW new, IsFollowed(record, copy, walk, new)
    PROVE  /\ walk.ok \in BOOLEAN
           /\ new \in Record
           /\ new.machine.state # "absent"
           /\ new.hasJob = record.hasJob
           /\ Sound(w, new, row, status, input)
           /\ ~walk.ok => new = record
<1> DEFINE m == record.machine
<1>0. walk = Follow(m, copy) /\ new = [record EXCEPT !.machine = walk.machine]
  BY Zenon DEF IsFollowed
<1>1. m \in Machine /\ record.hasJob \in BOOLEAN /\ record.input \in {"raw", "stored"}
      /\ record = [machine |-> m, hasJob |-> record.hasJob, input |-> record.input]
  BY Zenon DEF Record
<1>2. m.version \in Nat /\ m.state \in States /\ m.approvals \in Seq(Actors) /\ m.risk \in Risks
      /\ m = Reached(m, m.state, 0) /\ row.version \in Nat
  BY <1>1 DEF Machine, Reached, Row
<1> HIDE DEF m
<1>3. /\ walk.ok \in BOOLEAN
      /\ \E state \in States, n \in Nat :
            /\ walk.machine = Reached(m, state, n)
            /\ state # m.state => walk.ok
            /\ walk.ok \/ n = 0
            /\ state \in Life!TerminalStatuses => state \in {m.state, copy}
            /\ m.state \in Decided => state \in Decided
            /\ m.state # "absent" => state # "absent"
            /\ state # m.state => m.state \in Decided \/ copy = "cancelled"
            /\ state = "approved" => m.state = "approved"
  BY Zenon, <1>0, <1>1, Follows
<1>4. PICK state \in States, n \in Nat :
            /\ walk.machine = Reached(m, state, n)
            /\ state # m.state => walk.ok
            /\ walk.ok \/ n = 0
            /\ state \in Life!TerminalStatuses => state \in {m.state, copy}
            /\ m.state \in Decided => state \in Decided
            /\ m.state # "absent" => state # "absent"
            /\ state # m.state => m.state \in Decided \/ copy = "cancelled"
            /\ state = "approved" => m.state = "approved"
  BY Zenon, <1>3
<1>5. /\ walk.machine \in Machine
      /\ walk.machine.state = state
      /\ walk.machine.version = m.version + n
      /\ walk.machine.approvals = m.approvals
      /\ walk.machine.risk = m.risk
  BY <1>2, <1>4 DEF Reached, Machine
<1>6. /\ new \in Record
      /\ new.machine = walk.machine
      /\ new.hasJob = record.hasJob
  BY Zenon, <1>0, <1>1, <1>5 DEF Record
<1>7. ~walk.ok => new = record
  <2>1. ~walk.ok => walk.machine = m
    BY Zenon, <1>2, <1>4
  <2> QED BY <2>1, <1>0, <1>1
<1>8. m.state # "absent" /\ Sound(w, record, row, status, input)
  BY Zenon DEF m
<1>9. state # "absent"
  BY Zenon, <1>4, <1>8
<1>10. state \in Decided => m.state \in Decided
  <2>1. copy = "cancelled" => m.state \in Decided
    BY Zenon, <1>8 DEF Sound, m, Life!TerminalStatuses
  <2> QED BY Zenon, <2>1, <1>4
<1>11. row.version \in 1..m.version /\ row.version \in 1..(m.version + n)
  BY <1>2, <1>8 DEF Sound, m
<1>12. Sound(w, new, row, status, input)
  <2>1. state \in Decided => Backed(m.risk, m.approvals)
    BY Zenon, <1>8, <1>10 DEF Sound, m
  <2>2. status # "absent" => row.state \in Decided /\ state \in Decided
    BY Zenon, <1>4, <1>8 DEF Sound, m
  <2>3. state \in Life!TerminalStatuses => status = state
    BY Zenon, <1>4, <1>8 DEF Sound, m
  <2>4. w = "starting" /\ state = "approved" /\ ~new.hasJob => row.state = "approved"
    BY Zenon, <1>4, <1>6, <1>8 DEF Sound, m
  <2>5. state = "pending_approval" => m.state = "pending_approval"
    BY Zenon, <1>4, <1>8 DEF Sound, m, Decided, Life!TerminalStatuses
  <2>6. state = "pending_approval" => InitialState(m.risk) # "rejected"
    BY Zenon, <2>5, <1>8 DEF Sound, m
  <2> QED BY Zenon, <2>1, <2>2, <2>3, <2>4, <2>6, <1>5, <1>6, <1>8, <1>9, <1>11 DEF Sound
<1> QED BY Zenon, <1>3, <1>5, <1>6, <1>7, <1>9, <1>12

\* The status of a Job after Insert with the given input.
Inserted(status, input) == IF status = "absent" /\ input # "none" THEN "queued" ELSE status

\* One transition changes the state and counts up the version.
LEMMA Transitions ==
    ASSUME NEW m \in Machine, NEW state \in States
    PROVE  /\ Transition(m, state) = Reached(m, state, 1)
           /\ Reached(m, state, 1) \in Machine
<1>1. m.version \in Nat /\ m.version + 1 \in Nat /\ m.approvals \in Seq(Actors)
      /\ m.risk \in Risks
  BY DEF Machine
<1> DEFINE next == m.version + 1
<1>2. Transition(m, state) = [m EXCEPT !.state = state, !.version = next]
  BY Zenon DEF Transition
<1>3. next \in Nat
  BY Zenon, <1>1
<1> HIDE DEF next
<1>4. [m EXCEPT !.state = state, !.version = next]
        = [state |-> state, version |-> next, approvals |-> m.approvals, risk |-> m.risk]
  <2> DEFINE x == [m EXCEPT !.state = state, !.version = next]
  <2>1. /\ x \in Machine /\ x.state = state /\ x.version = next
        /\ x.approvals = m.approvals /\ x.risk = m.risk
    BY Zenon, <1>3 DEF Machine
  <2> HIDE DEF x
  <2>2. x = [state |-> x.state, version |-> x.version, approvals |-> x.approvals,
             risk |-> x.risk]
    BY Zenon, <2>1 DEF Machine
  <2>3. x = [state |-> state, version |-> next, approvals |-> m.approvals, risk |-> m.risk]
    BY Zenon, <2>1, <2>2
  <2> QED BY Zenon, <2>3 DEF x
<1> QED BY Zenon, <1>1, <1>2, <1>3, <1>4 DEF next, Reached, Machine

\* A record with another machine, or with its Job bound.
LEMMA Rebound ==
    ASSUME NEW record \in Record, NEW m \in Machine, NEW b \in BOOLEAN
    PROVE  /\ [record EXCEPT !.machine = m]
                = [machine |-> m, hasJob |-> record.hasJob, input |-> record.input]
           /\ [record EXCEPT !.hasJob = b]
                = [machine |-> record.machine, hasJob |-> b, input |-> record.input]
BY DEF Record

\* enqueue: whatever becomes of the calls that create the Job and store the
\* Change, the machine is queued and Sound with the Job that exists then.
LEMMA Enqueued ==
    ASSUME NEW c \in Changes, NEW w, NEW row \in Row, NEW record \in Record,
           NEW status \in Life!Statuses, admitted[c] \in {"none", "raw", "stored"},
           Sound(w, record, row, status, admitted[c]),
           record.machine.state = "approved", row.state \in Decided,
           NEW result \in Enqueue(c, row, record)
    PROVE  /\ result.ok \in BOOLEAN /\ result.record \in Record /\ result.row \in Row
           /\ result.input \in {"none", "raw", "stored"}
           /\ result.record.machine.state = "queued"
           /\ result.ok => result.record.hasJob
           /\ Sound(w, result.record, result.row, Inserted(status, result.input), result.input)
<1> DEFINE m == record.machine
           queued == [record EXCEPT !.machine = Transition(@, "queued")]
           bound == [queued EXCEPT !.hasJob = TRUE]
<1>1. /\ m \in Machine /\ record.hasJob \in BOOLEAN /\ record.input \in {"raw", "stored"}
      /\ m.version \in Nat /\ row.version \in Nat
  BY Zenon DEF Record, Machine, Row
<1>2. Transition(m, "queued") = Reached(m, "queued", 1) /\ Reached(m, "queued", 1) \in Machine
  BY Zenon, <1>1, Transitions DEF States
<1>3. /\ queued = [machine |-> Reached(m, "queued", 1), hasJob |-> record.hasJob,
                   input |-> record.input]
      /\ bound = [machine |-> Reached(m, "queued", 1), hasJob |-> TRUE, input |-> record.input]
  <2>1. queued = [record EXCEPT !.machine = Reached(m, "queued", 1)]
    BY Zenon, <1>2
  <2>2. queued = [machine |-> Reached(m, "queued", 1), hasJob |-> record.hasJob,
                  input |-> record.input]
    BY Zenon, <2>1, <1>2, Rebound
  <2> HIDE DEF queued
  <2>3. /\ queued \in Record /\ queued.machine = Reached(m, "queued", 1)
        /\ queued.input = record.input
    BY Zenon, <2>2, <1>1, <1>2 DEF Record
  <2>4. bound = [machine |-> queued.machine, hasJob |-> TRUE, input |-> queued.input]
    BY <2>3, <1>1, Rebound, Zenon
  <2> QED BY Zenon, <2>2, <2>3, <2>4
<1>4. /\ queued \in Record /\ bound \in Record
      /\ queued.machine = Reached(m, "queued", 1) /\ bound.machine = Reached(m, "queued", 1)
      /\ bound.hasJob = TRUE /\ queued.hasJob = record.hasJob
  <2> HIDE DEF queued, bound
  <2> QED BY Zenon, <1>1, <1>2, <1>3 DEF Record
<1>5. PICK created \in CreateJob(c, record.input) :
         IF created.ok
         THEN \E u \in UpdateChange(row, bound) :
                 result = [record |-> bound, row |-> u.row, input |-> created.input, ok |-> u.ok]
         ELSE result = [record |-> queued, row |-> row, input |-> created.input, ok |-> FALSE]
  BY Zenon DEF Enqueue
<1>6. /\ created.ok \in BOOLEAN
      /\ created.input \in {"none", "raw", "stored"}
      /\ created.ok => created.input # "none"
      /\ admitted[c] # "none" => created.input # "none"
  <2> DEFINE x == created
             given == record.input
  <2>0. ASSUME NEW i, NEW b \in BOOLEAN, x = [input |-> i, ok |-> b]
        PROVE  x.ok = b /\ x.input = i /\ x.ok \in BOOLEAN
    BY Zenon, <2>0
  <2>1. given \in {"none", "raw", "stored"} /\ given # "none"
    BY Zenon, <1>1
  <2> HIDE DEF x, given
  <2>2. CASE admitted[c] = given
    <3>1. CreateJob(c, given) = {[input |-> given, ok |-> TRUE], [input |-> given, ok |-> FALSE]}
      BY <2>2, Zenon DEF CreateJob
    <3>2. x = [input |-> given, ok |-> TRUE] \/ x = [input |-> given, ok |-> FALSE]
      BY <3>1, Zenon DEF x, given
    <3> QED BY <3>2, <2>0, <2>1, Zenon DEF x
  <2>3. CASE admitted[c] = "none"
    <3>1. CreateJob(c, given) =
             {[input |-> given, ok |-> TRUE], [input |-> "none", ok |-> FALSE]}
               \cup IF "create" \in Ambiguous THEN {[input |-> given, ok |-> FALSE]} ELSE {}
      BY <2>1, <2>3, Zenon DEF CreateJob
    <3>2. \/ x = [input |-> given, ok |-> TRUE] \/ x = [input |-> "none", ok |-> FALSE]
          \/ x = [input |-> given, ok |-> FALSE]
      BY <3>1, Zenon DEF x, given
    <3> QED BY <3>2, <2>0, <2>1, <2>3, Zenon DEF x
  <2>4. CASE admitted[c] \notin {"none", given}
    <3>1. CreateJob(c, given) = {[input |-> admitted[c], ok |-> FALSE]}
      BY <2>4, Zenon DEF CreateJob
    <3>2. x = [input |-> admitted[c], ok |-> FALSE]
      BY <3>1, Zenon DEF x, given
    <3> QED BY <3>2, <2>0, <2>4, Zenon DEF x
  <2> QED BY Zenon, <2>2, <2>3, <2>4
<1> DEFINE after == Inserted(status, created.input)
<1>7. ASSUME NEW new \in Record, new.machine = Reached(m, "queued", 1)
      PROVE  Sound(w, new, row, after, created.input)
  <2>1. /\ new.machine.state = "queued" /\ new.machine.version = m.version + 1
        /\ new.machine.risk = m.risk /\ new.machine.approvals = m.approvals
    BY <1>7 DEF Reached
  <2>2. Backed(m.risk, m.approvals) /\ row.version \in 1..m.version
    BY Zenon DEF Sound, Decided
  <2>3. row.version \in 1..(m.version + 1)
    BY <2>2, <1>1
  <2>4. created.input = "none" <=> after = "absent"
    BY Zenon, <1>6 DEF Sound, Inserted
  <2>5. row.state \in Life!TerminalStatuses => after = row.state
    BY Zenon DEF Sound, Inserted, Life!TerminalStatuses
  <2>6. row.state \in Decided /\ Backed(row.risk, row.approvals) /\ row.version > 0
    BY Zenon DEF Sound, Decided
  <2> HIDE DEF after, m
  <2> QED BY Zenon, <2>1, <2>2, <2>3, <2>4, <2>5, <2>6, <1>7
          DEF Sound, Decided, Life!TerminalStatuses
<1> HIDE DEF queued, bound, m
<1>8. CASE ~created.ok
  <2>1. /\ result.record = queued /\ result.row = row /\ result.input = created.input
        /\ result.ok = FALSE
    BY <1>5, <1>8
  <2>2. Sound(w, queued, row, after, created.input)
    BY Zenon, <1>1, <1>4, <1>7
  <2>3. queued.machine.state = "queued"
    BY <1>4 DEF Reached
  <2> HIDE DEF after
  <2> QED BY Zenon, <2>1, <2>2, <2>3, <1>4, <1>6 DEF after
<1>9. CASE created.ok
  <2>1. PICK u \in UpdateChange(row, bound) :
               result = [record |-> bound, row |-> u.row, input |-> created.input, ok |-> u.ok]
    BY Zenon, <1>5, <1>9
  <2>2. /\ result.record = bound /\ result.row = u.row /\ result.input = created.input
        /\ result.ok = u.ok
    BY Zenon, <2>1
  <2>3. Sound(w, bound, row, after, created.input)
    BY Zenon, <1>4, <1>7
  <2>4. bound.machine.state = "queued"
    BY <1>4 DEF Reached
  <2> HIDE DEF after
  <2>5. u.ok \in BOOLEAN /\ u.row \in Row /\ Sound(w, bound, u.row, after, created.input)
    BY Zenon, <2>3, <2>4, <1>4, RowBehind
  <2>6. Sound(w, bound, u.row, after, created.input)
    BY Zenon, <2>5 DEF Sound
  <2> QED BY Zenon, <2>2, <2>4, <2>5, <2>6, <1>4, <1>6 DEF after
<1> QED BY Zenon, <1>6, <1>8, <1>9

\* A new Change is Sound before its Job exists, in memory and as a row
\* (createChange).
LEMMA Created ==
    ASSUME NEW risk \in Risks, NEW input \in {"raw", "stored"}, NEW w
    PROVE  LET record == [machine |-> New(risk), hasJob |-> FALSE, input |-> input]
               row == Stored(NoRow, record)
           IN /\ record \in Record /\ row \in Row
              /\ record.machine.state # "absent" /\ row.state = record.machine.state
              /\ Sound(w, record, row, "absent", "none")
<1> DEFINE record == [machine |-> New(risk), hasJob |-> FALSE, input |-> input]
           row == Stored(NoRow, record)
<1>1. /\ New(risk) = [state |-> InitialState(risk), version |-> 1, approvals |-> <<>>,
                      risk |-> risk]
      /\ InitialState(risk) \in {"pending_approval", "approved", "rejected"}
  BY Zenon DEF New, InitialState
<1>2. /\ New(risk) \in Machine /\ New(risk).state = InitialState(risk) /\ New(risk).version = 1
      /\ New(risk).risk = risk /\ New(risk).approvals = <<>> /\ <<>> \in Seq(Actors)
  BY <1>1 DEF Machine, States
<1>3. record \in Record /\ record.machine = New(risk) /\ record.hasJob = FALSE
  BY Zenon, <1>2 DEF Record
<1>4. NoRow \in Row
  BY DEF NoRow, Row, States, Risks
<1>5. InitialState(risk) = "approved" => Backed(risk, <<>>)
  BY Zenon, <1>2, NothingIsAsked DEF Backed
<1> HIDE DEF record
<1>6. /\ row \in Row /\ row.state = InitialState(risk) /\ row.version = 1 /\ row.risk = risk
      /\ InitialState(risk) = "approved" => Backed(row.risk, row.approvals)
  BY <1>2, <1>3, <1>4, <1>5, StoredRow
<1> HIDE DEF row
<1>7. Sound(w, record, row, "absent", "none")
  BY <1>1, <1>2, <1>3, <1>5, <1>6 DEF Sound, Decided, Life!TerminalStatuses
<1>8. record.machine.state # "absent" /\ row.state = record.machine.state
  BY <1>1, <1>2, <1>3, <1>6
<1> QED BY Zenon, <1>3, <1>6, <1>7, <1>8 DEF record, row

\* A restored Change is Sound, whatever memory held before (New, createChange
\* under a stored key).
LEMMA Loaded ==
    ASSUME NEW row \in Row, row.state # "absent", Restorable(row),
           NEW v, NEW old, NEW status, NEW input, Sound(v, old, row, status, input),
           NEW w
    PROVE  LET record == [machine |-> Replay(row).machine, hasJob |-> row.hasJob,
                          input |-> "stored"]
           IN /\ record \in Record
              /\ record.machine.state = row.state /\ record.machine.version = row.version
              /\ Sound(w, record, row, status, input)
<1> DEFINE m == Replay(row).machine
           record == [machine |-> m, hasJob |-> row.hasJob, input |-> "stored"]
<1>1. /\ m \in Machine /\ m.state = row.state /\ m.version = row.version /\ m.risk = row.risk
      /\ row.state \in Decided /\ Backed(row.risk, row.approvals) => Backed(m.risk, m.approvals)
  BY Zenon, Replays
<1>2. row.version \in Nat /\ row.hasJob \in BOOLEAN /\ row.state \in States
  BY Zenon DEF Row
<1> HIDE DEF m
<1>3. record \in Record /\ record.machine = m /\ record.hasJob = row.hasJob
  BY Zenon, <1>1, <1>2 DEF Record
<1> HIDE DEF record
<1>4. row.version \in 1..row.version
  BY <1>2 DEF Sound
<1>5. Sound(w, record, row, status, input)
  BY Zenon, <1>1, <1>3, <1>4 DEF Sound
<1> QED BY Zenon, <1>1, <1>3, <1>5 DEF record, m

\* A Job that has not ended may move on: no Change in a terminal state has it.
LEMMA JobMoves ==
    ASSUME NEW w, NEW record, NEW row, NEW status, NEW input,
           Sound(w, record, row, status, input),
           status \notin Life!TerminalStatuses \cup {"absent"},
           NEW next, next # "absent"
    PROVE  Sound(w, record, row, next, input)
BY DEF Sound

\* An approval keeps a Change Sound: it becomes approved only when its
\* approvals suffice (Machine.Approve).
LEMMA Approvals ==
    ASSUME NEW w, w # "starting", NEW row \in Row, NEW record \in Record,
           NEW status \in Life!Statuses, NEW input,
           Sound(w, record, row, status, input),
           record.machine.state = "pending_approval",
           NEW actor \in Actors
    PROVE  LET new == [record EXCEPT !.machine = Approve(@, actor)]
           IN /\ new \in Record
              /\ new.machine.state \in {"pending_approval", "approved"}
              /\ Sound(w, new, row, status, input)
<1> DEFINE m == record.machine
           approvals == Append(m.approvals, actor)
           state == IF CheckApprovals(m.risk, approvals) THEN "approved" ELSE m.state
           next == m.version + 1
           new == [record EXCEPT !.machine = Approve(@, actor)]
<1>1. /\ m \in Machine /\ record.hasJob \in BOOLEAN /\ record.input \in {"raw", "stored"}
      /\ m.version \in Nat /\ row.version \in Nat /\ m.approvals \in Seq(Actors)
      /\ m.risk \in Risks
  BY Zenon DEF Record, Machine, Row
<1>2. approvals \in Seq(Actors) /\ next \in Nat /\ state \in {"pending_approval", "approved"}
  BY <1>1
<1>3. Approve(m, actor) = [m EXCEPT !.approvals = approvals, !.state = state, !.version = next]
  BY Zenon DEF Approve
<1> HIDE DEF approvals, next, state, m
<1>4. /\ Approve(m, actor) \in Machine
      /\ Approve(m, actor).state = state
      /\ Approve(m, actor).version = next
      /\ Approve(m, actor).approvals = approvals
      /\ Approve(m, actor).risk = m.risk
  BY Zenon, <1>1, <1>2, <1>3 DEF Machine, States
<1>5. new = [machine |-> Approve(m, actor), hasJob |-> record.hasJob, input |-> record.input]
  BY Zenon, <1>1, <1>4, Rebound DEF m
<1> HIDE DEF new
<1>6. new \in Record /\ new.machine = Approve(m, actor) /\ new.hasJob = record.hasJob
  BY Zenon, <1>1, <1>4, <1>5 DEF Record
<1>7. InitialState(m.risk) # "rejected" /\ row.version \in 1..m.version /\ status = "absent"
  BY Zenon DEF Sound, m, Decided
<1>8. state = "approved" => Backed(m.risk, approvals)
  BY Zenon, <1>7 DEF state, Backed, m
<1>9. row.version \in 1..next
  BY <1>1, <1>7 DEF next
<1>10. Sound(w, new, row, status, input)
  BY Zenon, <1>2, <1>4, <1>6, <1>7, <1>8, <1>9 DEF Sound, Decided, Life!TerminalStatuses
<1> QED BY Zenon, <1>2, <1>4, <1>6, <1>10 DEF new, m

-----------------------------------------------------------------------------
(* Steps *)

\* What is sound stays so when the server is not starting any more.
LEMMA SoundOnceStarted ==
    ASSUME NEW u, NEW v, v = u \/ v # "starting",
           NEW record, NEW row, NEW status, NEW input, Sound(u, record, row, status, input)
    PROVE  Sound(v, record, row, status, input)
<1>1. CASE v = u
  BY <1>1, Zenon
<1>2. CASE v # "starting"
  BY <1>2, Zenon DEF Sound
<1> QED BY <1>1, <1>2

\* A step that touches one Change, and leaves its Job as it is once that
\* ended, keeps the invariant.
LEMMA OneChange ==
    ASSUME ServerInv, NEW c \in Changes,
           up' \in {"down", "starting", "up", "failed", "refused"},
           up' = up \/ up' # "starting",
           changes' \in [Changes -> Record],
           rows' \in [Changes -> Row],
           jobs' \in [Changes -> Life!Life],
           admitted' \in [Changes -> {"none", "raw", "stored"}],
           tracked' \subseteq Changes,
           \A d \in Changes \ {c} :
              /\ changes'[d] = changes[d] /\ rows'[d] = rows[d] /\ jobs'[d] = jobs[d]
              /\ admitted'[d] = admitted[d] /\ (d \in tracked' <=> d \in tracked),
           jobs[c].status \in Life!TerminalStatuses => jobs'[c].status = jobs[c].status,
           loop' \in {loop, NoCopy},
           cancelling' \subseteq cancelling,
           changes'[c].hasJob /\ rows'[c].version # changes'[c].machine.version => c \in tracked',
           Sound(up', changes'[c], rows'[c], jobs'[c].status, admitted'[c])
    PROVE  ServerInv'
<1>1. TypeOK /\ CopiesAreFinal /\ LaggingRowIsTracked
      /\ \A d \in Changes : Sound(up, changes[d], rows[d], jobs[d].status, admitted[d])
  BY Zenon DEF ServerInv
<1>2. NoCopy.status = "absent" /\ NoCopy.change = "none"
      /\ NoCopy \in [change : Changes \cup {"none"}, status : Life!Statuses]
  BY Zenon DEF NoCopy, Life!Statuses
<1>3. TypeOK'
  <2>1. loop' \in [change : Changes \cup {"none"}, status : Life!Statuses]
    BY Zenon, <1>1, <1>2 DEF TypeOK
  <2>2. cancelling' \subseteq Changes
    BY Zenon, <1>1 DEF TypeOK
  <2> QED BY Zenon, <2>1, <2>2 DEF TypeOK
<1>4. \A d \in Changes : jobs[d].status \in Life!TerminalStatuses
                            => jobs'[d].status = jobs[d].status
  BY Zenon
<1>5. CopiesAreFinal'
  <2>1. ASSUME NEW d \in Changes, loop'.change = d, loop'.status \in Life!TerminalStatuses
        PROVE  jobs'[d].status = loop'.status
    <3>1. loop' = loop
      BY <1>2, <2>1 DEF Life!TerminalStatuses
    <3> QED BY Zenon, <1>1, <1>4, <2>1, <3>1 DEF CopiesAreFinal
  <2>2. ASSUME NEW d \in cancelling'  PROVE  jobs'[d].status = "cancelled"
    <3>1. d \in cancelling /\ d \in Changes
      BY Zenon, <1>1, <2>2 DEF TypeOK
    <3> QED BY Zenon, <1>1, <1>4, <3>1 DEF CopiesAreFinal, Life!TerminalStatuses
  <2> QED BY Zenon, <2>1, <2>2 DEF CopiesAreFinal
<1>6. ASSUME NEW d \in Changes
      PROVE  Sound(up', changes'[d], rows'[d], jobs'[d].status, admitted'[d])
  <2>1. CASE d = c
    BY Zenon, <2>1
  <2>2. CASE d # c
    <3>1. Sound(up, changes[d], rows[d], jobs[d].status, admitted[d])
      BY Zenon, <1>1
    <3>2. /\ changes'[d] = changes[d] /\ rows'[d] = rows[d] /\ jobs'[d] = jobs[d]
          /\ admitted'[d] = admitted[d] /\ (d \in tracked' <=> d \in tracked)
      BY Zenon, <2>2
    <3>3. Sound(up', changes[d], rows[d], jobs[d].status, admitted[d])
      BY Zenon, <3>1, SoundOnceStarted
    <3> QED BY Zenon, <3>2, <3>3
  <2> QED BY Zenon, <2>1, <2>2
<1>7. LaggingRowIsTracked'
  <2> SUFFICES ASSUME NEW d \in Changes, changes'[d].hasJob,
                      rows'[d].version # changes'[d].machine.version
               PROVE  d \in tracked'
    BY Zenon DEF LaggingRowIsTracked
  <2>1. CASE d = c
    BY Zenon, <2>1
  <2>2. CASE d # c
    BY Zenon, <2>2, <1>1 DEF LaggingRowIsTracked
  <2> QED BY Zenon, <2>1, <2>2
<1> QED BY Zenon, <1>3, <1>5, <1>6, <1>7 DEF ServerInv

\* Insert stores the Job of one Change and touches no other.
LEMMA InsertStep ==
    ASSUME TypeOK, NEW c \in Changes, NEW input \in {"none", "raw", "stored"}, Insert(c, input)
    PROVE  /\ jobs' \in [Changes -> Life!Life]
           /\ admitted' \in [Changes -> {"none", "raw", "stored"}]
           /\ \A d \in Changes \ {c} : jobs'[d] = jobs[d] /\ admitted'[d] = admitted[d]
           /\ jobs'[c].status = Inserted(jobs[c].status, input)
           /\ admitted'[c] = input
<1> DEFINE status == Inserted(jobs[c].status, input)
<1>1. jobs \in [Changes -> Life!Life] /\ admitted \in [Changes -> {"none", "raw", "stored"}]
  BY Zenon DEF TypeOK
<1>2. jobs[c].status \in Life!Statuses /\ status \in Life!Statuses
  BY Zenon, <1>1 DEF Life!Life, Life!Statuses, Inserted
<1>3. /\ admitted' = [admitted EXCEPT ![c] = input]
      /\ jobs' = [jobs EXCEPT ![c].status = status]
  BY Zenon DEF Insert, Inserted
<1> HIDE DEF status
<1>4. [jobs[c] EXCEPT !.status = status] \in Life!Life
      /\ [jobs[c] EXCEPT !.status = status].status = status
  BY Zenon, <1>1, <1>2 DEF Life!Life
<1>5. jobs' = [jobs EXCEPT ![c] = [jobs[c] EXCEPT !.status = status]]
  BY Zenon, <1>1, <1>3
<1>6. /\ jobs' \in [Changes -> Life!Life]
      /\ \A d \in Changes \ {c} : jobs'[d] = jobs[d]
      /\ jobs'[c].status = status
  BY <1>1, <1>4, <1>5
<1> QED BY Zenon, <1>1, <1>3, <1>6 DEF status

\* A server without Changes satisfies the invariant.
LEMMA Initially ==
    ASSUME Init
    PROVE  ServerInv
<1>1. /\ <<>> \in Seq(Actors)
      /\ NoRow \in Row /\ NoRecord \in Record
      /\ NoCopy \in [change : Changes \cup {"none"}, status : Life!Statuses]
      /\ [status |-> "absent", attempt |-> 0] \in Life!Life
  BY ServerAssumption
     DEF NoRow, NoRecord, NoCopy, Row, Record, Machine, States, Risks, Life!Life, Life!Statuses
<1>2. TypeOK
  BY Zenon, <1>1 DEF Init, TypeOK
<1>3. CopiesAreFinal
  BY Zenon DEF Init, CopiesAreFinal, NoCopy, Life!TerminalStatuses
<1>4. ASSUME NEW c \in Changes
      PROVE  Sound(up, changes[c], rows[c], jobs[c].status, admitted[c])
  <2>1. /\ changes[c] = NoRecord /\ rows[c] = NoRow /\ jobs[c].status = "absent"
        /\ admitted[c] = "none"
    BY Zenon DEF Init
  <2> QED BY <2>1 DEF Sound, NoRecord, NoRow, Decided, Life!TerminalStatuses
<1>5. LaggingRowIsTracked
  BY Zenon DEF Init, LaggingRowIsTracked, NoRecord
<1> QED BY Zenon, <1>2, <1>3, <1>4, <1>5 DEF ServerInv

\* reconcileJob on a copy that is true if it says the Job ended; its write may
\* fail, and then the Change stays a candidate.
LEMMA ReconcileStep ==
    ASSUME ServerInv, NEW c \in Changes, NEW copy \in Life!Statuses,
           copy \in Life!TerminalStatuses => jobs[c].status = copy,
           Reconcile(c, copy), UNCHANGED <<jobs, admitted>>,
           up' \in {"down", "starting", "up", "failed", "refused"},
           up' = up \/ up' # "starting",
           loop' \in {loop, NoCopy}, cancelling' \subseteq cancelling
    PROVE  ServerInv'
<1> DEFINE walk == Follow(changes[c].machine, copy)
           record == [changes[c] EXCEPT !.machine = walk.machine]
           done == /\ copy \in Life!TerminalStatuses
                   /\ changes[c].machine.state = copy
                   /\ c \notin tracked
           status == jobs[c].status
           input == admitted[c]
<1>1. /\ TypeOK
      /\ Sound(up, changes[c], rows[c], status, input)
      /\ changes[c] \in Record /\ rows[c] \in Row /\ status \in Life!Statuses
      /\ changes \in [Changes -> Record] /\ rows \in [Changes -> Row]
      /\ jobs \in [Changes -> Life!Life] /\ admitted \in [Changes -> {"none", "raw", "stored"}]
      /\ tracked \subseteq Changes
      /\ changes[c].hasJob /\ rows[c].version # changes[c].machine.version => c \in tracked
  BY Zenon DEF ServerInv, TypeOK, Life!Life, LaggingRowIsTracked
<1>2. Sound(up', changes[c], rows[c], status, input)
  BY Zenon, <1>1, Process
<1>3. CASE UNCHANGED <<changes, rows, tracked>>
  <2> HIDE DEF walk, record, done
  <2>1. Sound(up', changes'[c], rows'[c], jobs'[c].status, admitted'[c])
    BY Zenon, <1>2, <1>3
  <2> QED BY Zenon, <1>1, <1>3, <2>1, OneChange
<1>4. CASE /\ ~(~Known(c) \/ done)
           /\ changes' = [changes EXCEPT ![c] = record]
           /\ IF ~walk.ok THEN UNCHANGED <<rows, tracked>>
              ELSE \E u \in UpdateChange(rows[c], record) :
                      /\ rows' = [rows EXCEPT ![c] = u.row]
                      /\ tracked' = IF ~u.ok THEN tracked \cup {c}
                                    ELSE IF copy \in Life!TerminalStatuses
                                    THEN tracked \ {c} ELSE tracked
  <2>1. /\ walk.ok \in BOOLEAN
        /\ record \in Record
        /\ record.machine.state # "absent"
        /\ record.hasJob = changes[c].hasJob
        /\ Sound(up', record, rows[c], status, input)
        /\ ~walk.ok => record = changes[c]
    <3>1. changes[c].machine.state # "absent"
      BY Zenon, <1>4 DEF Known
    <3> HIDE DEF status, input
    <3>3. copy \in Life!TerminalStatuses => status = copy
      BY Zenon DEF status
    <3> DEFINE old == changes[c]
               row == rows[c]
               w == up'
    <3>4. old \in Record /\ row \in Row /\ status \in Life!Statuses
          /\ Sound(w, old, row, status, input) /\ old.machine.state # "absent"
      BY Zenon, <1>1, <1>2, <3>1
    <3> HIDE DEF old, row, w
    <3>5. IsFollowed(old, copy, walk, record)
      BY Zenon DEF old, IsFollowed
    <3> HIDE DEF record, walk
    <3>6. /\ walk.ok \in BOOLEAN
          /\ record \in Record
          /\ record.machine.state # "absent"
          /\ record.hasJob = old.hasJob
          /\ Sound(w, record, row, status, input)
          /\ ~walk.ok => record = old
      BY <3>3, <3>4, <3>5, Followed
    <3> QED BY Zenon, <3>6 DEF old, row, w
  <2> HIDE DEF walk, record, done
  <2>2. CASE ~walk.ok
    <3>1. changes' = changes /\ rows' = rows /\ tracked' = tracked
      BY Zenon, <1>1, <1>4, <2>1, <2>2
    <3> QED BY Zenon, <3>1, <1>3
  <2>3. CASE walk.ok
    <3>1. PICK u \in UpdateChange(rows[c], record) :
                      /\ rows' = [rows EXCEPT ![c] = u.row]
                      /\ tracked' = IF ~u.ok THEN tracked \cup {c}
                                    ELSE IF copy \in Life!TerminalStatuses
                                    THEN tracked \ {c} ELSE tracked
      BY Zenon, <1>4, <2>3
    <3>2. /\ u.ok \in BOOLEAN /\ u.row \in Row /\ Sound(up', record, u.row, status, input)
          /\ u.ok => u.row.version = record.machine.version
      BY <1>1, <2>1, RowBehind
    <3>3. /\ changes' \in [Changes -> Record] /\ changes'[c] = record
          /\ rows' \in [Changes -> Row] /\ rows'[c] = u.row
          /\ \A d \in Changes \ {c} : changes'[d] = changes[d] /\ rows'[d] = rows[d]
      BY Zenon, <1>1, <1>4, <2>1, <3>1, <3>2
    <3>4. /\ tracked' \subseteq Changes
          /\ \A d \in Changes \ {c} : d \in tracked' <=> d \in tracked
          /\ ~u.ok => c \in tracked'
      BY Zenon, <1>1, <3>1
    <3>5. Sound(up', changes'[c], rows'[c], jobs'[c].status, admitted'[c])
      BY Zenon, <3>2, <3>3
    <3>6. changes'[c].hasJob /\ rows'[c].version # changes'[c].machine.version => c \in tracked'
      BY Zenon, <3>2, <3>3, <3>4
    <3> QED BY Zenon, <1>1, <3>3, <3>4, <3>5, <3>6, OneChange
  <2> QED BY Zenon, <2>1, <2>2, <2>3
<1> QED
  <2>1. IF ~Known(c) \/ done THEN UNCHANGED <<changes, rows, tracked>>
        ELSE /\ changes' = [changes EXCEPT ![c] = record]
             /\ IF ~walk.ok THEN UNCHANGED <<rows, tracked>>
                ELSE \E u \in UpdateChange(rows[c], record) :
                      /\ rows' = [rows EXCEPT ![c] = u.row]
                      /\ tracked' = IF ~u.ok THEN tracked \cup {c}
                                    ELSE IF copy \in Life!TerminalStatuses
                                    THEN tracked \ {c} ELSE tracked
    BY Zenon DEF Reconcile
  <2> HIDE DEF walk, record, done
  <2> QED BY <2>1, <1>3, <1>4, Zenon

\* Both callers of reconcileJob: the loop with its copy, and cancelJob.
LEMMA ReconcileSteps ==
    ASSUME ServerInv, NEW c \in Changes, LoopReconciles(c) \/ CancelReconciles(c)
    PROVE  ServerInv'
<1>1. TypeOK /\ CopiesAreFinal
  BY Zenon DEF ServerInv
<1>2. CASE LoopReconciles(c)
  <2>1. loop.status \in Life!Statuses /\ loop.change = c
    BY Zenon, <1>1, <1>2 DEF TypeOK, LoopReconciles
  <2>2. loop.status \in Life!TerminalStatuses => jobs[c].status = loop.status
    BY Zenon, <1>1, <2>1 DEF CopiesAreFinal
  <2>3. up' \in {"down", "starting", "up", "failed", "refused"} /\ (up' = up \/ up' # "starting")
    BY Zenon, <1>1, <1>2 DEF TypeOK, LoopReconciles
  <2> QED BY Zenon, <1>2, <2>1, <2>2, <2>3, ReconcileStep DEF LoopReconciles
<1>3. CASE CancelReconciles(c)
  <2>1. jobs[c].status = "cancelled" /\ "cancelled" \in Life!Statuses
    BY Zenon, <1>1, <1>3 DEF CopiesAreFinal, CancelReconciles, Life!Statuses
  <2>2. up' = up /\ up \in {"down", "starting", "up", "failed", "refused"}
    BY Zenon, <1>1, <1>3 DEF TypeOK, CancelReconciles
  <2> QED BY Zenon, <1>3, <2>1, <2>2, ReconcileStep DEF CancelReconciles
<1> QED BY Zenon, <1>2, <1>3

\* What the invariant says of one Change.
LEMMA OfChange ==
    ASSUME ServerInv, NEW c \in Changes
    PROVE  /\ TypeOK
           /\ changes[c] \in Record /\ rows[c] \in Row /\ jobs[c].status \in Life!Statuses
           /\ admitted[c] \in {"none", "raw", "stored"}
           /\ Sound(up, changes[c], rows[c], jobs[c].status, admitted[c])
BY DEF ServerInv, TypeOK, Life!Life

\* A handler has worked on one Change and its Job: memory keeps the record and
\* tracks it, or (a Change that memory does not know) keeps nothing.
LEMMA HandlerStep ==
    ASSUME ServerInv, NEW c \in Changes,
           NEW record \in Record, NEW row \in Row, NEW input \in {"none", "raw", "stored"},
           Sound(up', record, row, Inserted(jobs[c].status, input), input),
           up' \in {"down", "starting", "up", "failed", "refused"},
           up' = up \/ up' # "starting",
           rows' = [rows EXCEPT ![c] = row],
           Insert(c, input),
           \/ /\ changes' = [changes EXCEPT ![c] = record]
              /\ tracked' \in {tracked, tracked \cup {c}}
              /\ record.hasJob /\ row.version # record.machine.version => c \in tracked'
           \/ /\ changes[c].machine.state = "absent"
              /\ UNCHANGED <<changes, tracked>>,
           UNCHANGED <<loop, cancelling>>
    PROVE  ServerInv'
<1> DEFINE status == jobs[c].status
<1>1. /\ TypeOK
      /\ changes \in [Changes -> Record] /\ rows \in [Changes -> Row]
      /\ tracked \subseteq Changes
  BY Zenon DEF ServerInv, TypeOK
<1>2. /\ jobs' \in [Changes -> Life!Life]
      /\ admitted' \in [Changes -> {"none", "raw", "stored"}]
      /\ \A d \in Changes \ {c} : jobs'[d] = jobs[d] /\ admitted'[d] = admitted[d]
      /\ jobs'[c].status = Inserted(status, input)
      /\ admitted'[c] = input
  BY Zenon, <1>1, InsertStep
<1>3. status \in Life!TerminalStatuses => jobs'[c].status = status
  BY Zenon, <1>2 DEF Inserted, Life!TerminalStatuses
<1>4. /\ rows' \in [Changes -> Row] /\ rows'[c] = row
      /\ \A d \in Changes \ {c} : rows'[d] = rows[d]
  BY <1>1
<1>5. CASE /\ changes' = [changes EXCEPT ![c] = record]
           /\ tracked' \in {tracked, tracked \cup {c}}
           /\ record.hasJob /\ row.version # record.machine.version => c \in tracked'
  <2>1. /\ changes' \in [Changes -> Record] /\ changes'[c] = record
        /\ \A d \in Changes \ {c} : changes'[d] = changes[d]
    BY Zenon, <1>1, <1>5
  <2>2. /\ tracked' \subseteq Changes
        /\ \A d \in Changes \ {c} : d \in tracked' <=> d \in tracked
    BY Zenon, <1>1, <1>5
  <2>3. Sound(up', changes'[c], rows'[c], jobs'[c].status, admitted'[c])
    BY Zenon, <1>2, <1>4, <2>1
  <2>4. changes'[c].hasJob /\ rows'[c].version # changes'[c].machine.version => c \in tracked'
    BY <1>4, <1>5, <2>1
  <2> QED BY <1>2, <1>3, <1>4, <2>1, <2>2, <2>3, <2>4, OneChange
<1>6. CASE changes[c].machine.state = "absent" /\ UNCHANGED <<changes, tracked>>
  <2>1. ~changes[c].hasJob
    BY Zenon, <1>6, OfChange DEF Sound
  <2>2. Sound(up', changes[c], row, Inserted(status, input), input)
    <3> DEFINE after == Inserted(status, input)
    <3>1. Sound(up', record, row, after, input)
      BY Zenon
    <3> HIDE DEF after
    <3>2. Sound(up', changes[c], row, after, input)
      BY Zenon, <1>6, <2>1, <3>1, Unknown
    <3> QED BY Zenon, <3>2 DEF after
  <2>3. Sound(up', changes'[c], rows'[c], jobs'[c].status, admitted'[c]) /\ ~changes'[c].hasJob
    BY Zenon, <1>2, <1>4, <1>6, <2>1, <2>2
  <2> QED BY Zenon, <1>1, <1>2, <1>3, <1>4, <1>6, <2>3, OneChange
<1> QED BY Zenon, <1>5, <1>6

\* A call that leaves the Job alone inserts nothing.
LEMMA Inserting ==
    ASSUME ServerInv, NEW c \in Changes
    PROVE  Inserted(jobs[c].status, admitted[c]) = jobs[c].status
BY OfChange DEF Sound, Inserted

\* approveChange, with or without the write, and with the Job it may create.
LEMMA ApproveChangeStep ==
    ASSUME ServerInv, NEW c \in Changes, NEW actor \in Actors, ApproveChange(c, actor)
    PROVE  ServerInv'
<1> DEFINE record == [changes[c] EXCEPT !.machine = Approve(@, actor)]
           status == jobs[c].status
           input == admitted[c]
<1>1. /\ changes[c] \in Record /\ rows[c] \in Row /\ status \in Life!Statuses
      /\ input \in {"none", "raw", "stored"}
      /\ Sound(up, changes[c], rows[c], status, input)
  BY Zenon, OfChange
<1>2. up = "up" /\ up' = "up" /\ changes[c].machine.state = "pending_approval"
      /\ UNCHANGED <<loop, cancelling>>
  BY Zenon DEF ApproveChange
<1>3. /\ record \in Record
      /\ record.machine.state \in {"pending_approval", "approved"}
      /\ Sound(up, record, rows[c], status, input)
  <2> HIDE DEF status, input
  <2> QED BY Zenon, <1>1, <1>2, Approvals
<1>4. PICK u \in UpdateChange(rows[c], record) :
      \E result \in IF u.ok THEN EnqueueIfApproved(c, u.row, record)
                    ELSE Idle(c, u.row, record) :
             /\ changes' = [changes EXCEPT ![c] = result.record]
             /\ rows' = [rows EXCEPT ![c] = result.row]
             /\ Insert(c, result.input)
             /\ tracked' = IF result.record.hasJob THEN tracked \cup {c} ELSE tracked
  BY Zenon DEF ApproveChange
<1> HIDE DEF record
<1>5. PICK result \in IF u.ok THEN EnqueueIfApproved(c, u.row, record)
                      ELSE Idle(c, u.row, record) :
             /\ changes' = [changes EXCEPT ![c] = result.record]
             /\ rows' = [rows EXCEPT ![c] = result.row]
             /\ Insert(c, result.input)
             /\ tracked' = IF result.record.hasJob THEN tracked \cup {c} ELSE tracked
  BY Zenon, <1>4
<1>6. /\ u.ok \in BOOLEAN /\ u.row \in Row
      /\ Sound(up, record, u.row, status, input)
      /\ u.ok => u.row.state = record.machine.state
  <2>1. record.machine.state # "absent"
    BY <1>3
  <2> HIDE DEF status, input
  <2> QED BY <1>1, <1>3, <2>1, RowBehind
<1>7. CASE result \in Idle(c, u.row, record)
  <2>1. result.record = record /\ result.row = u.row /\ result.input = input
    BY <1>7 DEF Idle
  <2>2. Sound(up', result.record, result.row, Inserted(status, result.input), result.input)
    BY Zenon, <1>2, <1>6, <2>1, Inserting
  <2> HIDE DEF input
  <2> QED BY Zenon, <1>1, <1>2, <1>3, <1>5, <1>6, <2>1, <2>2, HandlerStep
<1>8. CASE u.ok /\ record.machine.state = "approved" /\ result \in Enqueue(c, u.row, record)
  <2>1. u.row.state \in Decided
    BY Zenon, <1>6, <1>8 DEF Decided
  <2>2. /\ result.record \in Record /\ result.row \in Row
        /\ result.input \in {"none", "raw", "stored"}
        /\ Sound(up, result.record, result.row, Inserted(status, result.input), result.input)
    BY <1>1, <1>3, <1>6, <1>8, <2>1, Enqueued
  <2> QED BY Zenon, <1>2, <1>5, <2>2, HandlerStep
<1> QED BY Zenon, <1>5, <1>6, <1>7, <1>8 DEF EnqueueIfApproved

\* New creates the Jobs that approved Changes still lack.
LEMMA StartupEnqueueStep ==
    ASSUME ServerInv, NEW c \in Changes, StartupEnqueue(c)
    PROVE  ServerInv'
<1> DEFINE status == jobs[c].status
           input == admitted[c]
<1>1. /\ changes[c] \in Record /\ rows[c] \in Row /\ status \in Life!Statuses
      /\ input \in {"none", "raw", "stored"}
      /\ Sound(up, changes[c], rows[c], status, input)
  BY Zenon, OfChange
<1>2. up = "starting" /\ changes[c].machine.state = "approved" /\ ~changes[c].hasJob
      /\ UNCHANGED <<loop, cancelling>>
  BY Zenon DEF StartupEnqueue, AwaitsEnqueue
<1>3. PICK result \in Enqueue(c, rows[c], changes[c]) :
          /\ changes' = [changes EXCEPT ![c] = result.record]
          /\ rows' = [rows EXCEPT ![c] = result.row]
          /\ Insert(c, result.input)
          /\ tracked' = IF result.record.hasJob THEN tracked \cup {c} ELSE tracked
          /\ up' \in {up, "refused", "failed"}
  BY Zenon DEF StartupEnqueue
<1>4. rows[c].state \in Decided
  BY Zenon, <1>1, <1>2 DEF Sound, Decided
<1>5. /\ result.record \in Record /\ result.row \in Row
      /\ result.input \in {"none", "raw", "stored"}
      /\ Sound(up, result.record, result.row, Inserted(status, result.input), result.input)
  BY Zenon, <1>1, <1>2, <1>3, <1>4, Enqueued
<1>6. Sound(up', result.record, result.row, Inserted(status, result.input), result.input)
  BY Zenon, <1>3, <1>5, <1>2, Process
<1>7. up' \in {"down", "starting", "up", "failed", "refused"} /\ (up' = up \/ up' # "starting")
  BY Zenon, <1>2, <1>3
<1> QED BY Zenon, <1>2, <1>3, <1>5, <1>6, <1>7, HandlerStep

\* createChange for a new key or for one that only the database knows; a
\* record whose Job could not be created is dropped again.
LEMMA CreateChangeStep ==
    ASSUME ServerInv, NEW c \in Changes, NEW risk \in RequestRisks, NEW input \in Inputs,
           CreateChange(c, risk, input)
    PROVE  ServerInv'
<1> DEFINE record == Opened(c, risk, input)
           row == IF rows[c].state = "absent" THEN Stored(NoRow, record) ELSE rows[c]
           status == jobs[c].status
           given == admitted[c]
<1>1. /\ TypeOK
      /\ changes[c] \in Record /\ rows[c] \in Row /\ status \in Life!Statuses
      /\ given \in {"none", "raw", "stored"}
      /\ Sound(up, changes[c], rows[c], status, given)
  BY Zenon, OfChange
<1>2. up = "up" /\ up' = "up" /\ UNCHANGED <<loop, cancelling>> /\ ~Known(c)
      /\ (rows[c].state # "absent" => Restorable(rows[c]))
  BY Zenon DEF CreateChange
<1>3. risk \in Risks /\ input \in {"raw", "stored"}
  BY Zenon, ServerAssumption
<1>4. PICK result \in EnqueueIfApproved(c, row, record) :
             /\ rows' = [rows EXCEPT ![c] = result.row]
             /\ Insert(c, result.input)
             /\ IF ~result.ok /\ ~result.record.hasJob
                THEN UNCHANGED <<changes, tracked>>
                ELSE /\ changes' = [changes EXCEPT ![c] = result.record]
                     /\ tracked' = IF /\ result.record.hasJob
                                      /\ result.record.machine.state \notin TerminalStates
                                   THEN tracked \cup {c} ELSE tracked
  BY Zenon DEF CreateChange
<1>5. /\ record \in Record /\ row \in Row
      /\ row.state = record.machine.state
      /\ record.hasJob => row.version = record.machine.version
      /\ Sound(up, record, row, status, given)
  <2>1. CASE rows[c].state = "absent"
    <3>1. status = "absent" /\ given = "none"
      BY Zenon, <1>1, <2>1 DEF Sound, Decided
    <3>2. record = [machine |-> New(risk), hasJob |-> FALSE, input |-> input]
          /\ row = Stored(NoRow, record)
      BY <2>1, Zenon DEF Opened
    <3>3. ~record.hasJob
      <4> HIDE DEF record
      <4> QED BY Zenon, <3>2
    <3> HIDE DEF record, row, status, given
    <3> QED BY Zenon, <3>1, <3>2, <3>3, <1>3, Created
  <2>2. CASE rows[c].state # "absent"
    <3>1. record = [machine |-> Replay(rows[c]).machine, hasJob |-> rows[c].hasJob,
                    input |-> "stored"]
          /\ row = rows[c]
      BY <2>2, Zenon DEF Opened
    <3> HIDE DEF record, row, status, given
    <3> QED BY Zenon, <3>1, <2>2, <1>1, <1>2, Loaded
  <2> QED BY Zenon, <2>1, <2>2
<1> HIDE DEF record, row
<1>6. changes[c].machine.state = "absent"
  BY <1>2 DEF Known
<1>7. CASE result \in Idle(c, row, record)
  <2>1. result.record = record /\ result.row = row /\ result.input = given /\ result.ok
    BY <1>7 DEF Idle
  <2>2. Sound(up', result.record, result.row, Inserted(status, result.input), result.input)
    BY Zenon, <1>2, <1>5, <2>1, Inserting
  <2>3. /\ changes' = [changes EXCEPT ![c] = result.record]
        /\ tracked' \in {tracked, tracked \cup {c}}
    BY Zenon, <1>4, <2>1
  <2> HIDE DEF given
  <2> QED BY Zenon, <1>1, <1>2, <1>4, <1>5, <2>1, <2>2, <2>3, HandlerStep
<1>8. CASE record.machine.state = "approved" /\ result \in Enqueue(c, row, record)
  <2>1. row.state \in Decided
    BY Zenon, <1>5, <1>8 DEF Decided
  <2>2. /\ result.ok \in BOOLEAN
        /\ result.record \in Record /\ result.row \in Row
        /\ result.input \in {"none", "raw", "stored"}
        /\ result.record.machine.state = "queued"
        /\ Sound(up, result.record, result.row, Inserted(status, result.input), result.input)
    BY <1>1, <1>5, <1>8, <2>1, Enqueued
  <2>3. CASE ~result.ok /\ ~result.record.hasJob
    BY Zenon, <1>2, <1>4, <1>6, <2>2, <2>3, HandlerStep
  <2>4. CASE ~(~result.ok /\ ~result.record.hasJob)
    <3>1. /\ changes' = [changes EXCEPT ![c] = result.record]
          /\ tracked' \in {tracked, tracked \cup {c}}
          /\ result.record.hasJob => c \in tracked'
      BY <1>4, <2>2, <2>4 DEF TerminalStates
    <3> QED BY Zenon, <1>2, <1>4, <2>2, <3>1, HandlerStep
  <2> QED BY Zenon, <2>3, <2>4
<1> QED BY Zenon, <1>4, <1>7, <1>8 DEF EnqueueIfApproved

\* createChange whose INSERT took effect although it failed.
LEMMA CreateChangeLostStep ==
    ASSUME ServerInv, NEW c \in Changes, NEW risk \in RequestRisks, NEW input \in Inputs,
           CreateChangeLost(c, risk, input)
    PROVE  ServerInv'
<1> DEFINE record == Opened(c, risk, input)
           row == Stored(NoRow, record)
           status == jobs[c].status
           given == admitted[c]
<1>1. /\ TypeOK
      /\ changes[c] \in Record /\ rows[c] \in Row /\ status \in Life!Statuses
      /\ Sound(up, changes[c], rows[c], status, given)
  BY Zenon, OfChange
<1>2. /\ up' = up /\ changes[c].machine.state = "absent" /\ rows[c].state = "absent"
      /\ rows' = [rows EXCEPT ![c] = row]
      /\ UNCHANGED <<changes, tracked, jobs, admitted, loop, cancelling>>
  BY Zenon DEF CreateChangeLost, Known
<1>3. risk \in Risks /\ input \in {"raw", "stored"}
  BY Zenon, ServerAssumption
<1>4. status = "absent" /\ given = "none" /\ ~changes[c].hasJob
  BY Zenon, <1>1, <1>2 DEF Sound, Decided
<1>5. record = [machine |-> New(risk), hasJob |-> FALSE, input |-> input]
  BY <1>2, Zenon DEF Opened
<1>6. row \in Row /\ Sound(up, record, row, "absent", "none")
  <2> HIDE DEF record
  <2> QED BY Zenon, <1>3, <1>5, Created
<1> HIDE DEF row, record
<1>7. Sound(up, changes[c], row, status, given)
  <2> HIDE DEF status, given
  <2> QED BY Zenon, <1>2, <1>4, <1>6, Unknown
<1>8. /\ changes' \in [Changes -> Record] /\ jobs' \in [Changes -> Life!Life]
      /\ admitted' \in [Changes -> {"none", "raw", "stored"}] /\ tracked' \subseteq Changes
      /\ up' \in {"down", "starting", "up", "failed", "refused"}
      /\ rows' \in [Changes -> Row] /\ rows'[c] = row
      /\ \A d \in Changes \ {c} : rows'[d] = rows[d]
  BY Zenon, <1>1, <1>2, <1>6 DEF TypeOK
<1>9. Sound(up', changes'[c], rows'[c], jobs'[c].status, admitted'[c]) /\ ~changes'[c].hasJob
  BY Zenon, <1>2, <1>4, <1>7, <1>8
<1> QED BY Zenon, <1>2, <1>8, <1>9, OneChange

\* A Job that has not ended moves on, and with it at most what cancelJob knows
\* of it.
LEMMA JobStep ==
    ASSUME ServerInv, NEW c \in Changes, CancelJob(c) \/ JobAdvances(c)
    PROVE  ServerInv'
<1>1. /\ TypeOK /\ CopiesAreFinal /\ LaggingRowIsTracked
      /\ \A d \in Changes : Sound(up, changes[d], rows[d], jobs[d].status, admitted[d])
  BY Zenon DEF ServerInv
<1>2. PICK j \in Life!Life :
         /\ jobs' = [jobs EXCEPT ![c] = j]
         /\ \/ j = jobs[c]
            \/ /\ jobs[c].status \notin Life!TerminalStatuses \cup {"absent"}
               /\ j.status # "absent"
         /\ \/ cancelling' = cancelling
            \/ j.status = "cancelled" /\ cancelling' = cancelling \cup {c}
         /\ UNCHANGED <<up, changes, tracked, rows, admitted, loop>>
  <2>1. CASE CancelJob(c)
    <3>1. PICK j \in Life!Life :
             /\ \/ Life!Cancelling(jobs[c], j)
                \/ jobs[c].status \in Life!TerminalStatuses /\ j = jobs[c]
             /\ jobs' = [jobs EXCEPT ![c] = j]
             /\ cancelling' = IF j.status = "cancelled" THEN cancelling \cup {c} ELSE cancelling
      BY Zenon, <2>1 DEF CancelJob
    <3>2. Life!Cancelling(jobs[c], j) =>
             /\ jobs[c].status \notin Life!TerminalStatuses \cup {"absent"}
             /\ j.status # "absent"
      BY Zenon DEF Life!Cancelling, Life!TerminalStatuses
    <3>3. UNCHANGED <<up, changes, tracked, rows, admitted, loop>>
      BY Zenon, <2>1 DEF CancelJob
    <3>4. \/ j = jobs[c]
          \/ /\ jobs[c].status \notin Life!TerminalStatuses \cup {"absent"}
             /\ j.status # "absent"
      BY Zenon, <3>1, <3>2
    <3>5. \/ cancelling' = cancelling
          \/ j.status = "cancelled" /\ cancelling' = cancelling \cup {c}
      BY Zenon, <3>1
    <3> QED BY <3>1, <3>3, <3>4, <3>5, Zenon
  <2>2. CASE JobAdvances(c)
    <3>1. PICK j \in Life!Life :
             /\ \/ Life!Started(jobs[c], j) \/ Life!Completed(jobs[c], j)
                \/ Life!Cancelling(jobs[c], j)
             /\ jobs' = [jobs EXCEPT ![c] = j]
      BY Zenon, <2>2 DEF JobAdvances
    <3>2. /\ jobs[c].status \notin Life!TerminalStatuses \cup {"absent"}
          /\ j.status # "absent"
      BY Zenon, <3>1 DEF Life!Started, Life!Completed, Life!Cancelling, Life!TerminalStatuses
    <3>3. UNCHANGED <<up, changes, tracked, rows, admitted, loop, cancelling>>
      BY Zenon, <2>2 DEF JobAdvances
    <3>4. cancelling' = cancelling
      BY Zenon, <3>3
    <3> QED BY <3>1, <3>2, <3>3, <3>4, Zenon
  <2> QED BY Zenon, <2>1, <2>2
<1>3. /\ jobs' \in [Changes -> Life!Life] /\ jobs'[c] = j
      /\ \A d \in Changes \ {c} : jobs'[d] = jobs[d]
  BY Zenon, <1>1, <1>2 DEF TypeOK
<1>4. TypeOK'
  BY Zenon, <1>1, <1>2, <1>3 DEF TypeOK
<1>5. \A d \in Changes : jobs[d].status \in Life!TerminalStatuses
                            => jobs'[d].status = jobs[d].status
  BY Zenon, <1>2, <1>3
<1>6. CopiesAreFinal'
  <2>1. \A d \in Changes : loop'.change = d /\ loop'.status \in Life!TerminalStatuses
                              => jobs'[d].status = loop'.status
    BY Zenon, <1>1, <1>2, <1>5 DEF CopiesAreFinal
  <2>2. ASSUME NEW d \in cancelling'  PROVE  jobs'[d].status = "cancelled"
    <3>1. CASE d \in cancelling
      BY Zenon, <1>1, <1>5, <3>1 DEF CopiesAreFinal, TypeOK, Life!TerminalStatuses
    <3>2. CASE d \notin cancelling
      BY Zenon, <1>2, <1>3, <2>2, <3>2
    <3> QED BY Zenon, <3>1, <3>2
  <2> QED BY Zenon, <2>1, <2>2 DEF CopiesAreFinal
<1>7. LaggingRowIsTracked'
  BY <1>1, <1>2 DEF LaggingRowIsTracked
<1>8. ASSUME NEW d \in Changes
      PROVE  Sound(up', changes'[d], rows'[d], jobs'[d].status, admitted'[d])
  <2>1. Sound(up, changes[d], rows[d], jobs[d].status, admitted[d])
    BY Zenon, <1>1
  <2>2. CASE jobs'[d].status = jobs[d].status
    BY <1>2, <2>1, <2>2
  <2>3. CASE jobs'[d].status # jobs[d].status
    <3>1. /\ jobs[d].status \notin Life!TerminalStatuses \cup {"absent"}
          /\ jobs'[d].status # "absent"
      BY <1>2, <1>3, <2>3
    <3> QED BY Zenon, <1>2, <2>1, <3>1, JobMoves
  <2> QED BY Zenon, <2>2, <2>3
<1> QED BY Zenon, <1>4, <1>6, <1>7, <1>8 DEF ServerInv

\* A Job is read, or the server starts serving: no Change is touched.
LEMMA QuietStep ==
    ASSUME ServerInv,
           Serve \/ \E c \in Changes : RunOneReturns(c) \/ SweepReads(c)
    PROVE  ServerInv'
<1>1. /\ TypeOK /\ CopiesAreFinal /\ LaggingRowIsTracked
      /\ \A d \in Changes : Sound(up, changes[d], rows[d], jobs[d].status, admitted[d])
  BY Zenon DEF ServerInv
<1>2. /\ UNCHANGED <<changes, tracked, rows, jobs, admitted, cancelling>>
      /\ up' \in {up, "up"}
      /\ loop' = loop \/ \E c \in Changes : loop' = [change |-> c, status |-> jobs[c].status]
  BY Zenon DEF Serve, RunOneReturns, SweepReads
<1>3. TypeOK'
  <2>1. loop' \in [change : Changes \cup {"none"}, status : Life!Statuses]
    BY <1>1, <1>2 DEF TypeOK, Life!Life
  <2>2. up' \in {"down", "starting", "up", "failed", "refused"}
    BY Zenon, <1>1, <1>2 DEF TypeOK
  <2> QED BY Zenon, <1>1, <1>2, <2>1, <2>2 DEF TypeOK
<1>4. CopiesAreFinal'
  <2>1. ASSUME NEW d \in Changes, loop'.change = d, loop'.status \in Life!TerminalStatuses
        PROVE  jobs'[d].status = loop'.status
    <3>1. CASE loop' = loop
      BY Zenon, <1>1, <1>2, <2>1, <3>1 DEF CopiesAreFinal
    <3>2. CASE \E c \in Changes : loop' = [change |-> c, status |-> jobs[c].status]
      BY <1>2, <2>1, <3>2
    <3> QED BY Zenon, <1>2, <3>1, <3>2
  <2>2. \A d \in cancelling' : jobs'[d].status = "cancelled"
    BY Zenon, <1>1, <1>2 DEF CopiesAreFinal
  <2> QED BY Zenon, <2>1, <2>2 DEF CopiesAreFinal
<1>5. LaggingRowIsTracked'
  BY Zenon, <1>1, <1>2 DEF LaggingRowIsTracked
<1>6. ASSUME NEW d \in Changes
      PROVE  Sound(up', changes'[d], rows'[d], jobs'[d].status, admitted'[d])
  <2>1. up' = up \/ up' # "starting"
    BY Zenon, <1>2
  <2>2. Sound(up', changes[d], rows[d], jobs[d].status, admitted[d])
    BY Zenon, <1>1, <2>1, Process
  <2> QED BY Zenon, <1>2, <2>2
<1> QED BY Zenon, <1>3, <1>4, <1>5, <1>6 DEF ServerInv

\* A crash forgets memory and every copy.
LEMMA CrashStep ==
    ASSUME ServerInv, Crash
    PROVE  ServerInv'
<1>1. /\ TypeOK
      /\ \A d \in Changes : Sound(up, changes[d], rows[d], jobs[d].status, admitted[d])
  BY Zenon DEF ServerInv
<1>2. /\ up' = "down" /\ changes' = [c \in Changes |-> NoRecord] /\ tracked' = {}
      /\ loop' = NoCopy /\ cancelling' = {} /\ UNCHANGED <<rows, jobs, admitted>>
  BY Zenon DEF Crash
<1>3. /\ NoRecord \in Record /\ NoRecord.machine.state = "absent" /\ ~NoRecord.hasJob
      /\ NoCopy \in [change : Changes \cup {"none"}, status : Life!Statuses]
      /\ NoCopy.status = "absent"
  BY DEF NoRecord, NoCopy, Record, Machine, States, Risks, Life!Statuses
<1>4. TypeOK'
  BY Zenon, <1>1, <1>2, <1>3 DEF TypeOK
<1>5. CopiesAreFinal'
  BY Zenon, <1>2, <1>3 DEF CopiesAreFinal, Life!TerminalStatuses
<1>6. LaggingRowIsTracked'
  BY Zenon, <1>2, <1>3 DEF LaggingRowIsTracked
<1>7. ASSUME NEW d \in Changes
      PROVE  Sound(up', changes'[d], rows'[d], jobs'[d].status, admitted'[d])
  <2>1. Sound(up', NoRecord, rows[d], jobs[d].status, admitted[d])
    BY <1>1, <1>3, Unknown
  <2> QED BY Zenon, <1>2, <2>1
<1> QED BY Zenon, <1>4, <1>5, <1>6, <1>7 DEF ServerInv

\* New restores every stored Change, or refuses to start.
LEMMA LoadStep ==
    ASSUME ServerInv, Load
    PROVE  ServerInv'
<1> DEFINE present == {c \in Changes : rows[c].state # "absent"}
<1>1. /\ TypeOK /\ CopiesAreFinal /\ LaggingRowIsTracked
      /\ \A d \in Changes : Sound(up, changes[d], rows[d], jobs[d].status, admitted[d])
  BY Zenon DEF ServerInv
<1>2. CASE /\ \A c \in present : Restorable(rows[c])
           /\ up' = "starting"
           /\ changes' = [c \in Changes |->
                             IF c \in present THEN Opened(c, "low", "stored") ELSE NoRecord]
           /\ tracked' = {c \in present : rows[c].hasJob /\ rows[c].state \notin TerminalStates}
           /\ UNCHANGED <<rows, jobs, admitted, loop, cancelling>>
  <2>1. ASSUME NEW d \in Changes
        PROVE  /\ changes'[d] \in Record
               /\ changes'[d].hasJob => rows'[d].version = changes'[d].machine.version
               /\ Sound(up', changes'[d], rows'[d], jobs'[d].status, admitted'[d])
    <3>1. rows[d] \in Row /\ Sound(up, changes[d], rows[d], jobs[d].status, admitted[d])
      BY Zenon, <1>1 DEF TypeOK
    <3>2. CASE rows[d].state # "absent"
      <4> DEFINE row == rows[d]
                 record == [machine |-> Replay(row).machine, hasJob |-> row.hasJob,
                            input |-> "stored"]
      <4>1. changes'[d] = record /\ Restorable(row)
        BY Zenon, <1>2, <3>2 DEF Opened
      <4>2. /\ record \in Record /\ record.machine.version = row.version
            /\ Sound(up', record, row, jobs[d].status, admitted[d])
        BY <3>1, <3>2, <4>1, Loaded
      <4> HIDE DEF record
      <4> QED BY Zenon, <1>2, <4>1, <4>2
    <3>3. CASE rows[d].state = "absent"
      <4>1. changes'[d] = NoRecord
        BY Zenon, <1>2, <3>3
      <4>2. NoRecord \in Record /\ NoRecord.machine.state = "absent" /\ ~NoRecord.hasJob
        BY DEF NoRecord, Record, Machine, States, Risks
      <4>3. Sound(up', NoRecord, rows[d], jobs[d].status, admitted[d])
        BY Zenon, <3>1, <4>2, Unknown
      <4> QED BY Zenon, <1>2, <4>1, <4>2, <4>3
    <3> QED BY Zenon, <3>2, <3>3
  <2>2. changes' \in [Changes -> Record]
    BY Zenon, <1>2, <2>1
  <2>3. TypeOK'
    BY Zenon, <1>1, <1>2, <2>2 DEF TypeOK
  <2>4. CopiesAreFinal'
    BY Zenon, <1>1, <1>2 DEF CopiesAreFinal
  <2>5. LaggingRowIsTracked'
    BY Zenon, <2>1 DEF LaggingRowIsTracked
  <2> QED BY Zenon, <2>1, <2>3, <2>4, <2>5 DEF ServerInv
<1>3. CASE up' = "refused" /\ UNCHANGED <<changes, tracked, rows, jobs, admitted, loop, cancelling>>
  <2>1. TypeOK' /\ CopiesAreFinal' /\ LaggingRowIsTracked'
    BY Zenon, <1>1, <1>3 DEF TypeOK, CopiesAreFinal, LaggingRowIsTracked
  <2>2. ASSUME NEW d \in Changes
        PROVE  Sound(up', changes'[d], rows'[d], jobs'[d].status, admitted'[d])
    <3>1. Sound(up', changes[d], rows[d], jobs[d].status, admitted[d])
      BY Zenon, <1>1, <1>3, Process
    <3> QED BY Zenon, <1>3, <3>1
  <2> QED BY Zenon, <2>1, <2>2 DEF ServerInv
<1> QED
  <2>1. /\ IF \A c \in present : Restorable(rows[c])
           THEN /\ up' = "starting"
                /\ changes' = [c \in Changes |->
                                  IF c \in present THEN Opened(c, "low", "stored") ELSE NoRecord]
                /\ tracked' = {c \in present : rows[c].hasJob
                                                 /\ rows[c].state \notin TerminalStates}
           ELSE up' = "refused" /\ UNCHANGED <<changes, tracked>>
        /\ UNCHANGED <<rows, jobs, admitted, loop, cancelling>>
    BY Zenon DEF Load
  <2> QED BY Zenon, <2>1, <1>2, <1>3

\* Every step keeps the invariant.
LEMMA StepInvariant ==
    ASSUME ServerInv, [Next]_vars
    PROVE  ServerInv'
<1>1. CASE UNCHANGED vars
  BY Zenon, <1>1 DEF vars, ServerInv, TypeOK, CopiesAreFinal, LaggingRowIsTracked
<1>2. ASSUME NEW c \in Changes, NEW risk \in RequestRisks, NEW input \in Inputs,
             CreateChange(c, risk, input) \/ CreateChangeLost(c, risk, input)
      PROVE  ServerInv'
  BY Zenon, <1>2, CreateChangeStep, CreateChangeLostStep
<1>3. ASSUME NEW c \in Changes, NEW actor \in Actors, ApproveChange(c, actor)
      PROVE  ServerInv'
  BY Zenon, <1>3, ApproveChangeStep
<1>4. ASSUME NEW c \in Changes, CancelJob(c) \/ JobAdvances(c)  PROVE  ServerInv'
  BY Zenon, <1>4, JobStep
<1>5. ASSUME NEW c \in Changes, LoopReconciles(c) \/ CancelReconciles(c)  PROVE  ServerInv'
  BY Zenon, <1>5, ReconcileSteps
<1>6. ASSUME NEW c \in Changes, StartupEnqueue(c)  PROVE  ServerInv'
  BY Zenon, <1>6, StartupEnqueueStep
<1>7. CASE Serve \/ \E c \in Changes : RunOneReturns(c) \/ SweepReads(c)
  BY Zenon, <1>7, QuietStep
<1>8. CASE Crash
  BY Zenon, <1>8, CrashStep
<1>9. CASE Load
  BY Zenon, <1>9, LoadStep
<1> QED BY <1>1, <1>2, <1>3, <1>4, <1>5, <1>6, <1>7, <1>8, <1>9, Zenon DEF Next

\* Memory, row and Job of every Change fit together in every reachable state,
\* whatever call fails and whenever the process crashes (Sound,
\* CopiesAreFinal).
THEOREM ServerInvariant == Spec => []ServerInv
<1>1. Init => ServerInv
  BY Zenon, Initially
<1>2. ServerInv /\ [Next]_vars => ServerInv'
  BY Zenon, StepInvariant
<1> QED BY <1>1, <1>2, PTL DEF Spec

\* The invariant gives both properties.
LEMMA Consequences ==
    ASSUME ServerInv
    PROVE  ChangeEndsAsItsJob /\ RowsBackTheServer
<1> SUFFICES ASSUME NEW c \in Changes
             PROVE  /\ rows[c].state \in Life!TerminalStatuses => jobs[c].status = rows[c].state
                    /\ changes[c].machine.state \in Life!TerminalStatuses
                          => jobs[c].status = changes[c].machine.state
                    /\ jobs[c].status # "absent" =>
                          /\ InitialState(rows[c].risk) # "rejected"
                          /\ CheckApprovals(rows[c].risk, rows[c].approvals)
                          /\ rows[c].state \notin {"absent", "pending_approval", "rejected"}
                    /\ changes[c].machine.state # "absent"
                          => rows[c].version \in 1..changes[c].machine.version
  BY Zenon DEF ServerInv, ChangeEndsAsItsJob, RowsBackTheServer, JobHasDurableApprovals,
         MemoryNotBehindRow, Known
<1>1. Sound(up, changes[c], rows[c], jobs[c].status, admitted[c])
  BY Zenon DEF ServerInv
<1> QED BY Zenon, <1>1 DEF Sound, Backed, Decided

\* A Change ends only as its Job ended: no stale copy, lost write, restart or
\* early cancellation ends it otherwise (reconcileJob, cancelJob, New).
THEOREM EndSafety == Spec => []ChangeEndsAsItsJob
BY ServerInvariant, Consequences, PTL

\* What the server acts on is backed by the database: rows never run ahead of
\* memory, a lagging row is a candidate of the next sweep, and a Job exists
\* only for an approved row (approveChange, enqueue, reconcileJob).
THEOREM RowSafety == Spec => []RowsBackTheServer
BY ServerInvariant, Consequences, PTL
=============================================================================
