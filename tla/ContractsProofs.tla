--------------------------- MODULE ContractsProofs ---------------------------
(***************************************************************************)
(* Proofs about the contracts of a deployment, each for any values of its  *)
(* constants: SiteOffline (a site that is cut off admits work only within  *)
(* its policy, and what it queued keeps its base), EdgeGateway (the two    *)
(* sides of an authorized gateway are disjoint) and CoreObjects (the       *)
(* snapshot stays sound, a job has one result, a write follows its         *)
(* review).                                                                *)
(*                                                                         *)
(* The argument for the site: an entry of the queue carries the policy it  *)
(* was admitted under, which is the trusted one or of an earlier           *)
(* generation, and a sequence number below that of the request under way   *)
(* (Order); an entry that is ready was observed on its base, and every     *)
(* write that replaced a revision moved the object past it (Bases), so no  *)
(* revision is replaced twice.                                             *)
(*                                                                         *)
(* The argument for the gateway: once a plan is authorized nothing moves,  *)
(* so the answer of BuildAuthorizationPlan still holds (EdgeInv). What     *)
(* interfaceRoot computes is read off the interfaces it visits: a set that *)
(* leads from the interface to the root and in which every set closed      *)
(* under parents meets the root (Ascends). Two such sets with different    *)
(* roots share nothing (PathsApart), and what an interface rests on lies   *)
(* in its set (Rests).                                                     *)
(*                                                                         *)
(* The argument for the store: a transaction that reads no receipt of its  *)
(* job although there is one read the objects before that write, and the   *)
(* write stored a version newer than all it read (Reading). It is          *)
(* therefore not serializable, and no job is written twice (Written).      *)
(* Every commit was validated as a whole (ValidateStoredObjects), and what *)
(* that validation computes step by step, paths to the root and parents of *)
(* interfaces, is turned into the existence of an end in every set         *)
(* (AncestorsStay, ParentsEnd).                                            *)
(*                                                                         *)
(* A recursive function is handled by its values: Iteration says that one  *)
(* exists, so the CHOOSE behind the definition has the recursion's         *)
(* equation, and LeastNumber does the induction.                           *)
(***************************************************************************)
EXTENDS CoreObjects, SiteOffline, EdgeGateway,
        FiniteSetTheorems, NaturalsInduction, WellFoundedInduction, TLAPS

\* Every nonempty set of naturals has a least element: the induction that the
\* proofs below use.
LEMMA LeastNumber ==
    ASSUME NEW T \in SUBSET Nat, T # {}
    PROVE  \E n \in T : \A o \in T : n <= o
<1> DEFINE Less == OpToRel(<, Nat)
<1>1. IsWellFoundedOn(Less, Nat)
  BY Zenon, NatLessThanWellFounded
<1>2. PICK n \in T : \A o \in T : <<o, n>> \notin Less
  <2> HIDE DEF Less
  <2> QED BY <1>1, WFMin, Zenon
<1>3. ASSUME NEW o \in T  PROVE  n <= o
  <2>1. <<o, n>> \notin {ss \in Nat \X Nat : ss[1] < ss[2]}
    BY Zenon, <1>2 DEF OpToRel
  <2>2. ~(o < n)
    BY Zenon, <2>1
  <2> QED BY <2>2
<1> QED BY Zenon, <1>3

\* The first N iterates of a step from d exist as a function.
Iterates(D, d, step, N) ==
    \E f \in [0 .. N -> D] : f[0] = d /\ \A k \in 1 .. N : f[k] = step[f[k - 1]]

\* They do, for every step on D.
LEMMA Iteration ==
    ASSUME NEW D, NEW d \in D, NEW step \in [D -> D], NEW N \in Nat
    PROVE  Iterates(D, d, step, N)
<1> USE DEF Iterates
<1> DEFINE Good(n) == Iterates(D, d, step, n)
           Bad == {n \in Nat : ~ Good(n)}
<1>1. SUFFICES ASSUME Bad # {} PROVE FALSE
  BY Zenon
<1>2. PICK m \in Bad : \A o \in Bad : m <= o
  <2> HIDE DEF Good
  <2> QED BY Zenon, <1>1, LeastNumber
<1>3. m # 0
  <2> DEFINE z == [k \in 0 .. 0 |-> d]
  <2>1. z \in [0 .. 0 -> D] /\ z[0] = d /\ \A k \in 1 .. 0 : z[k] = step[z[k - 1]]
    OBVIOUS
  <2>2. Good(0)
    <3> HIDE DEF z
    <3> QED BY Zenon, <2>1
  <2> HIDE DEF Good
  <2> QED BY Zenon, <2>2
<1>4. m - 1 \in Nat /\ m - 1 \notin Bad
  <2> HIDE DEF Good
  <2> QED BY <1>2, <1>3
<1>5. PICK f \in [0 .. m - 1 -> D] : f[0] = d /\ \A k \in 1 .. m - 1 : f[k] = step[f[k - 1]]
  BY Zenon, <1>4
<1> DEFINE g == [k \in 0 .. m |-> IF k = m THEN step[f[m - 1]] ELSE f[k]]
<1>6. g \in [0 .. m -> D]
  BY <1>4
<1>7. g[0] = d /\ \A k \in 1 .. m : g[k] = step[g[k - 1]]
  BY <1>3, <1>4, <1>5
<1>8. Good(m)
  <2> HIDE DEF g
  <2> QED BY Zenon, <1>6, <1>7
<1> QED BY Zenon, <1>8

-----------------------------------------------------------------------------
\* Revisions of the object: its generation and version.
Revisions == [generation : Nat, version : Nat]

\* The request under way.
PendingRequest ==
    [id : Nat, connectivity : {"wan_available", "wan_unavailable"}, base : Revisions,
     requestedAt : Nat, policyGeneration : Nat, policyVersion : Nat]

\* Entries of the queue.
Entry ==
    [sequence : Nat, site : {"site1", "site2"}, scope : {"s1", "s2"}, class : {"job", "ui"},
     action : Actions, intent : Intents, base : Revisions,
     policyGeneration : Nat, policyVersion : Nat, queuedAt : Nat]

\* What a request may ask for.
Asked == [site : {"site1", "site2"}, scope : {"s1", "s2"},
          class : {"job", "ui"}, action : Actions, intent : Intents]

\* Types of the site's state.
OfflineTypeOK ==
    /\ wan \in {"wan_available", "wan_unavailable"}
    /\ time \in Nat /\ made \in Nat
    /\ IsFiniteSet(policies) /\ trusted \in policies
    /\ \A p \in policies : p.generation \in Nat /\ p.version \in Nat /\ p.from \in Nat
    /\ object.generation \in Nat /\ object.version \in Nat
    /\ base \in Revisions
    /\ request = NoRequest \/ request \in PendingRequest
    /\ queue \subseteq Entry
    /\ applied \in Seq([entry : Entry, replaced : Revisions])

\* The policies last as long as each other; an entry is older than the request
\* under way, and was admitted under the trusted policy or one of an earlier
\* generation.
Order ==
    /\ \A p \in policies : p.until = p.from + PolicyLifetime
    /\ request # NoRequest => request.id = made
    /\ \A e \in queue :
         /\ e.sequence <= made
         /\ request # NoRequest => e.sequence < request.id
         /\ \/ e.policyGeneration < trusted.generation
            \/ <<e.policyGeneration, e.policyVersion>>
                 = <<trusted.generation, trusted.version>>

\* A decision to go ahead was observed on the entry's base, and the object has
\* moved past every revision that was replaced.
Bases ==
    /\ \A e \in DOMAIN decisions :
         decisions[e].status = "ready_for_approved_change" => decisions[e].observed = e.base
    /\ \A i \in 1 .. Len(applied) : applied[i].replaced.version < object.version

\* The inductive invariant of SiteOffline.
OfflineInv ==
    OfflineTypeOK /\ Order /\ AdmittedWithinPolicy /\ Bases /\ OfflineIntentKeepsItsBase

\* The versions in the list of what was carried out are numbers.
LEMMA AppliedVersions ==
    ASSUME OfflineTypeOK
    PROVE  \A i \in 1 .. Len(applied) : applied[i].replaced.version \in Nat
<1> SUFFICES ASSUME NEW i \in 1 .. Len(applied)
             PROVE  applied[i].replaced.version \in Nat
  BY Zenon
<1> DEFINE Steps == [entry : Entry, replaced : Revisions]
<1>0. applied \in Seq(Steps)
  BY Zenon DEF OfflineTypeOK
<1> HIDE DEF Steps
<1>1. applied[i] \in Steps
  BY <1>0
<1> USE DEF Steps
<1>2. applied[i].replaced \in Revisions
  BY <1>1, Zenon
<1> QED BY Zenon, <1>2 DEF Revisions

\* The site starts connected, with one policy and an empty queue.
LEMMA OfflineInitially == ASSUME OfflineInit PROVE OfflineInv
<1>1. /\ trusted.generation = 1 /\ trusted.version = 1 /\ trusted.from = 1
      /\ trusted.until = 1 + PolicyLifetime
  BY Zenon DEF OfflineInit, Policy
<1>2. IsFiniteSet(policies) /\ policies = {trusted}
  BY Zenon, FS_Singleton DEF OfflineInit
<1>3. /\ object.generation = 1 /\ object.version = 1 /\ base \in Revisions
  BY Zenon DEF OfflineInit, Revision, Revisions
<1>4. OfflineTypeOK
  BY <1>1, <1>2, <1>3 DEF OfflineInit, OfflineTypeOK
<1>5. Order /\ AdmittedWithinPolicy
  BY Zenon, <1>1, <1>2 DEF OfflineInit, Order, AdmittedWithinPolicy
<1>6. Bases /\ OfflineIntentKeepsItsBase
  BY DEF OfflineInit, Bases, OfflineIntentKeepsItsBase
<1> QED BY Zenon, <1>4, <1>5, <1>6 DEF OfflineInv

\* BuildAdmissionDecision: the new entry is the latest, under the trusted
\* policy, in force when the request was made.
LEMMA DecideKeeps ==
    ASSUME OfflineInv, NEW asked \in Asked, Decide(asked)
    PROVE  OfflineInv'
<1> DEFINE r == AdmissionRequest(asked)
           p == trusted
           new == buildQueueEntry(r, p)
<1>1. /\ OfflineTypeOK /\ Order /\ AdmittedWithinPolicy /\ Bases /\ OfflineIntentKeepsItsBase
  BY Zenon DEF OfflineInv
<1>2. /\ request # NoRequest /\ request' = NoRequest
      /\ UNCHANGED <<wan, time, policies, trusted, object, base, made, decisions, applied>>
      /\ \/ queue' = queue
         \/ /\ Reason(r, p) = "explicit_delegation_matched"
            /\ queue' = queue \cup {new}
  BY Zenon DEF Decide
<1>3. request \in PendingRequest /\ request.id = made
  BY Zenon, <1>1, <1>2 DEF OfflineTypeOK, Order
<1>4. /\ new \in Entry /\ new.sequence = made
      /\ new.policyGeneration = p.generation /\ new.policyVersion = p.version
      /\ new.queuedAt = r.requestedAt /\ new.site = r.site /\ new.scope = r.scope
      /\ new.class = r.class /\ new.action = r.action
  BY Zenon, <1>1, <1>3 DEF buildQueueEntry, AdmissionRequest, Entry, Asked, PendingRequest, OfflineTypeOK
<1>5. OfflineTypeOK'
  BY Zenon, <1>1, <1>2, <1>4 DEF OfflineTypeOK
<1>6. Order'
  BY <1>1, <1>2, <1>3, <1>4 DEF Order, OfflineTypeOK, Entry
<1>7. AdmittedWithinPolicy'
  <2>1. ASSUME Reason(r, p) = "explicit_delegation_matched"
        PROVE  /\ p.from <= new.queuedAt /\ new.queuedAt < p.from + PolicyLifetime
               /\ new.site = p.site
               /\ [scope |-> new.scope, class |-> new.class, action |-> new.action]
                    \in p.delegations
    <3>1. r.requestedAt \in Nat
      BY Zenon, <1>3 DEF AdmissionRequest, PendingRequest
    <3>2. /\ r.site = p.site /\ ~ (r.requestedAt < p.from) /\ ~ (r.requestedAt >= p.until)
          /\ hasExactDelegation(p.delegations, r.scope, r.class, r.action)
      BY Zenon, <2>1 DEF Reason
    <3> QED BY <1>1, <1>4, <3>1, <3>2, OfflineAssumption
            DEF OfflineTypeOK, Order, hasExactDelegation
  <2>2. ASSUME NEW e \in queue'
        PROVE  \E q \in policies' :
                 /\ q.generation = e.policyGeneration /\ q.version = e.policyVersion
                 /\ q.from <= e.queuedAt /\ e.queuedAt < q.from + PolicyLifetime
                 /\ e.site = q.site
                 /\ [scope |-> e.scope, class |-> e.class, action |-> e.action]
                      \in q.delegations
    <3>1. CASE e \in queue
      BY Zenon, <1>1, <1>2, <3>1 DEF AdmittedWithinPolicy
    <3>2. CASE e \notin queue
      BY Zenon, <1>1, <1>2, <1>4, <2>1, <2>2, <3>2 DEF OfflineTypeOK
    <3> QED BY Zenon, <3>1, <3>2
  <2>3. ASSUME NEW e \in queue', NEW f \in queue', e.sequence < f.sequence
        PROVE  \/ e.policyGeneration < f.policyGeneration
               \/ <<e.policyGeneration, e.policyVersion>>
                    = <<f.policyGeneration, f.policyVersion>>
    <3>1. CASE e \in queue /\ f \in queue
      BY Zenon, <1>1, <2>3, <3>1 DEF AdmittedWithinPolicy
    <3>2. CASE f \notin queue /\ e \in queue
      BY Zenon, <1>1, <1>2, <1>4, <2>3, <3>2 DEF Order
    <3>3. CASE e \notin queue
      <4>1. e.sequence = made /\ made \in Nat
        BY Zenon, <1>1, <1>2, <1>4, <3>3 DEF OfflineTypeOK
      <4>2. f.sequence \in Nat /\ f.sequence <= made
        BY <1>1, <1>2, <1>4, <4>1 DEF OfflineTypeOK, Order, Entry
      <4> QED BY <2>3, <4>1, <4>2
    <3> QED BY Zenon, <3>1, <3>2, <3>3
  <2> QED BY Zenon, <2>2, <2>3 DEF AdmittedWithinPolicy
<1>8. Bases' /\ OfflineIntentKeepsItsBase'
  BY Zenon, <1>1, <1>2 DEF Bases, OfflineIntentKeepsItsBase
<1> QED BY Zenon, <1>5, <1>6, <1>7, <1>8 DEF OfflineInv

\* ClassifyReconnect: ready only on the entry's base.
LEMMA ObserveKeeps ==
    ASSUME OfflineInv, NEW e \in queue, Observe(e)
    PROVE  OfflineInv'
<1>1. /\ OfflineTypeOK /\ Order /\ AdmittedWithinPolicy /\ Bases /\ OfflineIntentKeepsItsBase
  BY Zenon DEF OfflineInv
<1>2. /\ decisions' = [x \in DOMAIN decisions \cup {e} |->
                     IF x = e THEN ClassifyReconnect(e, object) ELSE decisions[x]]
      /\ UNCHANGED <<wan, time, policies, trusted, object, base, request, made, queue, applied>>
  BY Zenon DEF Observe
<1>3. ClassifyReconnect(e, object).status = "ready_for_approved_change"
         => ClassifyReconnect(e, object).observed = e.base
  BY Zenon DEF ClassifyReconnect, Decision
<1>4. OfflineTypeOK' /\ Order' /\ AdmittedWithinPolicy' /\ OfflineIntentKeepsItsBase'
  BY Zenon, <1>1, <1>2 DEF OfflineTypeOK, Order, AdmittedWithinPolicy, OfflineIntentKeepsItsBase
<1>5. Bases'
  BY Zenon, <1>1, <1>2, <1>3 DEF Bases
<1> QED BY Zenon, <1>4, <1>5 DEF OfflineInv

\* A change that is carried out replaces the revision the decision observed,
\* which is the base, and moves the object past it.
LEMMA CarryOutKeeps ==
    ASSUME OfflineInv, NEW e \in queue, CarryOut(e)
    PROVE  OfflineInv'
<1> DEFINE done == [entry |-> e, replaced |-> Revision(object)]
<1>1. /\ OfflineTypeOK /\ Order /\ AdmittedWithinPolicy /\ Bases /\ OfflineIntentKeepsItsBase
  BY Zenon DEF OfflineInv
<1>2. /\ e \in DOMAIN decisions /\ decisions[e].status = "ready_for_approved_change"
      /\ decisions[e].observed = Revision(object)
      /\ object' = [generation |-> object.generation + 1, version |-> object.version + 1,
                    intent |-> e.intent]
      /\ applied' = Append(applied, done)
      /\ UNCHANGED <<wan, time, policies, trusted, base, request, made, queue, decisions>>
  BY Zenon DEF CarryOut
<1>3. Revision(object) = e.base /\ Revision(object).version = object.version
  BY Zenon, <1>1, <1>2 DEF Bases, Revision
<1>4. e \in Entry /\ Revision(object) \in Revisions
  BY Zenon, <1>1, <1>3 DEF OfflineTypeOK, Entry
<1>5. /\ object'.generation \in Nat /\ object'.version = object.version + 1
      /\ object'.version \in Nat /\ object.version \in Nat
  BY <1>1, <1>2 DEF OfflineTypeOK
<1>6. /\ applied' \in Seq([entry : Entry, replaced : Revisions])
      /\ Len(applied') = Len(applied) + 1 /\ Len(applied) \in Nat
      /\ applied'[Len(applied) + 1] = done
      /\ \A i \in 1 .. Len(applied) : applied'[i] = applied[i]
  BY <1>1, <1>2, <1>4 DEF OfflineTypeOK
<1>7. OfflineTypeOK' /\ Order' /\ AdmittedWithinPolicy'
  BY Zenon, <1>1, <1>2, <1>5, <1>6 DEF OfflineTypeOK, Order, AdmittedWithinPolicy
<1>8. \A i \in 1 .. Len(applied) : applied[i].replaced.version \in Nat
  BY Zenon, <1>1, AppliedVersions
<1>9. Bases'
  BY <1>1, <1>2, <1>3, <1>5, <1>6, <1>8 DEF Bases
<1>10. \A i \in 1 .. Len(applied) : applied[i].entry # e
  BY <1>1, <1>3, <1>5, <1>8 DEF Bases, OfflineIntentKeepsItsBase
<1>11. OfflineIntentKeepsItsBase'
  <2>1. done.entry = e /\ done.replaced = e.base
    BY Zenon, <1>3
  <2>2. \A i \in 1 .. Len(applied') : i \in 1 .. Len(applied) \/ i = Len(applied) + 1
    BY <1>6
  <2>3. \A i \in 1 .. Len(applied') : applied'[i].replaced = applied'[i].entry.base
    BY Zenon, <1>1, <1>6, <2>1, <2>2 DEF OfflineIntentKeepsItsBase
  <2>4. ASSUME NEW i \in 1 .. Len(applied'), NEW j \in 1 .. Len(applied'),
               applied'[i].entry = applied'[j].entry
        PROVE  i = j
    BY <1>1, <1>6, <1>10, <2>1, <2>2, <2>4 DEF OfflineIntentKeepsItsBase
  <2> QED BY Zenon, <2>3, <2>4 DEF OfflineIntentKeepsItsBase
<1> QED BY Zenon, <1>7, <1>9, <1>11 DEF OfflineInv

\* Reconcile: the trusted policy is replaced by one of a later generation
\* only, so every entry is of an earlier one.
LEMMA DeliverKeeps ==
    ASSUME OfflineInv, NEW record \in policies, Deliver(record)
    PROVE  OfflineInv'
<1>1. /\ OfflineTypeOK /\ Order /\ AdmittedWithinPolicy /\ Bases /\ OfflineIntentKeepsItsBase
  BY Zenon DEF OfflineInv
<1>2. /\ trusted' = record /\ record.generation > trusted.generation
      /\ UNCHANGED <<wan, time, policies, object, base, request, made, queue, decisions, applied>>
  BY Zenon DEF Deliver, Reconcile
<1>3. OfflineTypeOK' /\ AdmittedWithinPolicy' /\ Bases' /\ OfflineIntentKeepsItsBase'
  BY Zenon, <1>1, <1>2 DEF OfflineTypeOK, AdmittedWithinPolicy, Bases, OfflineIntentKeepsItsBase
<1>4. /\ \A e \in queue : e.policyGeneration \in Nat
      /\ trusted.generation \in Nat /\ record.generation \in Nat
  BY Zenon, <1>1 DEF OfflineTypeOK, Entry
<1>5. Order'
  BY <1>1, <1>2, <1>4 DEF Order
<1> QED BY Zenon, <1>3, <1>5 DEF OfflineInv

\* A policy that is issued changes nothing at the site.
LEMMA IssuePolicyKeeps ==
    ASSUME OfflineInv, NEW generation \in Nat, NEW delegations,
           IssuePolicy(generation, delegations)
    PROVE  OfflineInv'
<1> DEFINE new == Policy(generation, Cardinality(policies) + 1, delegations)
<1>1. /\ OfflineTypeOK /\ Order /\ AdmittedWithinPolicy /\ Bases /\ OfflineIntentKeepsItsBase
  BY Zenon DEF OfflineInv
<1>2. /\ policies' = policies \cup {new}
      /\ UNCHANGED <<wan, time, trusted, object, base, request, made, queue, decisions, applied>>
  BY Zenon DEF IssuePolicy
<1>3. IsFiniteSet(policies') /\ Cardinality(policies) \in Nat
  BY Zenon, <1>1, <1>2, FS_AddElement, FS_CardinalityType DEF OfflineTypeOK
<1>4. /\ new.generation \in Nat /\ new.version \in Nat /\ new.from \in Nat
      /\ new.until = new.from + PolicyLifetime
  BY <1>1, <1>3 DEF OfflineTypeOK, Policy
<1>5. OfflineTypeOK' /\ Order'
  BY Zenon, <1>1, <1>2, <1>3, <1>4 DEF OfflineTypeOK, Order
<1>6. AdmittedWithinPolicy' /\ Bases' /\ OfflineIntentKeepsItsBase'
  BY Zenon, <1>1, <1>2 DEF AdmittedWithinPolicy, Bases, OfflineIntentKeepsItsBase
<1> QED BY Zenon, <1>5, <1>6 DEF OfflineInv

\* A new request takes the next number.
LEMMA AskKeeps ==
    ASSUME OfflineInv, Ask
    PROVE  OfflineInv'
<1>1. /\ OfflineTypeOK /\ Order /\ AdmittedWithinPolicy /\ Bases /\ OfflineIntentKeepsItsBase
  BY Zenon DEF OfflineInv
<1>2. /\ made' = made + 1
      /\ request' = [id |-> made + 1, connectivity |-> wan, base |-> base,
                     requestedAt |-> time,
                     policyGeneration |-> trusted.generation,
                     policyVersion |-> trusted.version]
      /\ UNCHANGED <<wan, time, policies, trusted, object, base, queue, decisions, applied>>
  BY Zenon DEF Ask
<1>3. request' \in PendingRequest /\ request'.id = made'
  BY <1>1, <1>2 DEF OfflineTypeOK, PendingRequest
<1>4. OfflineTypeOK' /\ AdmittedWithinPolicy' /\ Bases' /\ OfflineIntentKeepsItsBase'
  BY <1>1, <1>2, <1>3 DEF OfflineTypeOK, AdmittedWithinPolicy, Bases, OfflineIntentKeepsItsBase
<1>5. Order'
  BY <1>1, <1>2, <1>3 DEF OfflineTypeOK, Order, Entry
<1> QED BY Zenon, <1>4, <1>5 DEF OfflineInv

\* A write by somebody else only moves the object on.
LEMMA WriteElsewhereKeeps ==
    ASSUME OfflineInv, NEW desired \in BOOLEAN, WriteElsewhere(desired)
    PROVE  OfflineInv'
<1>1. /\ OfflineTypeOK /\ Order /\ AdmittedWithinPolicy /\ Bases /\ OfflineIntentKeepsItsBase
  BY Zenon DEF OfflineInv
<1>2. /\ object' = [object EXCEPT !.version = @ + 1,
                              !.generation = IF desired THEN @ + 1 ELSE @,
                              !.intent = IF desired THEN "none" ELSE @]
      /\ UNCHANGED <<wan, time, policies, trusted, base, request, made, queue, decisions, applied>>
  BY Zenon DEF WriteElsewhere
<1>3. /\ object'.version = object.version + 1 /\ object'.generation \in Nat
  BY <1>1, <1>2 DEF OfflineTypeOK
<1>4. OfflineTypeOK' /\ Order' /\ AdmittedWithinPolicy' /\ OfflineIntentKeepsItsBase'
  BY <1>1, <1>2, <1>3 DEF OfflineTypeOK, Order, AdmittedWithinPolicy, OfflineIntentKeepsItsBase
<1>5. /\ \A i \in 1 .. Len(applied) : applied[i].replaced.version \in Nat
      /\ object.version \in Nat
  BY Zenon, <1>1, AppliedVersions DEF OfflineTypeOK
<1>6. Bases'
  BY <1>1, <1>2, <1>3, <1>5 DEF Bases
<1> QED BY Zenon, <1>4, <1>6 DEF OfflineInv

\* The connection, the clock and the refresh of the base touch neither queue
\* nor policies.
LEMMA WorldKeeps ==
    ASSUME OfflineInv, Connectivity \/ Tick \/ Fetch \/ UNCHANGED offlineVars
    PROVE  OfflineInv'
<1>1. /\ OfflineTypeOK /\ Order /\ AdmittedWithinPolicy /\ Bases /\ OfflineIntentKeepsItsBase
  BY Zenon DEF OfflineInv
<1>2. /\ wan' \in {"wan_available", "wan_unavailable"}
      /\ time' \in Nat /\ base' \in Revisions
      /\ UNCHANGED <<policies, trusted, object, request, made, queue, decisions, applied>>
  BY <1>1 DEF OfflineTypeOK, Connectivity, Tick, Fetch, offlineVars, Revision, Revisions
<1>3. OfflineTypeOK' /\ Order' /\ AdmittedWithinPolicy' /\ Bases' /\ OfflineIntentKeepsItsBase'
  BY Zenon, <1>1, <1>2 DEF OfflineTypeOK, Order, AdmittedWithinPolicy, Bases, OfflineIntentKeepsItsBase
<1> QED BY Zenon, <1>3 DEF OfflineInv

\* In every reachable state of the site: types, order of policies and entries,
\* bases, and both safety properties (BuildAdmissionDecision, Reconcile,
\* ClassifyReconnect).
THEOREM OfflineInvariant == OfflineSpec => []OfflineInv
<1>1. OfflineInit => OfflineInv
  BY Zenon, OfflineInitially
<1>2. OfflineInv /\ [OfflineNext]_offlineVars => OfflineInv'
  <2> SUFFICES ASSUME OfflineInv, [OfflineNext]_offlineVars PROVE OfflineInv'
    BY Zenon
  <2>1. CASE Connectivity \/ Tick \/ Fetch \/ UNCHANGED offlineVars
    BY Zenon, <2>1, WorldKeeps
  <2>2. ASSUME NEW ds \in SUBSET Delegations, NEW p \in policies, NEW next \in {0, 1},
               IssuePolicy(p.generation + next, ds)
        PROVE  OfflineInv'
    <3>1. p.generation + next \in Nat
      BY DEF OfflineInv, OfflineTypeOK
    <3> QED BY Zenon, <2>2, <3>1, IssuePolicyKeeps
  <2>3. ASSUME NEW p \in policies, Deliver(p) PROVE OfflineInv'
    BY Zenon, <2>3, DeliverKeeps
  <2>4. CASE Ask
    BY Zenon, <2>4, AskKeeps
  <2>5. ASSUME NEW asked \in Asked, Decide(asked) PROVE OfflineInv'
    BY Zenon, <2>5, DecideKeeps
  <2>6. ASSUME NEW e \in queue, Observe(e) \/ CarryOut(e) PROVE OfflineInv'
    BY Zenon, <2>6, ObserveKeeps, CarryOutKeeps
  <2>7. ASSUME NEW desired \in BOOLEAN, WriteElsewhere(desired) PROVE OfflineInv'
    BY Zenon, <2>7, WriteElsewhereKeeps
  <2> QED BY Zenon, <2>1, <2>2, <2>3, <2>4, <2>5, <2>6, <2>7 DEF OfflineNext, Asked
<1> QED BY <1>1, <1>2, PTL DEF OfflineSpec

\* Work is queued at a site that is cut off only under a policy issued for it,
\* in force and delegating the action, and policies never go back, for any
\* intents, actions and lifetime of policies (BuildAdmissionDecision,
\* Reconcile).
THEOREM AdmissionSafety == OfflineSpec => []AdmittedWithinPolicy
BY OfflineInvariant, PTL DEF OfflineInv

\* An intent from the time without a connection replaces only the revision its
\* author had seen and is carried out at most once, whoever wrote since
\* (ClassifyReconnect).
THEOREM BaseSafety == OfflineSpec => []OfflineIntentKeepsItsBase
BY OfflineInvariant, PTL DEF OfflineInv

-----------------------------------------------------------------------------
\* The parents of an interface within its boundary.
ParentsIn(x, interfaces) ==
    {p \in interfaces : p.id = x.parent /\ Boundary(p) = Boundary(x)}

\* The interfaces that interfaceRoot meets, step by step.
Ascent(i, interfaces) ==
    LET up[n \in 0 .. Cardinality(interfaces)] ==
          IF n = 0 THEN {i} ELSE UNION {ParentsIn(x, interfaces) : x \in up[n - 1]}
    IN  up

\* The recursion of interfaceRoot has its equations.
LEMMA AscentSteps ==
    ASSUME NEW I, IsFiniteSet(I), NEW i \in I
    PROVE  LET up == Ascent(i, I)
               N == Cardinality(I)
           IN /\ N \in Nat
              /\ up \in [0 .. N -> SUBSET I]
              /\ up[0] = {i}
              /\ \A n \in 1 .. N : up[n] = UNION {ParentsIn(x, I) : x \in up[n - 1]}
<1> DEFINE N == Cardinality(I)
           D == SUBSET I
           first == {i}
           step == [U \in D |-> UNION {ParentsIn(x, I) : x \in U}]
<1>1. N \in Nat
  BY Zenon, FS_CardinalityType
<1>2. step \in [D -> D]
  BY Zenon DEF ParentsIn
<1>3. first \in D
  BY Zenon
<1>4. PICK f \in [0 .. N -> D] : f[0] = first /\ \A k \in 1 .. N : f[k] = step[f[k - 1]]
  <2> HIDE DEF D, step, N, first
  <2>1. Iterates(D, first, step, N)
    BY Zenon, <1>1, <1>2, <1>3, Iteration
  <2> QED BY <2>1, Zenon DEF Iterates
<1>5. \A k \in 1 .. N : f[k] = UNION {ParentsIn(x, I) : x \in f[k - 1]}
  <2> SUFFICES ASSUME NEW k \in 1 .. N
               PROVE  f[k] = UNION {ParentsIn(x, I) : x \in f[k - 1]}
    BY Zenon
  <2>1. f[k - 1] \in D
    BY <1>1
  <2> QED BY Zenon, <1>4, <2>1
<1>6. f = [n \in 0 .. N |->
             IF n = 0 THEN {i} ELSE UNION {ParentsIn(x, I) : x \in f[n - 1]}]
  BY <1>1, <1>4, <1>5
<1>7. Ascent(i, I) = [n \in 0 .. N |->
             IF n = 0 THEN {i} ELSE UNION {ParentsIn(x, I) : x \in Ascent(i, I)[n - 1]}]
  BY <1>6, Zenon DEF Ascent
<1> DEFINE up == Ascent(i, I)
<1> HIDE DEF up
<1>8. /\ up[0] = {i} /\ DOMAIN up = 0 .. N
      /\ \A n \in 1 .. N : up[n] = UNION {ParentsIn(x, I) : x \in up[n - 1]}
  BY <1>1, <1>7 DEF up
<1>9. ASSUME NEW n \in 0 .. N PROVE up[n] \in SUBSET I
  <2>1. CASE n = 0
    BY Zenon, <1>8, <2>1
  <2>2. CASE n # 0
    <3>1. up[n] = UNION {ParentsIn(x, I) : x \in up[n - 1]}
      BY <1>1, <1>8, <2>2
    <3> QED BY Zenon, <3>1 DEF ParentsIn
  <2> QED BY Zenon, <2>1, <2>2
<1>10. up = [n \in 0 .. N |-> up[n]]
  BY <1>7, Zenon DEF up
<1>11. up \in [0 .. N -> SUBSET I]
  BY Zenon, <1>9, <1>10
<1> QED BY Zenon, <1>1, <1>8, <1>11 DEF up

\* What indexInterfaces has established: identifiers are valid and not
\* repeated.
Indexed(I) ==
    /\ IsFiniteSet(I)
    /\ \A i \in I : i.id # NoID
    /\ \A i, j \in I : i.id = j.id => i = j

\* C leads from i to w, which has no parent, inside the boundary of i: every
\* other member has its parent in C, and every nonempty part of C that is
\* closed under parents holds w.
LeadsTo(i, w, C) ==
    /\ i \in C /\ w \in C /\ w.parent = NoID
    /\ \A x \in C : Boundary(x) = Boundary(i)
    /\ \A x \in C \ {w} : \E y \in C : y.id = x.parent
    /\ \A S \in SUBSET C :
         S # {} /\ (\A x \in S \ {w}, y \in C : y.id = x.parent => y \in S) => w \in S

\* When interfaceRoot answers, the interfaces it met lead to the one it names.
LEMMA Ascends ==
    ASSUME NEW I, Indexed(I), NEW i \in I, interfaceRoot(i, I) # NoID
    PROVE  \E C \in SUBSET I : \E w \in C : w.id = interfaceRoot(i, I) /\ LeadsTo(i, w, C)
<1> DEFINE up == Ascent(i, I)
           N == Cardinality(I)
           roots == {x \in UNION {up[n] : n \in DOMAIN up} : x.parent = NoID}
<1>1. /\ N \in Nat
      /\ up \in [0 .. N -> SUBSET I]
      /\ up[0] = {i}
      /\ \A n \in 1 .. N : up[n] = UNION {ParentsIn(x, I) : x \in up[n - 1]}
  BY Zenon, AscentSteps DEF Indexed
<1>2. interfaceRoot(i, I) = IF roots = {} THEN NoID ELSE (CHOOSE x \in roots : TRUE).id
  BY Zenon DEF interfaceRoot, Ascent, ParentsIn
<1> HIDE DEF up, N
<1>3. PICK w \in roots : w.id = interfaceRoot(i, I)
  BY Zenon, <1>2
<1>4. PICK m \in 0 .. N : w \in up[m]
  BY Zenon, <1>1
<1>5. w.parent = NoID
  BY Zenon
<1> HIDE DEF roots
\* Every step up meets one interface at most.
<1>6. \A n \in 0 .. N : \A x, y \in up[n] : x = y
  <2> DEFINE Bad == {n \in 0 .. N : ~ \A x, y \in up[n] : x = y}
  <2>1. SUFFICES ASSUME Bad # {} PROVE FALSE
    BY Zenon
  <2>2. PICK n \in Bad : \A o \in Bad : n <= o
    <3>1. Bad \in SUBSET Nat
      BY <1>1
    <3> HIDE DEF Bad
    <3> QED BY Zenon, <2>1, <3>1, LeastNumber
  <2>3. n # 0
    BY <1>1
  <2>4. n \in 1 .. N /\ n - 1 \in 0 .. N /\ n - 1 \notin Bad
    BY <1>1, <2>2, <2>3
  <2>5. PICK x \in up[n], y \in up[n] : x # y
    BY Zenon
  <2>6. PICK a \in up[n - 1], b \in up[n - 1] : x \in ParentsIn(a, I) /\ y \in ParentsIn(b, I)
    BY <1>1, <2>4
  <2>7. a = b
    BY Zenon, <2>4
  <2> QED BY Zenon, <2>5, <2>6, <2>7 DEF ParentsIn, Indexed
\* No step up to the root's meets nothing.
<1>7. \A n \in 0 .. m : up[n] # {}
  <2> SUFFICES ASSUME NEW n \in 0 .. m, up[n] = {} PROVE FALSE
    BY Zenon
  <2> DEFINE Met == {k \in n .. m : up[k] # {}}
  <2>1. Met \in SUBSET Nat /\ m \in Met
    BY <1>1, <1>4
  <2>2. PICK k \in Met : \A o \in Met : k <= o
    BY Zenon, <2>1, LeastNumber
  <2>3. k \in 1 .. N /\ k - 1 \in n .. m /\ k - 1 \notin Met
    BY <1>1, <2>2
  <2>4. up[k - 1] = {}
    BY Zenon, <2>3
  <2>5. up[k] = UNION {ParentsIn(x, I) : x \in up[k - 1]}
    BY Zenon, <1>1, <2>3
  <2> QED BY <2>2, <2>4, <2>5
\* Below the root's step, the next one is the parent.
<1>8. ASSUME NEW n \in 0 .. m, n # m, NEW x \in up[n]
      PROVE  \E y \in up[n + 1] : y \in ParentsIn(x, I)
  <2>1. n + 1 \in 1 .. N /\ n + 1 \in 0 .. m /\ (n + 1) - 1 = n /\ n \in 0 .. N
    BY <1>1, <1>8
  <2>2. PICK y \in up[n + 1] : TRUE
    BY Zenon, <1>7, <2>1
  <2>3. up[n + 1] = UNION {ParentsIn(z, I) : z \in up[n]}
    BY Zenon, <1>1, <2>1
  <2>4. PICK z \in up[n] : y \in ParentsIn(z, I)
    BY Zenon, <2>2, <2>3
  <2>5. z = x
    BY Zenon, <1>6, <2>1
  <2> QED BY Zenon, <2>4, <2>5
<1> DEFINE C == UNION {up[n] : n \in 0 .. m}
<1>9. C \in SUBSET I /\ i \in C /\ w \in C
  BY <1>1, <1>4
<1>10. \A x \in C : Boundary(x) = Boundary(i)
  <2> DEFINE Bad == {n \in 0 .. m : ~ \A x \in up[n] : Boundary(x) = Boundary(i)}
  <2>1. SUFFICES ASSUME Bad # {} PROVE FALSE
    BY Zenon
  <2>2. PICK n \in Bad : \A o \in Bad : n <= o
    <3>1. Bad \in SUBSET Nat
      BY <1>1
    <3> HIDE DEF Bad
    <3> QED BY Zenon, <2>1, <3>1, LeastNumber
  <2>3. n # 0
    BY Zenon, <1>1
  <2>4. n \in 1 .. N /\ n - 1 \in 0 .. m /\ n - 1 \notin Bad
    BY <1>1, <2>2, <2>3
  <2>5. PICK x \in up[n] : Boundary(x) # Boundary(i)
    BY Zenon
  <2>6. PICK a \in up[n - 1] : x \in ParentsIn(a, I)
    BY <1>1, <2>4
  <2>7. Boundary(a) = Boundary(i)
    BY Zenon, <2>4
  <2> QED BY Zenon, <2>5, <2>6, <2>7 DEF ParentsIn
<1>11. \A x \in C \ {w} : \E y \in C : y.id = x.parent
  <2> SUFFICES ASSUME NEW x \in C \ {w} PROVE \E y \in C : y.id = x.parent
    BY Zenon
  <2>1. PICK n \in 0 .. m : x \in up[n]
    BY Zenon
  <2>2. n # m
    BY Zenon, <1>1, <1>4, <1>6, <2>1
  <2>3. PICK y \in up[n + 1] : y \in ParentsIn(x, I)
    BY Zenon, <1>8, <2>1, <2>2
  <2>4. n + 1 \in 0 .. m
    BY <1>1, <2>2
  <2> QED BY Zenon, <2>3, <2>4 DEF ParentsIn
<1>12. ASSUME NEW S \in SUBSET C, S # {},
              \A x \in S \ {w}, y \in C : y.id = x.parent => y \in S
       PROVE  w \in S
  <2> DEFINE Left == {k \in 0 .. m : up[m - k] \cap S # {}}
  <2>1. Left \in SUBSET Nat
    OBVIOUS
  <2>2. Left # {}
    <3>1. PICK x \in S, n \in 0 .. m : x \in up[n]
      BY Zenon, <1>12
    <3>2. m - n \in 0 .. m /\ m - (m - n) = n
      BY <1>1
    <3> QED BY Zenon, <3>1, <3>2
  <2>3. PICK k \in Left : \A o \in Left : k <= o
    BY Zenon, <2>1, <2>2, LeastNumber
  <2>4. PICK x \in S : x \in up[m - k]
    BY Zenon
  <2>5. CASE k = 0
    <3>1. x \in up[m]
      BY <1>1, <2>4, <2>5
    <3> QED BY <1>1, <1>4, <1>6, <2>4, <3>1
  <2>6. CASE k # 0
    <3>1. /\ m - k \in 0 .. m /\ m - k # m
          /\ k - 1 \in 0 .. m /\ m - (k - 1) = (m - k) + 1 /\ k - 1 \notin Left
      BY <1>1, <2>3, <2>6
    <3>2. PICK y \in up[(m - k) + 1] : y \in ParentsIn(x, I)
      BY Zenon, <1>8, <2>4, <3>1
    <3>3. y \in C /\ y.id = x.parent
      BY <3>1, <3>2 DEF ParentsIn
    <3>4. y \notin S
      BY Zenon, <3>1, <3>2
    <3> QED BY Zenon, <1>12, <2>4, <3>3, <3>4
  <2> QED BY Zenon, <2>5, <2>6
<1>13. LeadsTo(i, w, C)
  <2> HIDE DEF C
  <2> QED BY <1>5, <1>9, <1>10, <1>11, <1>12, Zenon DEF LeadsTo
<1> QED
  <2> HIDE DEF C
  <2> QED BY <1>3, <1>9, <1>13, Zenon

\* Interfaces that lead to different roots have nothing in common on the way.
LEMMA PathsApart ==
    ASSUME NEW I, Indexed(I), NEW i, NEW j,
           NEW C \in SUBSET I, NEW w \in C, LeadsTo(i, w, C),
           NEW D \in SUBSET I, NEW v \in D, LeadsTo(j, v, D),
           w # v
    PROVE  C \cap D = {}
<1> SUFFICES ASSUME C \cap D # {} PROVE FALSE
  BY Zenon
<1> DEFINE T == C \cap D
<1>1. ASSUME NEW x \in T \ {w}, NEW y \in C, y.id = x.parent
      PROVE  y \in T
  <2>1. x # v
    BY Zenon, <1>1 DEF LeadsTo, Indexed
  <2>2. PICK z \in D : z.id = x.parent
    BY Zenon, <2>1 DEF LeadsTo
  <2> QED BY Zenon, <1>1, <2>2 DEF Indexed
<1>2. w \in T
  <2> HIDE DEF T
  <2>1. T \in SUBSET C /\ T # {}
    BY Zenon DEF T
  <2> QED BY <1>1, <2>1, Zenon DEF LeadsTo
<1>3. \E y \in D : y.id = w.parent
  BY Zenon, <1>2 DEF LeadsTo
<1> QED BY Zenon, <1>3 DEF LeadsTo, Indexed

\* The inductive invariant of EdgeGateway: the plan that was emitted is one
\* that BuildAuthorizationPlan accepts of the inventory as it is.
EdgeInv ==
    authorized # NotAuthorized => BuildAuthorizationPlan(authorized, assigned, Inventory, NetworkZones)

\* At first no plan is authorized.
LEMMA EdgeInitially == EdgeInit => EdgeInv
BY DEF EdgeInit, EdgeInv

\* Interfaces and roles move only before the authorization.
LEMMA EdgeStep == EdgeInv /\ [EdgeNext]_edgeVars => EdgeInv'
<1> SUFFICES ASSUME EdgeInv, [EdgeNext]_edgeVars PROVE EdgeInv'
  BY Zenon
<1>1. ASSUME NEW id \in Ids, NEW parent \in Ids \cup {NoID, "missing"}, Reparent(id, parent)
      PROVE  EdgeInv'
  BY Zenon, <1>1 DEF Reparent, EdgeInv
<1>2. ASSUME NEW a \in Assignments, Reassign(a)  PROVE  EdgeInv'
  BY Zenon, <1>2 DEF Reassign, EdgeInv
<1>3. ASSUME NEW r \in Requests, Authorize(r)  PROVE  EdgeInv'
  <2>1. Inventory' = Inventory
    BY Zenon, <1>3 DEF Authorize, Inventory
  <2> QED BY <1>3, <2>1, Zenon DEF Authorize, EdgeInv
<1>4. ASSUME UNCHANGED edgeVars  PROVE  EdgeInv'
  <2>1. Inventory' = Inventory
    BY Zenon, <1>4 DEF edgeVars, Inventory
  <2>2. authorized' = authorized /\ assigned' = assigned
    BY Zenon, <1>4 DEF edgeVars
  <2> QED BY <2>1, <2>2, Zenon DEF EdgeInv
<1> QED BY <1>1, <1>2, <1>3, <1>4, Zenon DEF EdgeNext

\* In every reachable state an emitted plan is one BuildAuthorizationPlan
\* accepts.
THEOREM EdgeInvariant == EdgeSpec => []EdgeInv
BY EdgeInitially, EdgeStep, PTL DEF EdgeSpec

\* The inventory is as finite as the set of interfaces.
LEMMA InventoryFinite == IsFiniteSet(Inventory)
<1> DEFINE entry == [i \in Interfaces |->
              [id |-> i.id, zone |-> i.zone, node |-> i.node, site |-> i.site,
               scope |-> i.scope, parent |-> parents[i.id]]]
<1>1. IsFiniteSet({entry[i] : i \in Interfaces})
  <2> HIDE DEF entry
  <2>1. entry \in Surjection(Interfaces, {entry[i] : i \in Interfaces})
    BY Zenon DEF entry, Surjection
  <2> QED BY Zenon, EdgeAssumption, <2>1, FS_Surjection
<1>2. {entry[i] : i \in Interfaces} = Inventory
  BY Zenon DEF Inventory
<1> QED BY Zenon, <1>1, <1>2

\* The inventory has each interface with its parent of the moment, and its
\* boundary.
LEMMA Inventoried ==
    /\ \A x \in Inventory : x.id \in Ids /\ x.parent = parents[x.id]
    /\ \A i \in Interfaces :
         \E x \in Inventory : x.id = i.id /\ Boundary(x) = Boundary(i)
<1>1. ASSUME NEW x \in Inventory PROVE x.id \in Ids /\ x.parent = parents[x.id]
  BY DEF Inventory, Ids
<1>2. ASSUME NEW i \in Interfaces
      PROVE  \E x \in Inventory : x.id = i.id /\ Boundary(x) = Boundary(i)
  <2> DEFINE x == [id |-> i.id, zone |-> i.zone, node |-> i.node, site |-> i.site,
                   scope |-> i.scope, parent |-> parents[i.id]]
  <2>1. x \in Inventory
    BY Zenon DEF Inventory
  <2>2. x.id = i.id /\ Boundary(x) = Boundary(i)
    BY Zenon DEF Boundary
  <2> QED BY <2>1, <2>2, Zenon
<1> QED BY Zenon, <1>1, <1>2

\* What an interface rests on lies among the interfaces that lead to its root:
\* they are closed under parents.
LEMMA Rests ==
    ASSUME Indexed(Inventory), NEW i, NEW C \in SUBSET Inventory, NEW w \in C,
           LeadsTo(i, w, C)
    PROVE  \A id \in RestsOn(i.id) : \E x \in C : x.id = id
<1> DEFINE S == {x.id : x \in C}
<1>1. S \in SUBSET Ids /\ i.id \in S
  BY Zenon, Inventoried DEF LeadsTo
<1>2. ASSUME NEW y \in S, parents[y] \in Ids PROVE parents[y] \in S
  <2>1. PICK x \in C : x.id = y
    BY Zenon
  <2>2. x.parent = parents[y]
    BY Zenon, <2>1, Inventoried
  <2>3. PICK p \in Interfaces : p.id = x.parent
    BY Zenon, <1>2, <2>2 DEF Ids
  <2>4. PICK z \in Inventory : z.id = x.parent
    BY Zenon, <2>3, Inventoried
  <2>5. x # w
    BY Zenon, <2>4 DEF LeadsTo, Indexed
  <2> QED BY Zenon, <2>2, <2>5 DEF LeadsTo
<1>3. ASSUME NEW id \in RestsOn(i.id) PROVE id \in S
  <2> HIDE DEF S
  <2> QED BY <1>1, <1>2, Zenon DEF RestsOn
<1> QED BY Zenon, <1>3

\* What an accepted plan says of its two interfaces and its role.
LEMMA Planned ==
    ASSUME EdgeInv, authorized # NotAuthorized
    PROVE  /\ Indexed(Inventory)
           /\ \E a \in assigned : /\ a.role = "edge-gateway"
                                  /\ Boundary(a) = Boundary(authorized)
           /\ \E i, j \in Inventory :
                /\ i.id = authorized.wan /\ j.id = authorized.lan
                /\ Boundary(i) = Boundary(authorized) /\ Boundary(j) = Boundary(authorized)
                /\ interfaceRoot(i, Inventory) # NoID /\ interfaceRoot(j, Inventory) # NoID
                /\ interfaceRoot(i, Inventory) # interfaceRoot(j, Inventory)
<1> DEFINE I == Inventory
           r == authorized
           wans == CHOOSE i \in I : i.id = r.wan
           lans == CHOOSE i \in I : i.id = r.lan
<1>1. /\ Cardinality(explicitEdgeAssignment(r, assigned)) = 1
      /\ indexInterfaces(I)
      /\ {r.wan, r.lan} \subseteq {i.id : i \in I}
      /\ Boundary(wans) = Boundary(r) /\ Boundary(lans) = Boundary(r)
      /\ interfaceRoot(wans, I) /= NoID
      /\ interfaceRoot(lans, I) /= NoID
      /\ interfaceRoot(wans, I) /= interfaceRoot(lans, I)
  BY Zenon DEF EdgeInv, BuildAuthorizationPlan
<1>2. Indexed(I)
  BY Zenon, <1>1, InventoryFinite DEF Indexed, indexInterfaces, validateIdentifier
<1>3. wans \in I /\ wans.id = r.wan /\ lans \in I /\ lans.id = r.lan
  <2> HIDE DEF I
  <2> QED BY Zenon, <1>1
<1>4. \E a \in assigned : a.role = "edge-gateway" /\ Boundary(a) = Boundary(r)
  <2>1. explicitEdgeAssignment(r, assigned) # {}
    BY <1>1, FS_EmptySet
  <2> QED BY Zenon, <2>1 DEF explicitEdgeAssignment, Boundary
<1> HIDE DEF wans, lans
<1> QED BY <1>1, <1>2, <1>3, <1>4, Zenon

\* An accepted plan has disjoint sides.
LEMMA SidesDisjoint == EdgeInv => GatewaySidesAreDisjoint
<1> SUFFICES ASSUME EdgeInv, authorized # NotAuthorized
             PROVE  /\ RestsOn(authorized.wan) \cap RestsOn(authorized.lan) = {}
                    /\ \A i \in Interfaces :
                         i.id \in RestsOn(authorized.wan) \cup RestsOn(authorized.lan)
                           => Boundary(i) = Boundary(authorized)
                    /\ \E a \in assigned : /\ a.role = "edge-gateway"
                                           /\ Boundary(a) = Boundary(authorized)
  BY Zenon DEF GatewaySidesAreDisjoint
<1>1. Indexed(Inventory)
  BY Zenon, Planned
<1>2. PICK i \in Inventory, j \in Inventory :
                /\ i.id = authorized.wan /\ j.id = authorized.lan
                /\ Boundary(i) = Boundary(authorized) /\ Boundary(j) = Boundary(authorized)
                /\ interfaceRoot(i, Inventory) # NoID /\ interfaceRoot(j, Inventory) # NoID
                /\ interfaceRoot(i, Inventory) # interfaceRoot(j, Inventory)
  BY Planned, Zenon
<1>3. PICK C \in SUBSET Inventory :
         \E w \in C : w.id = interfaceRoot(i, Inventory) /\ LeadsTo(i, w, C)
  BY Zenon, <1>1, <1>2, Ascends
<1>4. PICK w \in C : w.id = interfaceRoot(i, Inventory) /\ LeadsTo(i, w, C)
  BY Zenon, <1>3
<1>5. PICK D \in SUBSET Inventory :
         \E v \in D : v.id = interfaceRoot(j, Inventory) /\ LeadsTo(j, v, D)
  BY Zenon, <1>1, <1>2, Ascends
<1>6. PICK v \in D : v.id = interfaceRoot(j, Inventory) /\ LeadsTo(j, v, D)
  BY Zenon, <1>5
<1>7. w # v
  BY Zenon, <1>2, <1>4, <1>6
<1>8. C \cap D = {}
  BY <1>1, <1>4, <1>6, <1>7, PathsApart
<1>9. \A id \in RestsOn(authorized.wan) : \E x \in C : x.id = id
  <2>1. \A id \in RestsOn(i.id) : \E x \in C : x.id = id
    BY <1>1, <1>4, Rests, Zenon
  <2> QED BY Zenon, <1>2, <2>1
<1>10. \A id \in RestsOn(authorized.lan) : \E x \in D : x.id = id
  <2>1. \A id \in RestsOn(j.id) : \E x \in D : x.id = id
    BY <1>1, <1>6, Rests, Zenon
  <2> QED BY Zenon, <1>2, <2>1
<1>11. RestsOn(authorized.wan) \cap RestsOn(authorized.lan) = {}
  BY <1>1, <1>8, <1>9, <1>10 DEF Indexed
<1>12. ASSUME NEW k \in Interfaces,
              k.id \in RestsOn(authorized.wan) \cup RestsOn(authorized.lan)
       PROVE  Boundary(k) = Boundary(authorized)
  <2>1. PICK x \in C \cup D : x.id = k.id
    BY Zenon, <1>9, <1>10, <1>12
  <2>2. Boundary(x) = Boundary(authorized)
    BY Zenon, <1>2, <1>4, <1>6 DEF LeadsTo
  <2>3. PICK y \in Inventory : y.id = k.id /\ Boundary(y) = Boundary(k)
    BY Zenon, Inventoried
  <2>4. x = y
    BY Zenon, <1>1, <2>1, <2>3 DEF Indexed
  <2> QED BY Zenon, <2>2, <2>3, <2>4
<1> QED BY <1>11, <1>12, Planned, Zenon

\* A gateway is authorized only when its WAN and LAN sides share no interface
\* at any depth, all on the one node of its role, for any finite inventory
\* with parents that form cycles or cross nodes (BuildAuthorizationPlan,
\* interfaceRoot).
THEOREM GatewaySafety == EdgeSpec => []GatewaySidesAreDisjoint
BY EdgeInvariant, SidesDisjoint, PTL

-----------------------------------------------------------------------------
\* The global scope of the deployment is stored.
Rooted ==
    \E o \in objects : o.type = "scope" /\ o.doc.kind = "global" /\ o.id = "global"

\* A receipt is of a job's own request, and holds a result that passes the
\* worker's check.
Receipted ==
    /\ IsFiniteSet(DOMAIN receipts)
    /\ DOMAIN receipts \subseteq DOMAIN requests
    /\ \A j \in DOMAIN receipts :
         /\ receipts[j].request = requests[j]
         /\ receipts[j].result # NoResult
         /\ Verified(requests[j], receipts[j].result)

\* No stored version is as new as the next one to be drawn.
Versions == \A o \in objects : o.version \in Nat /\ o.version < newVersion

\* What an execution under way knows: receipts that are still stored, objects
\* older than the next write; and if its job was written since it took its
\* snapshot, an object newer than everything it read is stored.
Reading(t) ==
    /\ t.job \in DOMAIN requests
    /\ t.receipts \subseteq ReceiptsOf(t.job)
    /\ backend # "memory" =>
         /\ \A p \in t.objects : p.version \in Nat /\ p.version < newVersion
         /\ t.receipts = {} /\ t.job \in DOMAIN receipts =>
              \E o \in objects : \A p \in t.objects : p.version < o.version

\* What the outcome of an execution says: its result is the one in the job's
\* receipt, and a retry after the write has one.
Answered(t) ==
    /\ t.result # NoResult =>
         t.job \in DOMAIN receipts /\ t.result = receipts[t.job].result
    /\ t.retried => t.result # NoResult

\* The inductive invariant of CoreObjects.
CoreInv ==
    /\ IsFiniteSet(objects) /\ ValidateStoredObjects(objects) /\ Rooted
    /\ Receipted /\ Versions
    /\ tx = [w \in Executors |-> tx[w]]
    /\ \A w \in Executors : /\ tx[w].at = "running" => Reading(tx[w])
                            /\ tx[w].at = "done" => Answered(tx[w])

\* An object that carries out a request: its content, under the new version.
CarriesOut(n, r, version) ==
    /\ n.id = r.id /\ n.type = r.type /\ n.scope = r.scope /\ n.owner = r.owner
    /\ n.doc = r.doc /\ n.version = version /\ n # NoResult

\* The object that PrepareMutation stores has the content of its request and
\* the new version, and leaves a valid snapshot.
LEMMA Mutated ==
    ASSUME NEW s, NEW r, NEW now, NEW version, NEW n \in PrepareMutation(s, r, now, version)
    PROVE  /\ CarriesOut(n, r, version)
           /\ ValidateStoredObjects(replaceInSnapshot(s, n))
<1> DEFINE Stored(g, c) == [id |-> r.id, type |-> r.type, scope |-> r.scope,
                            owner |-> r.owner, doc |-> r.doc, generation |-> g,
                            version |-> version, created |-> c, updated |-> now]
<1>1. /\ ValidateStoredObjects(replaceInSnapshot(s, n))
      /\ \E g, c : n = Stored(g, c)
  BY Zenon DEF PrepareMutation
<1>2. PICK g, c : n = Stored(g, c)
  BY Zenon, <1>1
<1>3. /\ n.id = r.id /\ n.type = r.type /\ n.scope = r.scope /\ n.owner = r.owner
      /\ n.doc = r.doc /\ n.version = version
  BY Zenon, <1>2
<1>4. n # NoResult
  BY Zenon, <1>2 DEF NoResult
<1> QED BY Zenon, <1>1, <1>3, <1>4 DEF CarriesOut

\* A replacement was compared with the object it replaces (PrepareMutation).
LEMMA Succeeded ==
    ASSUME NEW s, NEW r, NEW now, NEW version, NEW n \in PrepareMutation(s, r, now, version),
           NEW c \in s, c.id = r.id
    PROVE  /\ ValidateAgainst(r.precondition, c)
           /\ r.type = c.type
           /\ validateTypedSuccessor(c, n, s)
           /\ ValidateSuccessor(c, n, /\ Content(c) /= Content(r)
                                      /\ r.type /= "actual-state")
BY Zenon DEF PrepareMutation

\* The part of the invariant that is about the tables.
Ready ==
    /\ IsFiniteSet(objects) /\ ValidateStoredObjects(objects) /\ Rooted
    /\ Receipted /\ Versions

\* The store starts valid, with no receipt, and every executor idle.
LEMMA CoreInitially == Init => CoreInv
<1> SUFFICES ASSUME Init PROVE CoreInv
  BY Zenon
<1>1. /\ IsFiniteSet(objects) /\ ValidateStoredObjects(objects) /\ Rooted
  BY Zenon, CoreObjectsAssumption DEF Init, Rooted
<1>2. DOMAIN receipts = {}
  BY DEF Init
<1>3. Receipted
  BY Zenon, <1>2, FS_EmptySet DEF Receipted
<1>4. newVersion = 2
  BY <1>2, FS_EmptySet DEF newVersion
<1>5. Versions
  <2> SUFFICES ASSUME NEW o \in objects PROVE o.version \in Nat /\ o.version < newVersion
    BY Zenon DEF Versions
  <2>1. o.version \in 0 .. 1
    BY Zenon, CoreObjectsAssumption DEF Init
  <2> QED BY <1>4, <2>1
<1>6. /\ tx = [w \in Executors |-> tx[w]]
      /\ \A w \in Executors : tx[w] = Idle
  BY Zenon DEF Init
<1>7. \A w \in Executors : tx[w].at # "running" /\ tx[w].at # "done"
  BY <1>6 DEF Idle
<1> QED BY Zenon, <1>1, <1>3, <1>5, <1>6, <1>7 DEF CoreInv

\* A step that writes no table keeps what is known about it.
LEMMA Unwritten ==
    ASSUME Ready, objects' = objects, receipts' = receipts, backend' = backend,
           requests' = requests
    PROVE  Ready' /\ \A t : Reading(t)' = Reading(t) /\ Answered(t)' = Answered(t)
BY DEF Ready, Rooted, Receipted, Versions, newVersion, Reading, Answered, ReceiptsOf

\* The fields of an outcome.
LEMMA Outcome ==
    ASSUME NEW x, NEW j, NEW r, NEW b \in BOOLEAN,
           x = [at |-> "done", job |-> j, result |-> r, retried |-> b]
    PROVE  x.at = "done" /\ x.job = j /\ x.result = r /\ x.retried = b
OBVIOUS

\* An execution that ends changes only its own entry.
LEMMA Ended ==
    ASSUME tx = [v \in Executors |-> tx[v]], NEW w \in Executors, NEW result, Done(w, result)
    PROVE  /\ tx' = [v \in Executors |-> tx'[v]]
           /\ \A v \in Executors \ {w} : tx'[v] = tx[v]
           /\ tx'[w].at = "done" /\ tx'[w].job = tx[w].job /\ tx'[w].result = result
           /\ tx'[w].retried => tx[w].receipts # {}
<1> DEFINE b == tx[w].receipts # {}
<1>1. b \in BOOLEAN
  BY Zenon
<1>2. tx' = [tx EXCEPT ![w] = [at |-> "done", job |-> tx[w].job, result |-> result,
                               retried |-> b]]
  BY Zenon DEF Done
<1> HIDE DEF b
<1>3. /\ tx' = [v \in Executors |-> tx'[v]]
      /\ \A v \in Executors \ {w} : tx'[v] = tx[v]
  BY Zenon, <1>2
<1>4. tx'[w] = [at |-> "done", job |-> tx[w].job, result |-> result, retried |-> b]
  BY <1>2, Zenon
<1>5. /\ tx'[w].at = "done" /\ tx'[w].job = tx[w].job /\ tx'[w].result = result
      /\ tx'[w].retried = b
  BY <1>1, <1>4, Outcome
<1> QED BY <1>3, <1>5, Zenon DEF b

\* A new request touches no earlier one.
LEMMA SubmitKeeps ==
    ASSUME CoreInv, NEW j \in Jobs, NEW template, Submit(j, template)
    PROVE  CoreInv'
<1>1. /\ j \notin DOMAIN requests /\ DOMAIN requests' = DOMAIN requests \cup {j}
      /\ \A k \in DOMAIN requests : requests'[k] = requests[k]
  BY Zenon DEF Submit, With
<1>2. /\ objects' = objects /\ receipts' = receipts /\ backend' = backend /\ tx' = tx
      /\ newVersion' = newVersion
  BY Zenon DEF Submit, newVersion
<1>3. Receipted'
  BY Zenon, <1>1, <1>2 DEF CoreInv, Receipted
<1>4. Versions' /\ Rooted'
  BY Zenon, <1>2 DEF CoreInv, Versions, Rooted
<1>5. \A t : Reading(t) => Reading(t)'
  BY <1>1, <1>2 DEF Reading, ReceiptsOf
<1>6. \A t : Answered(t) => Answered(t)'
  BY Zenon, <1>2 DEF Answered
<1> QED BY Zenon, <1>2, <1>3, <1>4, <1>5, <1>6 DEF CoreInv

\* An execution begins with what is stored at that moment.
LEMMA BeginKeeps ==
    ASSUME CoreInv, NEW w \in Executors, NEW j \in Jobs, Begin(w, j)
    PROVE  CoreInv'
<1>1. /\ objects' = objects /\ receipts' = receipts /\ backend' = backend
      /\ requests' = requests
  BY Zenon DEF Begin
<1>2. Ready' /\ \A t : Reading(t)' = Reading(t) /\ Answered(t)' = Answered(t)
  BY Zenon, <1>1, Unwritten DEF CoreInv, Ready
<1> DEFINE t == [at |-> "running", job |-> j,
                 objects  |-> IF backend = "memory" THEN {} ELSE objects,
                 receipts |-> ReceiptsOf(j)]
<1>3. /\ tx' = [v \in Executors |-> tx'[v]]
      /\ \A v \in Executors \ {w} : tx'[v] = tx[v]
      /\ tx'[w] = t
  <2> tx' = [tx EXCEPT ![w] = t]
    BY Zenon DEF Begin
  <2> HIDE DEF t
  <2> QED BY Zenon DEF CoreInv
<1>4. Reading(t) /\ t.at # "done"
  <2>1. t.job \in DOMAIN requests /\ t.receipts \subseteq ReceiptsOf(t.job) /\ t.at # "done"
    BY Zenon DEF Begin
  <2>2. backend # "memory" => t.objects = objects
    BY Zenon
  <2>3. t.receipts = {} => t.job \notin DOMAIN receipts
    BY Zenon DEF ReceiptsOf
  <2> HIDE DEF t
  <2> QED BY Zenon, <2>1, <2>2, <2>3 DEF Reading, CoreInv, Versions
<1> HIDE DEF t
<1>5. ASSUME NEW v \in Executors
      PROVE  /\ tx'[v].at = "running" => Reading(tx'[v])
             /\ tx'[v].at = "done" => Answered(tx'[v])
  BY Zenon, <1>3, <1>4 DEF CoreInv
<1> QED BY <1>2, <1>3, <1>5, Zenon DEF CoreInv, Ready

\* An executor that stops leaves the tables alone.
LEMMA CrashKeeps ==
    ASSUME CoreInv, NEW w \in Executors, Crash(w)
    PROVE  CoreInv'
<1>1. /\ objects' = objects /\ receipts' = receipts /\ backend' = backend
      /\ requests' = requests
  BY Zenon DEF Crash
<1>2. Ready' /\ \A t : Reading(t)' = Reading(t) /\ Answered(t)' = Answered(t)
  BY Zenon, <1>1, Unwritten DEF CoreInv, Ready
<1>3. /\ tx' = [v \in Executors |-> tx'[v]]
      /\ \A v \in Executors \ {w} : tx'[v] = tx[v]
      /\ tx'[w] = Idle
  BY Zenon DEF Crash, CoreInv
<1>4. Idle.at # "running" /\ Idle.at # "done"
  BY Zenon DEF Idle
<1>5. ASSUME NEW v \in Executors
      PROVE  /\ tx'[v].at = "running" => Reading(tx'[v])
             /\ tx'[v].at = "done" => Answered(tx'[v])
  BY Zenon, <1>3, <1>4 DEF CoreInv
<1> QED BY <1>2, <1>3, <1>5, Zenon DEF CoreInv, Ready

\* A replayed answer is the result in the receipt.
LEMMA ReplayKeeps ==
    ASSUME CoreInv, NEW w \in Executors, Replay(w)
    PROVE  CoreInv'
<1>1. /\ objects' = objects /\ receipts' = receipts /\ backend' = backend
      /\ requests' = requests
  BY Zenon DEF Replay
<1>2. Ready' /\ \A t : Reading(t)' = Reading(t) /\ Answered(t)' = Answered(t)
  BY Zenon, <1>1, Unwritten DEF CoreInv, Ready
<1>3. PICK result \in loadCoreMutationReceipt(Snapshot(w), requests[tx[w].job]) : Done(w, result)
  BY Zenon DEF Replay
<1>4. /\ tx' = [v \in Executors |-> tx'[v]]
      /\ \A v \in Executors \ {w} : tx'[v] = tx[v]
      /\ tx'[w].at = "done" /\ tx'[w].job = tx[w].job /\ tx'[w].result = result
  BY Zenon, <1>3, Ended DEF CoreInv
<1>5. Reading(tx[w])
  BY Zenon DEF CoreInv, Replay
<1>6. Snapshot(w).receipts \subseteq ReceiptsOf(tx[w].job)
  BY Zenon, <1>5 DEF Snapshot, Reading
<1>7. PICK receipt \in ReceiptsOf(tx[w].job) : receipt.result = result
  BY Zenon, <1>3, <1>6 DEF loadCoreMutationReceipt
<1>8. /\ tx[w].job \in DOMAIN receipts /\ result = receipts[tx[w].job].result
      /\ result # NoResult
  BY Zenon, <1>7 DEF ReceiptsOf, CoreInv, Receipted
<1>9. Answered(tx'[w])
  BY Zenon, <1>4, <1>8 DEF Answered
<1>10. ASSUME NEW v \in Executors
       PROVE  /\ tx'[v].at = "running" => Reading(tx'[v])
              /\ tx'[v].at = "done" => Answered(tx'[v])
  BY Zenon, <1>4, <1>9 DEF CoreInv
<1> QED BY <1>2, <1>4, <1>10, Zenon DEF CoreInv, Ready

\* An execution that began after the write is never refused: it has the
\* receipt, which is of its own request.
LEMMA RefuseKeeps ==
    ASSUME CoreInv, NEW w \in Executors, NEW now \in Times, Refuse(w, now)
    PROVE  CoreInv'
<1>1. /\ objects' = objects /\ receipts' = receipts /\ backend' = backend
      /\ requests' = requests
  BY Zenon DEF Refuse
<1>2. Ready' /\ \A t : Reading(t)' = Reading(t) /\ Answered(t)' = Answered(t)
  BY Zenon, <1>1, Unwritten DEF CoreInv, Ready
<1>3. Done(w, NoResult)
  BY Zenon DEF Refuse
<1>4. /\ tx' = [v \in Executors |-> tx'[v]]
      /\ \A v \in Executors \ {w} : tx'[v] = tx[v]
      /\ tx'[w].at = "done" /\ tx'[w].job = tx[w].job /\ tx'[w].result = NoResult
      /\ tx'[w].retried => tx[w].receipts # {}
  BY Zenon, <1>3, Ended DEF CoreInv
<1>5. Reading(tx[w])
  BY Zenon DEF CoreInv, Refuse
<1>6. tx[w].receipts = {}
  <2> SUFFICES ASSUME tx[w].receipts # {} PROVE FALSE
    BY Zenon
  <2>1. Snapshot(w).receipts # {} /\ Snapshot(w).receipts \subseteq ReceiptsOf(tx[w].job)
    BY Zenon, <1>5 DEF Snapshot, Reading
  <2>2. PICK x \in Snapshot(w).receipts : x.request = requests[tx[w].job]
    BY Zenon, <2>1 DEF ReceiptsOf, CoreInv, Receipted
  <2> QED BY Zenon, <2>2 DEF Refuse, loadCoreMutationReceipt
<1>7. Answered(tx'[w])
  BY <1>4, <1>6, Zenon DEF Answered
<1>8. ASSUME NEW v \in Executors
      PROVE  /\ tx'[v].at = "running" => Reading(tx'[v])
             /\ tx'[v].at = "done" => Answered(tx'[v])
  BY Zenon, <1>4, <1>7 DEF CoreInv
<1> QED BY <1>2, <1>4, <1>8, Zenon DEF CoreInv, Ready

\* Apply writes for a job that has no receipt yet, on the objects as they are:
\* under the mutex because it looks, in PostgreSQL because the snapshot is not
\* serializable otherwise.
LEMMA Written ==
    ASSUME CoreInv, NEW w \in Executors, NEW now \in Times, Apply(w, now)
    PROVE  /\ tx[w].job \in DOMAIN requests /\ tx[w].job \notin DOMAIN receipts
           /\ \E next \in PrepareMutation(objects, requests[tx[w].job], now, newVersion) :
                /\ objects' = replaceInSnapshot(objects, next)
                /\ receipts' = With(receipts, tx[w].job,
                                    [request |-> requests[tx[w].job], result |-> next])
                /\ Done(w, next)
<1>1. PICK next \in Prepared(w, now) :
         /\ objects' = replaceInSnapshot(objects, next)
         /\ receipts' = With(receipts, tx[w].job,
                             [request |-> requests[tx[w].job], result |-> next])
         /\ Done(w, next)
  BY Zenon DEF Apply
<1>2. Snapshot(w).objects = objects
  BY Zenon DEF Apply, Serializable
<1>3. /\ Snapshot(w).receipts = {}
      /\ next \in PrepareMutation(objects, requests[tx[w].job], now, newVersion)
  BY Zenon, <1>1, <1>2 DEF Prepared
<1>4. Reading(tx[w])
  BY Zenon DEF CoreInv, Apply
<1>5. tx[w].job \notin DOMAIN receipts
  <2>1. CASE backend = "memory"
    <3>1. ReceiptsOf(tx[w].job) = {}
      BY Zenon, <1>3, <2>1 DEF Snapshot
    <3> QED BY Zenon, <3>1 DEF ReceiptsOf
  <2>2. CASE backend # "memory"
    <3>1. tx[w].receipts = {} /\ tx[w].objects = objects
      BY Zenon, <1>2, <1>3, <2>2 DEF Snapshot
    <3> QED BY <1>4, <2>2, <3>1 DEF Reading, CoreInv, Versions
  <2> QED BY Zenon, <2>1, <2>2
<1> QED BY <1>1, <1>3, <1>4, <1>5, Zenon DEF Reading

\* Apply keeps the invariant: the new version is the newest, the root keeps
\* its kind, and every snapshot taken earlier is now behind.
LEMMA ApplyKeeps ==
    ASSUME CoreInv, NEW w \in Executors, NEW now \in Times, Apply(w, now)
    PROVE  CoreInv'
<1> DEFINE job == tx[w].job
           r == requests[tx[w].job]
<1>1. /\ job \in DOMAIN requests /\ job \notin DOMAIN receipts
      /\ backend' = backend /\ requests' = requests
  BY Zenon, Written DEF Apply
<1>2. PICK next \in PrepareMutation(objects, r, now, newVersion) :
         /\ objects' = replaceInSnapshot(objects, next)
         /\ receipts' = With(receipts, job, [request |-> r, result |-> next])
         /\ Done(w, next)
  BY Written, Zenon
<1>3. /\ next.id = r.id /\ next.type = r.type /\ next.doc = r.doc
      /\ next.version = newVersion /\ next # NoResult
      /\ ValidateStoredObjects(objects')
  <2>1. next \in PrepareMutation(objects, r, now, newVersion)
    BY Zenon, <1>2
  <2> HIDE DEF r
  <2>2. /\ CarriesOut(next, r, newVersion)
        /\ ValidateStoredObjects(replaceInSnapshot(objects, next))
    BY Zenon, <2>1, Mutated
  <2> QED BY Zenon, <1>2, <2>2 DEF CarriesOut
<1>4. objects' = {o \in objects : o.id # next.id} \cup {next}
  BY Zenon, <1>2 DEF replaceInSnapshot
<1>5. /\ DOMAIN receipts' = DOMAIN receipts \cup {job}
      /\ \A k \in DOMAIN receipts : receipts'[k] = receipts[k]
      /\ receipts'[job] = [request |-> r, result |-> next]
  BY Zenon, <1>1, <1>2 DEF With
<1>6. /\ IsFiniteSet(DOMAIN receipts') /\ newVersion \in Nat
      /\ newVersion' = newVersion + 1
  <2>1. IsFiniteSet(DOMAIN receipts)
    BY Zenon DEF CoreInv, Receipted
  <2>2. /\ Cardinality(DOMAIN receipts) \in Nat
        /\ IsFiniteSet(DOMAIN receipts \cup {job})
        /\ Cardinality(DOMAIN receipts \cup {job}) = Cardinality(DOMAIN receipts) + 1
    BY Zenon, <1>1, <2>1, FS_AddElement, FS_CardinalityType
  <2> QED BY <1>5, <2>2 DEF newVersion
<1>7. IsFiniteSet(objects')
  <2>1. IsFiniteSet({o \in objects : o.id # next.id})
    BY Zenon, FS_Subset DEF CoreInv
  <2> QED BY Zenon, <1>4, <2>1, FS_AddElement
<1>8. Rooted'
  <2>1. PICK o \in objects : o.type = "scope" /\ o.doc.kind = "global" /\ o.id = "global"
    BY Zenon DEF CoreInv, Rooted
  <2>2. CASE o.id # next.id
    BY Zenon, <1>4, <2>1, <2>2 DEF Rooted
  <2>3. CASE o.id = next.id
    <3>1. r.type = o.type /\ validateTypedSuccessor(o, next, objects)
      <4>1. o.id = r.id
        BY Zenon, <1>3, <2>3
      <4> QED BY <1>2, <4>1, Succeeded, Zenon
    <3>2. next.doc.kind = o.doc.kind
      BY Zenon, <2>1, <3>1 DEF validateTypedSuccessor
    <3> QED BY Zenon, <1>3, <1>4, <2>1, <2>3, <3>1, <3>2 DEF Rooted
  <2> QED BY Zenon, <2>2, <2>3
<1>9. Receipted'
  <2>1. validateStoredEnvelope(next)
    BY Zenon, <1>3, <1>4 DEF ValidateStoredObjects
  <2>2. Verified(r, next)
    BY Zenon, <1>3, <2>1 DEF Verified
  <2>3. receipts'[job].request = r /\ receipts'[job].result = next
    BY <1>5
  <2> QED BY Zenon, <1>1, <1>3, <1>5, <1>6, <2>2, <2>3 DEF CoreInv, Receipted
<1>10. Versions'
  BY <1>3, <1>4, <1>6 DEF CoreInv, Versions
<1>11. ASSUME NEW t, Reading(t)  PROVE  Reading(t)'
  <2>1. t.job \in DOMAIN requests' /\ t.receipts \subseteq ReceiptsOf(t.job)'
    <3>1. t.job \in DOMAIN requests /\ t.receipts \subseteq ReceiptsOf(t.job)
      BY Zenon, <1>11 DEF Reading
    <3>2. ReceiptsOf(t.job) \subseteq ReceiptsOf(t.job)'
      BY Zenon, <1>5 DEF ReceiptsOf
    <3> QED BY Zenon, <1>1, <3>1, <3>2
  <2>2. backend' # "memory" =>
           \A p \in t.objects : p.version \in Nat /\ p.version < newVersion' /\ p.version < next.version
    <3>1. backend # "memory" =>
             \A p \in t.objects : p.version \in Nat /\ p.version < newVersion
      BY Zenon, <1>11 DEF Reading
    <3>2. \A v : v \in Nat /\ v < newVersion => v < newVersion' /\ v < next.version
      BY <1>3, <1>6
    <3> QED BY Zenon, <1>1, <3>1, <3>2
  <2>3. next \in objects'
    BY Zenon, <1>4
  <2> QED BY Zenon, <2>1, <2>2, <2>3 DEF Reading
<1>12. ASSUME NEW t, Answered(t)  PROVE  Answered(t)'
  BY <1>5, <1>12, Zenon DEF Answered
<1>13. /\ tx' = [v \in Executors |-> tx'[v]]
       /\ \A v \in Executors \ {w} : tx'[v] = tx[v]
       /\ tx'[w].at = "done" /\ tx'[w].job = tx[w].job /\ tx'[w].result = next
  BY Zenon, <1>2, Ended DEF CoreInv
<1>14. Answered(tx[w])' 
  <2>1. receipts'[job].result = next /\ job \in DOMAIN receipts'
    BY <1>5
  <2> QED BY Zenon, <1>3, <1>13, <2>1 DEF Answered
<1>15. ASSUME NEW v \in Executors
       PROVE  /\ tx'[v].at = "running" => Reading(tx[v])'
              /\ tx'[v].at = "done" => Answered(tx[v])'
  <2>1. CASE v = w
    BY Zenon, <1>13, <1>14, <2>1
  <2>2. CASE v # w
    <3>1. tx'[v] = tx[v]
      BY Zenon, <1>13, <2>2
    <3>2. /\ tx[v].at = "running" => Reading(tx[v])
          /\ tx[v].at = "done" => Answered(tx[v])
      BY Zenon DEF CoreInv
    <3> DEFINE t == tx[v]
    <3> QED BY Zenon, <1>11, <1>12, <3>1, <3>2
  <2> QED BY Zenon, <2>1, <2>2
<1> QED BY <1>3, <1>7, <1>8, <1>9, <1>10, <1>13, <1>15, Zenon DEF CoreInv

\* Every step keeps the invariant.
LEMMA CoreStep == CoreInv /\ [Next]_vars => CoreInv'
<1> SUFFICES ASSUME CoreInv, [Next]_vars PROVE CoreInv'
  BY Zenon
<1>1. ASSUME NEW j \in Jobs, NEW template \in Templates[workload], Submit(j, template)
      PROVE  CoreInv'
  BY Zenon, <1>1, SubmitKeeps
<1>2. ASSUME NEW w \in Executors, NEW j \in Jobs, Begin(w, j)  PROVE  CoreInv'
  BY Zenon, <1>2, BeginKeeps
<1>3. ASSUME NEW w \in Executors, Replay(w) \/ Crash(w)  PROVE  CoreInv'
  BY Zenon, <1>3, ReplayKeeps, CrashKeeps
<1>4. ASSUME NEW w \in Executors, NEW now \in Times, Apply(w, now) \/ Refuse(w, now)
      PROVE  CoreInv'
  BY Zenon, <1>4, ApplyKeeps, RefuseKeeps
<1>5. ASSUME UNCHANGED vars  PROVE  CoreInv'
  <2>1. /\ objects' = objects /\ receipts' = receipts /\ backend' = backend
        /\ requests' = requests /\ tx' = tx
    BY Zenon, <1>5 DEF vars
  <2>2. Ready' /\ \A t : Reading(t)' = Reading(t) /\ Answered(t)' = Answered(t)
    BY Zenon, <2>1, Unwritten DEF CoreInv, Ready
  <2> QED BY Zenon, <2>1, <2>2 DEF CoreInv, Ready
<1> QED BY <1>1, <1>2, <1>3, <1>4, <1>5, Zenon DEF Next

\* In every reachable state of the store: a valid snapshot under the one
\* global scope, receipts that match their requests, versions in order, and
\* executions that know what they may know.
THEOREM CoreInvariant == Spec => []CoreInv
BY CoreInitially, CoreStep, PTL DEF Spec

\* The invariant gives every job one result.
LEMMA OneResult == CoreInv => JobHasOneResult
<1> SUFFICES ASSUME CoreInv, NEW w \in Executors, tx[w].at = "done"
             PROVE  /\ tx[w].result # NoResult =>
                          /\ tx[w].result = receipts[tx[w].job].result
                          /\ Verified(requests[tx[w].job], tx[w].result)
                    /\ tx[w].retried => tx[w].result # NoResult
  BY Zenon DEF JobHasOneResult
<1>1. Answered(tx[w])
  BY Zenon DEF CoreInv
<1>2. tx[w].retried => tx[w].result # NoResult
  BY <1>1, Zenon DEF Answered
<1>3. ASSUME tx[w].result # NoResult
      PROVE  /\ tx[w].result = receipts[tx[w].job].result
             /\ Verified(requests[tx[w].job], tx[w].result)
  BY Zenon, <1>1, <1>3 DEF Answered, CoreInv, Receipted
<1> QED BY <1>2, <1>3, Zenon

\* However often a job is executed, and whoever wrote since, every answer is
\* the object its one write stored; an execution that begins after the write
\* is answered (Apply with its receipt, loadCoreMutationReceipt), for any
\* jobs, executors and requests.
THEOREM ResultSafety == Spec => []JobHasOneResult
BY CoreInvariant, OneResult, PTL

\* What Apply does to an object is what its author reviewed.
LEMMA Replaced ==
    ASSUME CoreInv, NEW w \in Executors, NEW now \in Times, Apply(w, now), NEW o \in objects
    PROVE  \E n \in objects' : n.id = o.id /\ (n /= o => ReviewedWrite(o, n))
<1> DEFINE job == tx[w].job
           r == requests[tx[w].job]
<1>1. job \notin DOMAIN receipts
  BY Zenon, Written
<1>2. PICK next \in PrepareMutation(objects, r, now, newVersion) :
         /\ objects' = replaceInSnapshot(objects, next)
         /\ receipts' = With(receipts, job, [request |-> r, result |-> next])
  BY Written, Zenon
<1>3. /\ next.id = r.id /\ next.type = r.type /\ next.doc = r.doc
      /\ next.scope = r.scope /\ next.owner = r.owner
  <2>1. next \in PrepareMutation(objects, r, now, newVersion)
    BY Zenon, <1>2
  <2> HIDE DEF r
  <2>2. CarriesOut(next, r, newVersion)
    BY Zenon, <2>1, Mutated
  <2> QED BY Zenon, <2>2 DEF CarriesOut
<1>4. objects' = {x \in objects : x.id # next.id} \cup {next}
  BY Zenon, <1>2 DEF replaceInSnapshot
<1>5. CASE o.id # next.id
  BY Zenon, <1>4, <1>5
<1>6. CASE o.id = next.id
  <2>1. o.id = r.id
    BY Zenon, <1>3, <1>6
  <2>2. /\ ValidateAgainst(r.precondition, o)
        /\ r.type = o.type
        /\ validateTypedSuccessor(o, next, objects)
        /\ ValidateSuccessor(o, next, Content(o) /= Content(r) /\ r.type /= "actual-state")
    BY <1>2, <2>1, Succeeded, Zenon
  <2>3. job \in DOMAIN receipts' \ DOMAIN receipts
    BY Zenon, <1>1, <1>2 DEF With
  <2>4. requests[job].precondition.version = o.version /\ requests[job].precondition.id = o.id
    BY Zenon, <2>2 DEF ValidateAgainst
  <2>5. Content(r) = Content(next)
    BY Zenon, <1>3 DEF Content
  <2>6. /\ next.version /= o.version
        /\ next.updated >= o.updated
        /\ next.generation = o.generation
             + (IF Content(o) /= Content(r) /\ r.type /= "actual-state" THEN 1 ELSE 0)
    BY <2>2, Zenon DEF ValidateSuccessor
  <2>7. next.generation = o.generation
             + (IF o.type /= "actual-state" /\ Content(o) /= Content(next) THEN 1 ELSE 0)
    BY Zenon, <2>2, <2>5, <2>6
  <2>8. o.type = "actual-state" =>
                   /\ next.doc.observedAt >= o.doc.observedAt
                   /\ next.doc.generation >= o.doc.generation
    BY Zenon, <2>2 DEF validateTypedSuccessor
  <2>9. next \in objects' /\ next.id = o.id
    BY Zenon, <1>4, <1>6
  <2>10. ReviewedWrite(o, next)
    BY <2>3, <2>4, <2>6, <2>7, <2>8, Zenon DEF ReviewedWrite
  <2> QED BY Zenon, <2>9, <2>10
<1> QED BY Zenon, <1>5, <1>6

\* No other step changes an object.
LEMMA ReviewStep ==
    CoreInv /\ [Next]_vars =>
    [\A o \in objects : \E n \in objects' : n.id = o.id /\ (n /= o => ReviewedWrite(o, n))]_vars
<1> SUFFICES ASSUME CoreInv, Next, NEW o \in objects
             PROVE  \E n \in objects' : n.id = o.id /\ (n /= o => ReviewedWrite(o, n))
  BY Zenon
<1>1. CASE \E w \in Executors, now \in Times : Apply(w, now)
  BY <1>1, Replaced, Zenon
<1>2. CASE objects' = objects
  BY <1>2, Zenon
<1>3. objects' = objects \/ \E w \in Executors, now \in Times : Apply(w, now)
  BY Zenon DEF Next, Submit, Begin, Replay, Crash, Refuse
<1> QED BY Zenon, <1>1, <1>2, <1>3

\* A write replaces the version its author reviewed, moves the generation with
\* the intent and by one, and nothing disappears (PrepareMutation,
\* ValidateAgainst, ValidateSuccessor, validateTypedSuccessor), for any jobs,
\* executors and requests.
THEOREM ReviewSafety == Spec => WritesFollowReview
BY CoreInvariant, ReviewStep, PTL DEF Spec, WritesFollowReview

\* The parents of a set of scopes, where the walk goes on.
Parenthood(t, U) ==
    {t.scopes[s].parent : s \in {x \in U \cap DOMAIN t.scopes : t.scopes[x].kind /= "global"}}

\* The walk up from a scope stays in every set that is closed under parents.
LEMMA AncestorsStay ==
    ASSUME NEW t, IsFiniteSet(DOMAIN t.scopes), NEW X, NEW id \in X, Parenthood(t, X) \subseteq X
    PROVE  Ancestors(t, id) \subseteq X
<1> DEFINE N == Cardinality(DOMAIN t.scopes)
           D == SUBSET X
           first == {id}
           step == [U \in D |-> U \cup Parenthood(t, U)]
<1>1. N \in Nat
  BY Zenon, FS_CardinalityType
<1>2. step \in [D -> D]
  BY Zenon DEF Parenthood
<1>3. first \in D
  BY Zenon
<1>4. PICK f \in [0 .. N -> D] : f[0] = first /\ \A k \in 1 .. N : f[k] = step[f[k - 1]]
  <2> HIDE DEF D, step, N, first
  <2>1. Iterates(D, first, step, N)
    BY Zenon, <1>1, <1>2, <1>3, Iteration
  <2> QED BY <2>1, Zenon DEF Iterates
<1>5. \A k \in 1 .. N : f[k] = f[k - 1] \cup Parenthood(t, f[k - 1])
  <2> SUFFICES ASSUME NEW k \in 1 .. N
               PROVE  f[k] = f[k - 1] \cup Parenthood(t, f[k - 1])
    BY Zenon
  <2>1. f[k - 1] \in D
    BY <1>1
  <2> QED BY Zenon, <1>4, <2>1
<1>6. f = [n \in 0 .. N |-> IF n = 0 THEN {id} ELSE f[n - 1] \cup Parenthood(t, f[n - 1])]
  BY <1>1, <1>4, <1>5
<1> DEFINE Up == CHOOSE up : up = [n \in 0 .. N |->
                    IF n = 0 THEN {id} ELSE up[n - 1] \cup Parenthood(t, up[n - 1])]
<1>7. Up = [n \in 0 .. N |-> IF n = 0 THEN {id} ELSE Up[n - 1] \cup Parenthood(t, Up[n - 1])]
  BY <1>6, Zenon
<1>8. Ancestors(t, id) = Up[N]
  BY Zenon DEF Ancestors, Parenthood
<1> HIDE DEF Up, N
<1>9. ASSUME NEW n \in 0 .. N PROVE Up[n] \subseteq X
  <2> DEFINE Bad == {k \in 0 .. N : ~(Up[k] \subseteq X)}
  <2>1. SUFFICES ASSUME Bad # {} PROVE FALSE
    BY Zenon
  <2>2. PICK k \in Bad : \A o \in Bad : k <= o
    <3>1. Bad \in SUBSET Nat
      BY <1>1
    <3> HIDE DEF Bad
    <3> QED BY Zenon, <2>1, <3>1, LeastNumber
  <2>3. k # 0
    BY Zenon, <1>7
  <2>4. k - 1 \in 0 .. N /\ k - 1 \notin Bad
    BY <1>1, <2>2, <2>3
  <2>5. Up[k - 1] \subseteq X
    BY Zenon, <2>4
  <2>6. Up[k] = Up[k - 1] \cup Parenthood(t, Up[k - 1])
    BY Zenon, <1>7, <2>3
  <2>7. Up[k] \subseteq X
    BY Zenon, <2>5, <2>6 DEF Parenthood
  <2> QED BY Zenon, <2>7
<1> QED BY <1>1, <1>8, <1>9

\* An index by identifier finds each object's document.
LEMMA Looked ==
    ASSUME NEW S, \A o \in S : o.doc.id = o.id, \A o, p \in S : o.id = p.id => o = p
    PROVE  /\ DOMAIN ByID(S) = {o.id : o \in S}
           /\ \A o \in S : ByID(S)[o.id] = o.doc
<1>1. DOMAIN ByID(S) = {o.id : o \in S}
  BY DEF ByID
<1>2. ASSUME NEW o \in S PROVE ByID(S)[o.id] = o.doc
  <2>1. o.doc.id = o.id /\ o.id \in {x.doc.id : x \in S}
    BY Zenon
  <2>2. ByID(S)[o.id] = (CHOOSE x \in S : x.doc.id = o.id).doc
    BY Zenon, <2>1 DEF ByID
  <2>3. (CHOOSE x \in S : x.doc.id = o.id) = o
    BY <2>1
  <2> QED BY Zenon, <2>2, <2>3
<1> QED BY Zenon, <1>1, <1>2

\* An index of finitely many objects is finite.
LEMMA Listed ==
    ASSUME NEW S, IsFiniteSet(S), \A o \in S : o.doc.id = o.id,
           \A o, p \in S : o.id = p.id => o = p
    PROVE  IsFiniteSet(DOMAIN ByID(S))
<1> DEFINE name == [o \in S |-> o.id]
           T == {o.id : o \in S}
<1>1. name \in Surjection(S, T)
  BY Zenon DEF Surjection
<1>2. IsFiniteSet(T)
  <2> HIDE DEF name, T
  <2> QED BY Zenon, <1>1, FS_Surjection
<1> QED BY Zenon, <1>2, Looked

\* What a valid snapshot says of identifiers, and that scopes and interfaces
\* carry theirs in the document.
LEMMA Typed ==
    ASSUME NEW s, ValidateStoredObjects(s)
    PROVE  /\ \A o, p \in s : o.id = p.id => o = p
           /\ \A o \in s : o.id # NoID
           /\ \A o \in OfType(s, "scope") : o.doc.id = o.id
           /\ \A o \in OfType(s, "network-interface") : o.doc.id = o.id
<1>1. \A o, p \in s : o.id = p.id => o = p
  BY Zenon DEF ValidateStoredObjects
<1>2. \A o \in s : o.id # NoID
  BY Zenon DEF ValidateStoredObjects, validateStoredEnvelope, ValidateMetadata, validateIdentifier
<1>3. \A o \in s : validateTypedObject(o, TopologyOf(s))
  BY Zenon DEF ValidateStoredObjects
<1>4. \A o \in OfType(s, "scope") : o.doc.id = o.id
  BY Zenon, <1>3 DEF validateTypedObject, OfType
<1>5. \A o \in OfType(s, "network-interface") : o.doc.id = o.id
  BY Zenon, <1>3 DEF validateTypedObject, OfType
<1> QED BY Zenon, <1>1, <1>2, <1>4, <1>5

\* The topology of the store: its root is the global scope, the only one of
\* its kind.
LEMMA Rooting ==
    ASSUME CoreInv
    PROVE  LET t == TopologyOf(objects)
               scopes == OfType(objects, "scope")
           IN /\ t.root = "global"
              /\ t.scopes = ByID(scopes)
              /\ DOMAIN t.scopes = {o.id : o \in scopes}
              /\ \A o \in scopes : t.scopes[o.id] = o.doc
              /\ IsFiniteSet(DOMAIN t.scopes)
              /\ \A o \in scopes : o.doc.kind = "global" <=> o.id = "global"
<1> DEFINE t == TopologyOf(objects)
           scopes == OfType(objects, "scope")
<1>1. ValidateStoredObjects(objects) /\ IsFiniteSet(objects) /\ Rooted
  BY Zenon DEF CoreInv
<1>2. /\ \A o, p \in objects : o.id = p.id => o = p
      /\ \A o \in scopes : o.doc.id = o.id
  BY Zenon, <1>1, Typed
<1>3. scopes \subseteq objects
  BY Zenon DEF OfType
<1>4. PICK g \in GlobalScopes(objects) : g.id = "global"
  BY Zenon, <1>1 DEF Rooted, GlobalScopes, OfType
<1>5. GlobalScopes(objects) \subseteq scopes
  BY Zenon DEF GlobalScopes
<1>6. Cardinality(GlobalScopes(objects)) = 1
  BY <1>1, Zenon DEF ValidateStoredObjects, NewTopology
<1>7. \A x \in GlobalScopes(objects) : x = g
  <2>1. IsFiniteSet(GlobalScopes(objects))
    BY Zenon, <1>1, <1>3, <1>5, FS_Subset
  <2>2. PICK x : GlobalScopes(objects) = {x}
    BY Zenon, <1>6, <2>1, FS_Singleton
  <2> QED BY Zenon, <2>2, <1>4
<1>8. t.root = "global" /\ t.scopes = ByID(scopes)
  <2>1. t.root = (CHOOSE o \in GlobalScopes(objects) : TRUE).doc.id /\ t.scopes = ByID(scopes)
    BY Zenon DEF TopologyOf
  <2>2. (CHOOSE o \in GlobalScopes(objects) : TRUE) = g
    BY Zenon, <1>4, <1>7
  <2> QED BY Zenon, <1>2, <1>4, <1>5, <2>1, <2>2
<1>9. IsFiniteSet(scopes)
  BY Zenon, <1>1, <1>3, FS_Subset
<1>10. /\ DOMAIN t.scopes = {o.id : o \in scopes}
       /\ \A o \in scopes : t.scopes[o.id] = o.doc
       /\ IsFiniteSet(DOMAIN t.scopes)
  <2> HIDE DEF scopes
  <2>1. \A o, p \in scopes : o.id = p.id => o = p
    BY Zenon, <1>2, <1>3
  <2>2. /\ DOMAIN ByID(scopes) = {o.id : o \in scopes}
        /\ \A o \in scopes : ByID(scopes)[o.id] = o.doc
        /\ IsFiniteSet(DOMAIN ByID(scopes))
    BY <1>2, <1>9, <2>1, Looked, Listed, Zenon
  <2> QED BY Zenon, <1>8, <2>2
<1>11. \A o \in scopes : o.doc.kind = "global" <=> o.id = "global"
  BY Zenon, <1>2, <1>3, <1>4, <1>5, <1>7 DEF GlobalScopes
<1> QED BY Zenon, <1>8, <1>10, <1>11

\* The stored objects that an object names as its parent.
ParentsOf(o) == {p \in objects : p.id = o.doc.parent}

\* No set of scopes goes round in a circle: each of them has a path to the
\* root (validatePathToRoot).
LEMMA ScopesEnd ==
    ASSUME CoreInv, NEW S \in SUBSET OfType(objects, "scope"), S # {}
    PROVE  \E o \in S : o.doc.kind = "global" \/ ParentsOf(o) \cap S = {}
<1> DEFINE t == TopologyOf(objects)
           scopes == OfType(objects, "scope")
           X == {o.id : o \in S}
<1> SUFFICES ASSUME \A o \in S : o.doc.kind # "global" /\ ParentsOf(o) \cap S # {}
             PROVE  FALSE
  BY Zenon
<1>1. /\ t.root = "global"
      /\ DOMAIN t.scopes = {o.id : o \in scopes}
      /\ \A o \in scopes : t.scopes[o.id] = o.doc
      /\ IsFiniteSet(DOMAIN t.scopes)
      /\ \A o \in scopes : o.doc.kind = "global" <=> o.id = "global"
  BY Zenon, Rooting
<1>2. PICK o \in S : TRUE
  BY Zenon
<1>3. t.root \in Ancestors(t, o.doc.id) /\ o.doc.id = o.id
  <2>1. ValidateStoredObjects(objects)
    BY Zenon DEF CoreInv
  <2>2. \A x \in scopes : validatePathToRoot(t, x.doc.id)
    BY <2>1, Zenon DEF ValidateStoredObjects, NewTopology
  <2>3. \A x \in scopes : x.doc.id = x.id
    BY Zenon, <2>1, Typed
  <2> QED BY Zenon, <2>2, <2>3 DEF validatePathToRoot
<1> HIDE DEF t
<1>4. Parenthood(t, X) \subseteq X
  <2> SUFFICES ASSUME NEW x \in X \cap DOMAIN t.scopes PROVE t.scopes[x].parent \in X
    BY Zenon DEF Parenthood
  <2>1. PICK p \in S : p.id = x
    BY Zenon
  <2>2. t.scopes[x].parent = p.doc.parent
    BY Zenon, <1>1, <2>1
  <2>3. PICK q \in S : q.id = p.doc.parent
    BY Zenon, <2>1 DEF ParentsOf
  <2> QED BY Zenon, <2>2, <2>3
<1>5. o.id \in X
  BY Zenon
<1>6. "global" \in X
  <2> HIDE DEF X
  <2>1. Ancestors(t, o.id) \subseteq X
    BY <1>1, <1>4, <1>5, AncestorsStay, Zenon
  <2> QED BY Zenon, <1>1, <1>3, <2>1
<1>7. PICK g \in S : g.id = "global"
  BY Zenon, <1>6
<1> QED BY Zenon, <1>1, <1>7

\* Every scope but the root has a parent.
LEMMA ScopesHang ==
    ASSUME CoreInv, NEW o \in OfType(objects, "scope"), o.doc.kind # "global"
    PROVE  ParentsOf(o) # {}
<1>1. ValidateStoredObjects(objects)
  BY Zenon DEF CoreInv
<1>2. \A x \in OfType(objects, "scope") \ GlobalScopes(objects) :
            \E p \in OfType(objects, "scope") : p.doc.id = x.doc.parent
  BY <1>1, Zenon DEF ValidateStoredObjects, NewTopology
<1>3. PICK p \in OfType(objects, "scope") : p.doc.id = o.doc.parent
  BY Zenon, <1>2 DEF GlobalScopes
<1>4. p.doc.id = p.id
  BY Zenon, <1>1, Typed
<1> QED BY Zenon, <1>3, <1>4 DEF OfType, ParentsOf

\* The authorities delegated to a scope.
GrantsTo(id) == UNION {o.doc.delegated : o \in {x \in OfType(objects, "scope") : x.id = id}}

\* An owner other than the root holds the authority it decides with
\* (validateTypedObject, IsDelegated).
LEMMA OwnersGranted ==
    ASSUME CoreInv, NEW o \in objects
    PROVE  \/ o.owner = "global" \/ o.type = "actual-state"
           \/ (IF o.type \in {"role-assignment", "desired-state"}
               THEN "desired-state" ELSE "configuration") \in GrantsTo(o.owner)
<1> DEFINE t == TopologyOf(objects)
           scopes == OfType(objects, "scope")
<1>1. /\ t.root = "global"
      /\ DOMAIN t.scopes = {x.id : x \in scopes}
      /\ \A x \in scopes : t.scopes[x.id] = x.doc
      /\ \A x \in scopes : x.doc.kind = "global" <=> x.id = "global"
  BY Zenon, Rooting
<1>2. validateTypedObject(o, t) /\ o.type \in ObjectTypes
  BY Zenon DEF CoreInv, ValidateStoredObjects, validateStoredEnvelope
<1> HIDE DEF t
<1>3. ASSUME NEW place, NEW authority, OwnedUnder(t, o.owner, place, authority)
      PROVE  o.owner = "global" \/ authority \in GrantsTo(o.owner)
  <2>1. CASE o.owner = t.root
    BY Zenon, <1>1, <2>1
  <2>2. CASE IsDelegated(t, o.owner, authority)
    <3>1. PICK x \in scopes : x.id = o.owner
      BY Zenon, <1>1, <2>2 DEF IsDelegated
    <3>2. authority \in x.doc.delegated
      BY Zenon, <1>1, <2>2, <3>1 DEF IsDelegated
    <3> QED BY Zenon, <3>1, <3>2 DEF GrantsTo
  <2> QED BY Zenon, <1>3, <2>1, <2>2 DEF OwnedUnder
<1>4. CASE o.type = "scope"
  <2>1. o \in scopes
    BY Zenon, <1>4 DEF OfType
  <2>2. CASE o.doc.kind = "global"
    BY Zenon, <1>1, <1>2, <1>4, <2>1, <2>2 DEF validateTypedObject
  <2>3. CASE o.doc.kind # "global"
    <3>1. OwnedUnder(t, o.owner, o.id, "configuration")
      BY Zenon, <1>2, <1>4, <2>3 DEF validateTypedObject
    <3> QED BY Zenon, <1>3, <1>4, <3>1
  <2> QED BY Zenon, <2>2, <2>3
<1>5. CASE o.type \in {"site", "management-zone", "network-zone", "network-interface"}
  <2>1. OwnedUnder(t, o.owner, o.scope, "configuration")
    BY Zenon, <1>2, <1>5 DEF validateTypedObject
  <2> QED BY Zenon, <1>3, <1>5, <2>1
<1>6. CASE o.type = "role-assignment"
  <2>1. ValidateRoleAssignment(o, t)
    BY Zenon, <1>2, <1>6 DEF validateTypedObject
  <2>2. OwnedUnder(t, o.owner, o.scope, "desired-state")
    BY <2>1, Zenon DEF ValidateRoleAssignment
  <2> QED BY Zenon, <1>3, <1>6, <2>2
<1>7. CASE o.type = "desired-state"
  <2>1. OwnedUnder(t, o.owner, o.scope, "desired-state")
    BY Zenon, <1>2, <1>7 DEF validateTypedObject, ValidateDesiredState
  <2> QED BY Zenon, <1>3, <1>7, <2>1
<1> QED BY Zenon, <1>2, <1>4, <1>5, <1>6, <1>7 DEF ObjectTypes

\* An interface lies on a node that a role binds to its site
\* (validateNetworkInterface).
LEMMA InterfacesBound ==
    ASSUME CoreInv, NEW i \in OfType(objects, "network-interface")
    PROVE  \E a \in OfType(objects, "role-assignment") :
              a.doc.node = i.doc.node /\ a.doc.site = i.doc.site
<1>1. ValidateNetworkContracts(objects, TopologyOf(objects))
  BY Zenon DEF CoreInv, ValidateStoredObjects
<1>2. validateNetworkInterface(i.doc, ByID(OfType(objects, "network-zone")),
                               OfType(objects, "role-assignment"), TopologyOf(objects))
  BY <1>1, Zenon DEF ValidateNetworkContracts
<1> QED BY <1>2, Zenon DEF validateNetworkInterface

\* The controllers of a scope have one service identity, which is no other
\* scope's (ValidateRoleAssignments).
LEMMA OneServicePerScope ==
    ASSUME CoreInv, NEW a \in OfType(objects, "role-assignment"),
           NEW b \in OfType(objects, "role-assignment"),
           a.doc.role \in ControlPlaneRoles, b.doc.role \in ControlPlaneRoles
    PROVE  a.scope = b.scope <=> a.doc.service = b.doc.service
<1>1. ValidateRoleAssignments(OfType(objects, "role-assignment"), TopologyOf(objects))
  BY Zenon DEF CoreInv, ValidateStoredObjects
<1> QED BY <1>1, Zenon DEF ValidateRoleAssignments

\* One step of acyclicParents.
Endings(interfaces, U) == U \cup {i \in DOMAIN interfaces : interfaces[i].parent \in U}

\* What acyclicParents accepts has an end in every set: an interface whose
\* parent is outside.
LEMMA ParentsEnd ==
    ASSUME NEW interfaces, IsFiniteSet(DOMAIN interfaces), acyclicParents(interfaces),
           NEW S \in SUBSET DOMAIN interfaces, S # {}
    PROVE  \E i \in S : interfaces[i].parent = NoID \/ interfaces[i].parent \notin S
<1> DEFINE N == Cardinality(DOMAIN interfaces)
           D == SUBSET DOMAIN interfaces
           first == {i \in DOMAIN interfaces : interfaces[i].parent = NoID}
           step == [U \in D |-> Endings(interfaces, U)]
<1>1. N \in Nat
  BY Zenon, FS_CardinalityType
<1>2. step \in [D -> D]
  BY Zenon DEF Endings
<1>3. first \in D
  BY Zenon
<1>4. PICK f \in [0 .. N -> D] : f[0] = first /\ \A k \in 1 .. N : f[k] = step[f[k - 1]]
  <2> HIDE DEF D, step, N, first
  <2>1. Iterates(D, first, step, N)
    BY Zenon, <1>1, <1>2, <1>3, Iteration
  <2> QED BY <2>1, Zenon DEF Iterates
<1>5. \A k \in 1 .. N : f[k] = Endings(interfaces, f[k - 1])
  <2> SUFFICES ASSUME NEW k \in 1 .. N
               PROVE  f[k] = Endings(interfaces, f[k - 1])
    BY Zenon
  <2>1. f[k - 1] \in D
    BY <1>1
  <2> QED BY Zenon, <1>4, <2>1
<1>6. f = [n \in 0 .. N |->
             IF n = 0 THEN {i \in DOMAIN interfaces : interfaces[i].parent = NoID}
             ELSE Endings(interfaces, f[n - 1])]
  <2> HIDE DEF first, N, D
  <2>1. f = [n \in 0 .. N |-> IF n = 0 THEN first ELSE Endings(interfaces, f[n - 1])]
    BY <1>1, <1>4, <1>5
  <2> QED BY <2>1, Zenon DEF first
<1> DEFINE Above == CHOOSE above : above = [n \in 0 .. N |->
                 IF n = 0 THEN {i \in DOMAIN interfaces : interfaces[i].parent = NoID}
                 ELSE Endings(interfaces, above[n - 1])]
<1>7. Above = [n \in 0 .. N |->
                 IF n = 0 THEN {i \in DOMAIN interfaces : interfaces[i].parent = NoID}
                 ELSE Endings(interfaces, Above[n - 1])]
  BY <1>6, Zenon
<1>8. Above[N] = DOMAIN interfaces
  BY Zenon DEF acyclicParents, Endings
<1> HIDE DEF Above, N
<1> DEFINE Met == {n \in 0 .. N : Above[n] \cap S # {}}
<1>9. Met \in SUBSET Nat /\ Met # {}
  BY <1>1, <1>8
<1>10. PICK n \in Met : \A o \in Met : n <= o
  <2> HIDE DEF Met
  <2> QED BY Zenon, <1>9, LeastNumber
<1>11. PICK i \in S : i \in Above[n]
  BY Zenon
<1>12. CASE n = 0
  <2>1. interfaces[i].parent = NoID
    BY Zenon, <1>1, <1>7, <1>11, <1>12
  <2> QED BY Zenon, <2>1
<1>13. CASE n # 0
  <2>1. n - 1 \in 0 .. N /\ n - 1 \notin Met
    BY <1>1, <1>10, <1>13
  <2>2. Above[n - 1] \cap S = {}
    BY Zenon, <2>1
  <2>3. Above[n] = Endings(interfaces, Above[n - 1])
    BY Zenon, <1>7, <1>13
  <2>4. interfaces[i].parent \in Above[n - 1]
    BY Zenon, <1>11, <2>2, <2>3 DEF Endings
  <2> QED BY Zenon, <2>2, <2>4
<1> QED BY Zenon, <1>12, <1>13

\* No set of interfaces goes round in a circle.
LEMMA InterfacesEnd ==
    ASSUME CoreInv, NEW S \in SUBSET OfType(objects, "network-interface"), S # {}
    PROVE  \E i \in S : ParentsOf(i) \cap S = {}
<1> DEFINE all == OfType(objects, "network-interface")
           X == {i.id : i \in S}
<1>1. ValidateStoredObjects(objects) /\ IsFiniteSet(objects)
  BY Zenon DEF CoreInv
<1>2. /\ \A o, p \in objects : o.id = p.id => o = p
      /\ \A o \in objects : o.id # NoID
      /\ \A o \in all : o.doc.id = o.id
  BY Zenon, <1>1, Typed
<1>3. acyclicParents(ByID(all))
  BY <1>1, Zenon DEF ValidateStoredObjects, ValidateNetworkContracts
<1>4. all \subseteq objects /\ IsFiniteSet(all)
  <2>1. all \subseteq objects
    BY Zenon DEF OfType
  <2> QED BY Zenon, <1>1, <2>1, FS_Subset
<1> HIDE DEF all
<1>5. /\ DOMAIN ByID(all) = {o.id : o \in all}
      /\ \A o \in all : ByID(all)[o.id] = o.doc
      /\ IsFiniteSet(DOMAIN ByID(all))
  <2>1. \A o, p \in all : o.id = p.id => o = p
    BY Zenon, <1>2, <1>4
  <2> QED BY <1>2, <1>4, <2>1, Looked, Listed, Zenon
<1>6. X \in SUBSET DOMAIN ByID(all) /\ X # {}
  BY Zenon, <1>5 DEF all
<1>7. PICK x \in X : ByID(all)[x].parent = NoID \/ ByID(all)[x].parent \notin X
  <2> HIDE DEF X
  <2> QED BY <1>3, <1>5, <1>6, ParentsEnd, Zenon
<1>8. PICK i \in S : i.id = x
  BY Zenon
<1>9. ByID(all)[x] = i.doc
  BY Zenon, <1>5, <1>8 DEF all
<1>10. ParentsOf(i) \cap S = {}
  BY <1>2, <1>7, <1>9 DEF ParentsOf
<1> QED BY Zenon, <1>10

\* What ValidateStoredObjects accepts, under the global scope, is sound.
LEMMA SnapshotSound == CoreInv => SnapshotStaysSound
<1> SUFFICES ASSUME CoreInv PROVE SnapshotStaysSound
  BY Zenon
<1>1. \A S \in (SUBSET OfType(objects, "scope")) \ {{}} :
         \E o \in S : o.doc.kind = "global" \/ ParentsOf(o) \cap S = {}
  BY Zenon, ScopesEnd
<1>2. \A o \in OfType(objects, "scope") : o.doc.kind /= "global" => ParentsOf(o) /= {}
  BY Zenon, ScopesHang
<1>3. Cardinality({o \in OfType(objects, "scope") : o.doc.kind = "global"}) = 1
  BY Zenon DEF CoreInv, ValidateStoredObjects, NewTopology, GlobalScopes
<1>4. \A o \in objects :
            o.owner = "global" \/ o.type = "actual-state"
              \/ (IF o.type \in {"role-assignment", "desired-state"}
                  THEN "desired-state" ELSE "configuration") \in GrantsTo(o.owner)
  BY OwnersGranted, Zenon
<1>5. \A a, b \in {x \in OfType(objects, "role-assignment") : x.doc.role \in ControlPlaneRoles} :
            a.scope = b.scope <=> a.doc.service = b.doc.service
  BY Zenon, OneServicePerScope
<1>6. \A i \in OfType(objects, "network-interface") :
         \E a \in OfType(objects, "role-assignment") :
            a.doc.node = i.doc.node /\ a.doc.site = i.doc.site
  BY Zenon, InterfacesBound
<1>7. \A S \in (SUBSET OfType(objects, "network-interface")) \ {{}} :
         \E i \in S : ParentsOf(i) \cap S = {}
  BY Zenon, InterfacesEnd
<1> QED BY <1>1, <1>2, <1>3, <1>4, <1>5, <1>6, <1>7, Zenon
        DEF SnapshotStaysSound, ParentsOf, GrantsTo

\* Whatever writers run side by side, the stored snapshot stays one that a
\* reader accepts: one root, delegated owners, one service per scope, bound
\* interfaces, and no circle of parents, for any workload
\* (ValidateStoredObjects in PrepareMutation and Apply).
THEOREM SnapshotSafety == Spec => []SnapshotStaysSound
BY CoreInvariant, SnapshotSound, PTL
=============================================================================
