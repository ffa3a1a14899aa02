--------------------------- MODULE ObjectMetadata ---------------------------
(***************************************************************************)
(* The envelope of a distributed object and its optimistic concurrency     *)
(* (src/internal/corecontracts/metadata.go).  An envelope is a record with *)
(* the fields id, scope, owner, generation, version, created and updated.  *)
(* Identifiers and versions are compared and never parsed: every malformed *)
(* identifier is the one value NoID, and versions are numbers, 0 a         *)
(* malformed one.  Time 0 is the zero time, generation 0 an absent one;    *)
(* the overflow of a generation of 64 bits is out of every run's reach.    *)
(***************************************************************************)
EXTENDS Naturals

NoID == ""

NoPrecondition == [id |-> NoID, version |-> 0, generation |-> 0]

validateIdentifier(value) == value /= NoID

validateOpaqueVersion(value) == value > 0

ValidateMetadata(m) ==
  /\ validateIdentifier(m.id)
  /\ validateIdentifier(m.scope)
  /\ validateIdentifier(m.owner)
  /\ m.generation > 0
  /\ validateOpaqueVersion(m.version)
  /\ m.created > 0
  /\ m.updated >= m.created

AnyVersion(p, current) == p.id = current.id

\* A write acts on the object its caller read: the identity and the version
\* are compulsory, the generation is compared when it was given.
ValidateAgainst(p, current) ==
  /\ validateIdentifier(p.id)
  /\ validateOpaqueVersion(p.version)
  /\ ValidateMetadata(current)
  /\ p.id = current.id
  /\ p.version = current.version
  /\ p.generation \in {0, current.generation}

\* Every stored update has a version of its own; the generation counts the
\* changes of intent, one by one, and only those may change the ownership.
ValidateSuccessor(current, next, desiredChanged) ==
  /\ ValidateMetadata(current)
  /\ ValidateMetadata(next)
  /\ next.id = current.id
  /\ next.created = current.created
  /\ next.updated >= current.updated
  /\ next.version /= current.version
  /\ \/ desiredChanged
     \/ next.scope = current.scope /\ next.owner = current.owner
  /\ next.generation = current.generation + (IF desiredChanged THEN 1 ELSE 0)
=============================================================================
