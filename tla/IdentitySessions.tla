-------------------------- MODULE IdentitySessions --------------------------
(***************************************************************************)
(* Local sign-in and sessions: auth.Service (identity/auth/service.go)     *)
(* behind the HTTP handlers (identity/httpapi/server.go), above the        *)
(* PostgreSQL store (postgres/identity.go) and the login throttle.         *)
(*                                                                         *)
(* A request is a goroutine; every database call is a step of its own, and *)
(* between two of them any other request may run. The password change is a *)
(* transaction whose statements see what was committed before them, so a   *)
(* session inserted while it is open escapes its revocation; the           *)
(* credential version of a session is there for that session.              *)
(*                                                                         *)
(* A hash is salted afresh: it is named by the password and the time it    *)
(* was set. Verifying a password takes far longer than the clock's         *)
(* resolution, so a change is later than the change it builds on. An audit *)
(* event is modelled where failing to write it changes what happens next.  *)
(***************************************************************************)
EXTENDS LoginProtection, TLC

CONSTANTS
    Requests,
    MaxSessions,     \* bound: sessions ever created
    Account,         \* the registered user's name
    Strangers,       \* names nobody has
    Workloads,       \* kinds of requests a behaviour is made of
    Sources,         \* addresses requests come from
    Initial,         \* the bootstrap password
    Acceptable,      \* passwords that satisfy validatePassword
    None,
    SessionTTL, SessionIdleTimeout,
    MaxClock         \* bound: last clock value explored

Passwords == Acceptable \union {Initial}

\* Rows of cc_local_users and cc_auth_sessions.
User == [hash : Passwords \X Nat, changedAt : Nat, required : BOOLEAN]

Session == [version : Nat, created : Nat, activity : Nat, expires : Nat, revoked : BOOLEAN]

\* NewService's range check, a bootstrap password outside the policy, and None for
\* what is not there.
ASSUME ServiceAssumption ==
    /\ SessionTTL \in Nat /\ SessionIdleTimeout \in 1..SessionTTL
    /\ Initial \notin Acceptable
    /\ MaxSessions \in Nat
    /\ IsFiniteSet(Requests)
    /\ None \notin Requests \union User \union Session

VARIABLES
    user,      \* the row of cc_local_users
    sessions,  \* cc_auth_sessions by id, None before they are created
    request,   \* what each goroutine is doing and has read
    userLock,  \* the request whose open transaction holds the user's row, or None
    doomed,    \* sessions that transaction has marked revoked, not yet committed
    buckets,   \* LoginProtector.buckets
    issued,    \* tokens clients have, by the id of their session
    clock,
    workload   \* the kinds of requests of this behaviour

vars == <<user, sessions, request, userLock, doomed, buckets, issued, clock, workload>>

Idle == [pc |-> "idle"]

SessionIds == 1..MaxSessions

Hash(password, at) == <<password, at>>

Verify(password, hash) == hash[1] = password

Created == {s \in SessionIds : sessions[s] # None}

Unrevoked == {s \in Created : ~sessions[s].revoked}

\* At every start; ON CONFLICT DO NOTHING: the row of an earlier start stands.
BootstrapAdmin(row, at) ==
    IF row = None THEN [hash |-> Hash(Initial, at), changedAt |-> at, required |-> TRUE]
    ELSE row

Init ==
    /\ user = BootstrapAdmin(None, 1)
    /\ sessions = [s \in SessionIds |-> None]
    /\ request = [r \in Requests |-> Idle]
    /\ userLock = None /\ doomed = {}
    /\ buckets = <<>>
    /\ issued = {}
    /\ clock = 1
    /\ workload \in Workloads

At(r, pc) == request[r].pc = pc

\* Request r goes on as the given record says.
Goes(r, state) == request' = [request EXCEPT ![r] = state]

Ends(r) == Goes(r, Idle)

idleExpiresAt(session) ==
    IF session.expires < session.activity + SessionIdleTimeout THEN session.expires
    ELSE session.activity + SessionIdleTimeout

activeAt(session, now) ==
    ~session.revoked /\ now < session.expires /\ now < idleExpiresAt(session)

\* A row the open transaction has updated makes other writers wait.
Free(s) == s \notin doomed

-----------------------------------------------------------------------------
(* Login *)

\* One session is reserved for each login under way.
Room == Cardinality(SessionIds \ Created) >
        Cardinality({r \in Requests : request[r].pc \in {"login", "create"}})

\* "mistyped": logins with any name and password; "signed_in": the user's own
\* logins, with the password of the moment, and requests with their tokens.
Typed(name, password) ==
    workload = "mistyped" \/ (name = Account /\ Verify(password, user.hash))

LoginStart(r) == \E name \in {Account} \union Strangers, password \in Passwords, source \in Sources :
    /\ At(r, "idle") /\ Room /\ Typed(name, password)
    /\ buckets' = AfterBlocked(buckets, name, source, clock)
    /\ IF Blocked(buckets, name, source, clock) THEN Ends(r)
       ELSE Goes(r, [pc |-> "login", name |-> name, password |-> password,
                     source |-> source, now |-> clock])
    /\ UNCHANGED <<user, sessions, userLock, doomed, issued, clock, workload>>

\* A lookup that fails is counted like a wrong password.
LoginVerify(r) == \E found \in BOOLEAN :
    LET q == request[r]
        valid == found /\ q.name = Account /\ Verify(q.password, user.hash)
    IN /\ At(r, "login")
       /\ IF valid
          THEN /\ buckets' = RecordSuccess(buckets, q.name)
               /\ Goes(r, [pc |-> "create", now |-> q.now, hash |-> user.hash,
                           version |-> user.changedAt])
          ELSE /\ buckets' \in RecordFailure(buckets, q.name, q.source, q.now)
               /\ Ends(r)
       /\ UNCHANGED <<user, sessions, userLock, doomed, issued, clock, workload>>

\* Only while the committed row still has the hash that was verified.
CreateSession(r) ==
    LET q == request[r]
        id == Cardinality(Created) + 1
    IN /\ At(r, "create")
       /\ \/ /\ user.hash = q.hash
             /\ sessions' = [sessions EXCEPT ![id] =
                    [version |-> q.version, created |-> q.now, activity |-> q.now,
                     expires |-> q.now + SessionTTL, revoked |-> FALSE]]
             /\ Goes(r, [pc |-> "report", now |-> q.now, session |-> id])
          \/ Ends(r) /\ UNCHANGED sessions
       /\ UNCHANGED <<user, userLock, doomed, buckets, issued, clock, workload>>

\* A login that cannot be audited is taken back; its token is never sent.
LoginReport(r) == \E written \in BOOLEAN :
    /\ At(r, "report")
    /\ Goes(r, [request[r] EXCEPT !.pc = IF written THEN "last" ELSE "undo"])
    /\ UNCHANGED <<user, sessions, userLock, doomed, buckets, issued, clock, workload>>

Revoked(set) ==
    [s \in SessionIds |-> IF s \in set THEN [sessions[s] EXCEPT !.revoked = TRUE] ELSE sessions[s]]

LoginUndo(r) == \E done \in BOOLEAN :
    LET q == request[r]
    IN /\ At(r, "undo") /\ Free(q.session)
       /\ sessions' = IF done THEN Revoked({q.session}) ELSE sessions
       /\ Ends(r)
       /\ UNCHANGED <<user, userLock, doomed, buckets, issued, clock, workload>>

\* SetLastLogin waits for the row; whether it succeeds is ignored.
LoginLast(r) ==
    /\ At(r, "last") /\ userLock = None
    /\ issued' = issued \union {request[r].session}
    /\ Ends(r)
    /\ UNCHANGED <<user, sessions, userLock, doomed, buckets, clock, workload>>

-----------------------------------------------------------------------------
(* Authenticate, around every other handler but logout *)

\* What a request with a token may ask for; "self" stands for the reads.
Operations == {"self", "password", "revoke", "revoke_all"}

\* The routes behind RequirePasswordCurrent.
CurrentPasswordOnly == {"self", "revoke", "revoke_all"}

AuthFind(r) == \E s \in issued :
    /\ At(r, "idle") /\ workload = "signed_in" /\ activeAt(sessions[s], clock)
    /\ Goes(r, [pc |-> "user", session |-> s, now |-> clock,
                version |-> sessions[s].version, began |-> user.changedAt])
    /\ UNCHANGED <<user, sessions, userLock, doomed, buckets, issued, clock, workload>>

\* Mutant of SameCredentials: revocation alone is trusted.
AnyCredentials(version) == TRUE

SameCredentials(version) == version = user.changedAt

AuthUser(r) ==
    LET q == request[r]
    IN /\ At(r, "user")
       /\ \/ /\ SameCredentials(q.version)
             /\ Goes(r, [pc |-> "touch", session |-> q.session, now |-> q.now,
                         version |-> q.version, began |-> q.began, required |-> user.required])
          \/ Ends(r)
       /\ UNCHANGED <<user, sessions, userLock, doomed, buckets, issued, clock, workload>>

\* Mutant of Touched: the newest request wins, whenever it arrived.
TouchedLast(s, at) == [sessions EXCEPT ![s].activity = at]

\* GREATEST(last_activity_at, at)
Touched(s, at) == [sessions EXCEPT ![s].activity = IF at > @ THEN at ELSE @]

AuthTouch(r) ==
    LET q == request[r]
    IN /\ At(r, "touch") /\ Free(q.session)
       /\ \/ /\ ~sessions[q.session].revoked /\ q.now < sessions[q.session].expires
             /\ sessions' = Touched(q.session, q.now)
             /\ Goes(r, [q EXCEPT !.pc = "admitted"])
          \/ Ends(r) /\ UNCHANGED sessions
       /\ UNCHANGED <<user, userLock, doomed, buckets, issued, clock, workload>>

\* The handler behind the middleware, whichever route was asked for; a
\* first-login password opens only the one that replaces it.
Dispatch(r) == \E op \in Operations :
    /\ At(r, "admitted")
    /\ IF op = "self" \/ (request[r].required /\ op \in CurrentPasswordOnly) THEN Ends(r)
       ELSE Goes(r, [pc |-> op])
    /\ UNCHANGED <<user, sessions, userLock, doomed, buckets, issued, clock, workload>>

-----------------------------------------------------------------------------
(* ChangePassword *)

\* The current password is verified against, and the new one compared with,
\* the row as it is read here; a refusal or a failed read leaves nothing behind.
PasswordCheck(r) ==
    /\ At(r, "password")
    /\ \/ \E current \in Passwords, new \in Acceptable :
            /\ Verify(current, user.hash) /\ ~Verify(new, user.hash)
            /\ clock > user.changedAt
            /\ Goes(r, [pc |-> "update", hash |-> user.hash, new |-> new, now |-> clock])
       \/ Ends(r)
    /\ UNCHANGED <<user, sessions, userLock, doomed, buckets, issued, clock, workload>>

\* A session cannot be revoked before it was created: the table refuses it.
Revocable(set, at) == \A s \in set : sessions[s].created <= at

\* Mutant of Unchanged: the row is replaced whatever it holds.
UnchangedOrNot(hash) == TRUE

\* WHERE password_hash = expected
Unchanged(hash) == user.hash = hash

\* Both UPDATE statements of the transaction, waiting for the row.
PasswordUpdate(r) ==
    LET q == request[r]
    IN /\ At(r, "update") /\ userLock = None
       /\ \/ /\ Unchanged(q.hash) /\ Revocable(Unrevoked, q.now)
             /\ userLock' = r /\ doomed' = Unrevoked
             /\ Goes(r, [q EXCEPT !.pc = "commit"])
          \/ Ends(r) /\ UNCHANGED <<userLock, doomed>>
       /\ UNCHANGED <<user, sessions, buckets, issued, clock, workload>>

\* The event after the commit decides the answer, not the change.
PasswordCommit(r) ==
    LET q == request[r]
    IN /\ At(r, "commit")
       /\ user' = [hash |-> Hash(q.new, q.now), changedAt |-> q.now, required |-> FALSE]
       /\ sessions' = Revoked(doomed)
       /\ userLock' = None /\ doomed' = {}
       /\ Ends(r)
       /\ UNCHANGED <<buckets, issued, clock, workload>>

PasswordAbort(r) ==
    /\ At(r, "commit")
    /\ userLock' = None /\ doomed' = {}
    /\ Ends(r)
    /\ UNCHANGED <<user, sessions, buckets, issued, clock, workload>>

-----------------------------------------------------------------------------
(* RevokeSession, RevokeAllSessions and Logout *)

\* The user is read first, the session after it.
RevokeUser(r) ==
    /\ At(r, "revoke")
    /\ Goes(r, [pc |-> "find", now |-> clock, version |-> user.changedAt]) \/ Ends(r)
    /\ UNCHANGED <<user, sessions, userLock, doomed, buckets, issued, clock, workload>>

RevokeFind(r) ==
    LET q == request[r]
    IN /\ At(r, "find")
       /\ \/ \E s \in Created :
               /\ activeAt(sessions[s], q.now) /\ sessions[s].version = q.version
               /\ Goes(r, [pc |-> "ask", session |-> s, now |-> q.now])
          \/ Ends(r)
       /\ UNCHANGED <<user, sessions, userLock, doomed, buckets, issued, clock, workload>>

\* The request must be in the audit log before anything is revoked.
RevokeAsk(r) ==
    /\ At(r, "ask")
    /\ Goes(r, [request[r] EXCEPT !.pc = "apply"]) \/ Ends(r)
    /\ UNCHANGED <<user, sessions, userLock, doomed, buckets, issued, clock, workload>>

RevokeApply(r) ==
    LET q == request[r]
    IN /\ At(r, "apply") /\ Free(q.session)
       /\ \/ /\ q.session \in Unrevoked /\ q.now < sessions[q.session].expires
             /\ Revocable({q.session}, q.now)
             /\ sessions' = Revoked({q.session})
          \/ UNCHANGED sessions
       /\ Ends(r)
       /\ UNCHANGED <<user, userLock, doomed, buckets, issued, clock, workload>>

RevokeAllAsk(r) ==
    /\ At(r, "revoke_all")
    /\ Goes(r, [pc |-> "apply_all", now |-> clock]) \/ Ends(r)
    /\ UNCHANGED <<user, sessions, userLock, doomed, buckets, issued, clock, workload>>

\* One statement: all of the user's sessions or, if the table refuses one, none.
RevokeAllApply(r) ==
    LET q == request[r]
    IN /\ At(r, "apply_all") /\ \A s \in Unrevoked : Free(s)
       /\ \/ /\ Revocable(Unrevoked, q.now)
             /\ sessions' = Revoked(Unrevoked)
          \/ UNCHANGED sessions
       /\ Ends(r)
       /\ UNCHANGED <<user, userLock, doomed, buckets, issued, clock, workload>>

\* Logout asks for no live session, only for a token that was issued.
Logout(r) == \E s \in issued :
    /\ At(r, "idle") /\ workload = "signed_in" /\ Free(s)
    /\ sessions' = Revoked({s})
    /\ UNCHANGED <<user, request, userLock, doomed, buckets, issued, clock, workload>>

-----------------------------------------------------------------------------
(* The process *)

\* The process dies with its requests, its open transaction and its throttle.
Restart ==
    /\ user' = BootstrapAdmin(user, clock)
    /\ request' = [r \in Requests |-> Idle]
    /\ userLock' = None /\ doomed' = {}
    /\ buckets' = <<>>
    /\ UNCHANGED <<sessions, issued, clock, workload>>

Tick == clock < MaxClock /\ clock' = clock + 1
        /\ UNCHANGED <<user, sessions, request, userLock, doomed, buckets, issued, workload>>

Step(r) ==
    \/ LoginVerify(r) \/ CreateSession(r) \/ LoginReport(r) \/ LoginUndo(r) \/ LoginLast(r)
    \/ AuthUser(r) \/ AuthTouch(r) \/ Dispatch(r)
    \/ PasswordCheck(r) \/ PasswordUpdate(r) \/ PasswordCommit(r) \/ PasswordAbort(r)
    \/ RevokeUser(r) \/ RevokeFind(r) \/ RevokeAsk(r) \/ RevokeApply(r)
    \/ RevokeAllAsk(r) \/ RevokeAllApply(r)

Next ==
    \/ \E r \in Requests : LoginStart(r) \/ AuthFind(r) \/ Logout(r) \/ Step(r)
    \/ Restart \/ Tick

Spec == Init /\ [][Next]_vars

RequestSymmetry == Permutations(Requests)

-----------------------------------------------------------------------------
(* Properties *)

\* Authenticate lets nobody in on credentials that had been replaced before
\* the request began, not even with a session created while the change that
\* replaced them was being committed (service.go:136).
AdmissionIsCurrent ==
    \A r \in Requests : At(r, "admitted") => request[r].version >= request[r].began

\* A session only ever loses: it is never revived, its lifetime and credential
\* version never change, a late request does not set its activity back, and no
\* activity is recorded for a revoked session (identity.go:129-148).
SessionsOnlyEnd == [][
    \A s \in Created :
        LET old == sessions[s]
            new == sessions'[s]
        IN /\ \A f \in DOMAIN old \ {"activity", "revoked"} : new[f] = old[f]
           /\ old.revoked => new = old
           /\ new.activity >= old.activity /\ new.activity < new.expires]_vars

\* The password row is only replaced by a request that has verified the very
\* hash it replaces, later in time; neither a second change under way nor the
\* bootstrap of a restart overwrites it (identity.go:45, identity.go:149).
CredentialsMoveForward == [][
    user' # user =>
        /\ user'.changedAt > user.changedAt /\ ~user'.required
        /\ userLock # None /\ request[userLock].hash = user.hash]_vars

\* Access that ended does not come back: neither a session nor a password that
\* was replaced (Touch, RevokeAll, ChangePassword and BootstrapAdmin).
NothingIsRevived == SessionsOnlyEnd /\ CredentialsMoveForward

\* A key that is blocked stays blocked until its time is over, whatever else
\* is counted or evicted; only a successful login of that account or a restart
\* lifts the block, and the map never outgrows its bound (login_protection.go).
BlockHolds == [][
    /\ Cardinality(DOMAIN buckets') <= MaxTrackedKeys
    /\ \A k \in DOMAIN buckets : BlockedAt(buckets[k], clock) =>
         \/ k \in DOMAIN buckets' /\ buckets'[k].until = buckets[k].until
         \/ \E r \in Requests : At(r, "login") /\ request'[r].pc = "create" /\ request[r].name = k
         \/ Restart]_vars
=============================================================================
