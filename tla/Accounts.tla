------------------------------ MODULE Accounts ------------------------------
(***************************************************************************)
(* Accounts, sessions and store owners of packages/core: AuthService with  *)
(* UserService, SessionService and TwoFactorService over the users and     *)
(* sessions tables, and OnboardingService, which writes the same users.    *)
(*                                                                         *)
(* A call is one HTTP request; it is suspended at its database calls.  The *)
(* awaits between that touch only its own variables (hashing, encryption)  *)
(* belong to the read before them.  The lock of login is LoginThrottle;    *)
(* creating a tenant is one step here and TenantProvisioning in full.      *)
(***************************************************************************)
EXTENDS Naturals, FiniteSets

CONSTANTS
    Emails,      \* User.email, and so users
    Passwords,
    Stores,      \* tenant ids that onboarding asks for
    Calls,
    Operations,  \* the handlers that are called
    Imported,    \* emails whose rows another program wrote as salt:hash
    MaxFaults,   \* bound on database calls that throw
    NoStore, NoPassword, NoCall

VARIABLES
    users,     \* [Emails -> User], NoUser when there is no row
    sessions,  \* [Calls -> {"none", "valid", "invalid"}], by the call that made it
    stores,    \* tenants that exist
    call,      \* [Calls -> Call]
    faults,
    copy,      \* history: [Calls -> Copies], of the row a call read to save it later
    ended,     \* history: sessions there were when all those of their user were ended
    late       \* history: calls then between their check and their session

history == <<copy, ended, late>>
vars == <<users, sessions, stores, call, faults, history>>

\* The roles are left out: no handler here looks at one.
User  == [there: BOOLEAN, password: Passwords \cup {NoPassword}, hashed: BOOLEAN,
          store: Stores \cup {NoStore}, active: BOOLEAN, tfa: BOOLEAN]
NoUser == [there |-> FALSE, password |-> NoPassword, hashed |-> FALSE, store |-> NoStore,
           active |-> FALSE, tfa |-> FALSE]

\* A copy is stale once another call saved the row, and written when it was saved so.
Copies == {"fresh", "stale", "written"}

Locations == {"idle", "find", "findAgain", "insert", "session", "verify", "findSession",
              "findUser", "invalidateOne", "invalidateAll", "read", "save",
              "createTenant", "done"}
Call   == [op: Operations \cup {"none"}, pc: Locations, email: Emails,
           password: Passwords, new: Passwords, store: Stores \cup {NoStore},
           from: Calls \cup {NoCall}, row: User, linked: BOOLEAN,
           res: {"none", "ok", "error"}]

\* Mutant: the stored secret fits its column.
StoredSecretFitsMutantText == TRUE

\* twoFactorSecret is a VARCHAR(255), the JSON that encryptSensitiveData returns
\* for a base32 secret is longer: an update that carries it is refused.
StoredSecretFits == FALSE

\* verifySecureHash: without a ':' in the stored value there is nothing to match.
VerifySecureHash(p, u) == u.there /\ u.hashed /\ u.password = p

\* JwtStrategy.validate: a token is good while its user is active, whatever
\* became of the session it was issued with.
Authorised(e) == /\ users[e].there /\ users[e].active
                 /\ \E c \in Calls : sessions[c] # "none" /\ call[c].email = e

AnyEmail    == CHOOSE e \in Emails : TRUE
AnyPassword == CHOOSE p \in Passwords : TRUE
Idle == [op |-> "none", pc |-> "idle", email |-> AnyEmail, password |-> AnyPassword,
         new |-> AnyPassword, store |-> NoStore, from |-> NoCall,
         row |-> NoUser, linked |-> FALSE, res |-> "none"]

Init ==
    /\ \E seeded \in [Imported -> {u \in User : u.there /\ u.hashed /\ ~u.tfa
                          /\ u.password = AnyPassword /\ u.store = NoStore}] :
           users = [e \in Emails |-> IF e \in Imported THEN seeded[e] ELSE NoUser]
    /\ sessions = [c \in Calls |-> "none"]
    /\ stores = {}
    /\ call = [c \in Calls |-> Idle]
    /\ faults = 0
    /\ copy = [c \in Calls |-> "fresh"] /\ ended = {} /\ late = {}

-----------------------------------------------------------------------------
(* The handlers, up to their first database call.                          *)

Begin(c, r) ==
    /\ call[c].pc = "idle" /\ r.op \in Operations
    /\ call' = [call EXCEPT ![c] = r]
    /\ UNCHANGED <<users, sessions, stores, faults, history>>

\* The tenant of the new user comes from the request, which may name any or none.
Register(c) == \E e \in Emails, p \in Passwords, s \in Stores \cup {NoStore} :
    Begin(c, [Idle EXCEPT !.op = "register", !.pc = "find", !.email = e,
                          !.password = p, !.store = s])

Login(c) == \E e \in Emails, p \in Passwords :
    Begin(c, [Idle EXCEPT !.op = "login", !.pc = "verify", !.email = e, !.password = p])

\* refreshToken and logout are handed the refresh token of some session: of its
\* own user for a refresh, of any for a logout.
WithToken(c) == \E d \in Calls \ {c} : sessions[d] # "none" /\
    \/ Begin(c, [Idle EXCEPT !.op = "refresh", !.pc = "findSession", !.from = d,
                             !.email = call[d].email])
    \/ \E e \in {m \in Emails : Authorised(m)} :
          Begin(c, [Idle EXCEPT !.op = "logout", !.pc = "invalidateOne", !.from = d,
                                !.email = e])

\* verify2FA, and the handlers behind JwtAuthGuard.
Verify2FA(c) == \E e \in Emails :
    Begin(c, [Idle EXCEPT !.op = "verify2FA", !.pc = "read", !.email = e])

Guarded(c) == \E e \in {d \in Emails : Authorised(d)} :
    \/ Begin(c, [Idle EXCEPT !.op = "logoutAll", !.pc = "invalidateAll", !.email = e])
    \/ Begin(c, [Idle EXCEPT !.op = "enable2FA", !.pc = "read", !.email = e])
    \/ \E p \in Passwords, q \in Passwords :
           Begin(c, [Idle EXCEPT !.op = "changePassword", !.pc = "read", !.email = e,
                                 !.password = p, !.new = q])

\* quickStart: checkDomainAvailability looks in activeTenants, which is empty in
\* the object graph of the request, so it always answers that the domain is free.
QuickStart(c) == \E e \in Emails, p \in Passwords, s \in Stores :
    Begin(c, [Idle EXCEPT !.op = "quickStart", !.pc = "find", !.email = e,
                          !.password = p, !.store = s])

Start(c) == Register(c) \/ Login(c) \/ WithToken(c) \/ Verify2FA(c) \/ Guarded(c) \/ QuickStart(c)

-----------------------------------------------------------------------------
(* Database calls, and what runs until the next one.                       *)

Goto(c, l)   == call' = [call EXCEPT ![c].pc = l]
Finish(c, a) == call' = [call EXCEPT ![c].pc = "done", ![c].res = a]
At(c, l)     == call[c].pc = l
Row(c)       == users[call[c].email]
Only(v)      == UNCHANGED <<stores, faults>> /\ UNCHANGED v
\* The other calls for the user of c.
Others(c)    == {d \in Calls \ {c} : call[d].email = call[c].email}

\* findByEmail of register and of quickStart.
Find(c) ==
    /\ At(c, "find") /\ Only(<<users, sessions, history>>)
    /\ IF call[c].op = "quickStart"
       THEN call' = [call EXCEPT ![c].pc = "createTenant", ![c].row = Row(c)]
       ELSE IF Row(c).there THEN Finish(c, "error") ELSE Goto(c, "findAgain")

\* tenantService.createTenant rejects an id that is taken.
CreateTenant(c) ==
    /\ At(c, "createTenant") /\ UNCHANGED <<users, sessions, faults, history>>
    /\ IF call[c].store \in stores
       THEN Finish(c, "error") /\ UNCHANGED stores
       ELSE /\ stores' = stores \cup {call[c].store}
            /\ IF call[c].row.there
               THEN call' = [call EXCEPT ![c].pc = "save", ![c].linked = TRUE,
                                         ![c].row.store = call[c].store]
               ELSE Goto(c, "findAgain")

\* UserService.create looks the email up again before it inserts.
FindAgain(c) ==
    /\ At(c, "findAgain") /\ Only(<<users, sessions, history>>)
    /\ IF Row(c).there THEN Finish(c, "error") ELSE Goto(c, "insert")

\* Mutant: upsert instead of create, so that a second insert overwrites the row.
InsertMutantUpsert(c) ==
    LET r == call[c]
        u == [NoUser EXCEPT !.there = TRUE, !.password = r.password, !.store = r.store,
                            !.active = TRUE]
    IN  /\ At(c, "insert") /\ Only(<<sessions, history>>)
        /\ users' = [users EXCEPT ![r.email] = u]
        /\ IF r.op = "register" THEN call' = [call EXCEPT ![c].pc = "session", ![c].row = u]
                                ELSE Finish(c, "ok")

\* prisma.user.create: the email is unique; the password is stored as it came.
Insert(c) ==
    LET r == call[c]
        u == [NoUser EXCEPT !.there = TRUE, !.password = r.password, !.store = r.store,
                            !.active = TRUE]
    IN  /\ At(c, "insert") /\ Only(<<sessions, history>>)
        /\ IF Row(c).there
           THEN Finish(c, "error") /\ UNCHANGED users
           ELSE /\ users' = [users EXCEPT ![r.email] = u]
                /\ IF r.op = "register"
                   THEN call' = [call EXCEPT ![c].pc = "session", ![c].row = u]
                   ELSE Finish(c, "ok")

\* login: findByEmail, verifySecureHash and the status.  A second factor would
\* need the secret decrypted by another instance than encrypted it: it throws.
Verify(c) ==
    /\ At(c, "verify") /\ Only(<<users, sessions, history>>)
    /\ IF VerifySecureHash(call[c].password, Row(c)) /\ Row(c).active /\ ~Row(c).tfa
       THEN Goto(c, "session") ELSE Finish(c, "error")

\* Mutant: findByRefreshToken forgets isInvalidated.
FindSessionMutantAny(c) ==
    /\ At(c, "findSession") /\ Only(<<users, sessions, history>>)
    /\ Goto(c, "findUser")

\* findByRefreshToken: an invalidated or an expired session is no session.
FindSession(c) ==
    /\ At(c, "findSession") /\ Only(<<users, sessions, history>>)
    /\ \/ sessions[call[c].from] = "valid" /\ Goto(c, "findUser")
       \/ Finish(c, "error")

FindUser(c) ==
    /\ At(c, "findUser") /\ Only(<<users, sessions, history>>)
    /\ Goto(c, "session")

CreateSession(c) ==
    /\ At(c, "session") /\ Only(<<users, history>>)
    /\ sessions' = [sessions EXCEPT ![c] = "valid"]
    /\ Finish(c, "ok")

InvalidateOne(c) ==
    /\ At(c, "invalidateOne") /\ Only(<<users, history>>)
    /\ sessions' = [sessions EXCEPT ![call[c].from] = "invalid"]
    /\ Goto(c, "invalidateAll")

\* invalidateAllUserSessions: one UPDATE of the sessions there are.
InvalidateAll(c) ==
    /\ At(c, "invalidateAll") /\ Only(<<users, copy>>)
    /\ sessions' = [d \in Calls |-> IF sessions[d] = "valid" /\ d \in Others(c)
                                    THEN "invalid" ELSE sessions[d]]
    /\ ended' = ended \cup {d \in Others(c) : sessions[d] # "none"}
    /\ late' = late \cup {d \in Others(c) : call[d].pc \in {"findUser", "session"}}
    /\ Finish(c, "ok")

\* findById of verify2FA, enable2FA and changePassword, with what is computed on
\* the row: the encrypted secret, or the check of the password and the new hash.
Read(c) ==
    LET r == call[c]
        u == Row(c)
        set(v) == call' = [call EXCEPT ![c].pc = "save", ![c].row = v]
    IN  /\ At(c, "read") /\ Only(<<users, sessions, history>>)
        /\ IF r.op = "enable2FA" /\ u.there
           THEN set([u EXCEPT !.tfa = TRUE])
           ELSE IF r.op = "changePassword" /\ VerifySecureHash(r.password, u)
           THEN set([u EXCEPT !.password = r.new, !.hashed = TRUE])
           ELSE Finish(c, "error")

\* The copies of the other calls that mean to save the user are stale now.
Saved(c) == copy' = [d \in Calls |->
    IF d \in Others(c) /\ call[d].row.there /\ call[d].pc \in {"createTenant", "save"}
    THEN "stale"
    ELSE IF d = c /\ copy[c] = "stale" THEN "written" ELSE copy[d]]

\* UserService.save writes every column of the row the call read.
Save(c) ==
    LET r == call[c]
    IN  /\ At(c, "save") /\ Only(<<sessions, ended, late>>)
        /\ IF r.row.tfa /\ ~StoredSecretFits
           THEN Finish(c, "error") /\ UNCHANGED <<users, copy>>
           ELSE /\ users' = [users EXCEPT ![r.email] = r.row] /\ Saved(c)
                /\ IF r.op = "changePassword" THEN Goto(c, "invalidateAll")
                                              ELSE Finish(c, "ok")

\* A database call throws: every handler passes the error on.
DatabaseFault(c) ==
    /\ call[c].pc \notin {"idle", "done"} /\ faults < MaxFaults
    /\ faults' = faults + 1
    /\ Finish(c, "error")
    /\ UNCHANGED <<users, sessions, stores, history>>

Resume(c) ==
    \/ Find(c) \/ CreateTenant(c) \/ FindAgain(c) \/ Insert(c) \/ Verify(c)
    \/ FindSession(c) \/ FindUser(c) \/ CreateSession(c) \/ InvalidateOne(c)
    \/ InvalidateAll(c) \/ Read(c) \/ Save(c)

Next == \E c \in Calls : Start(c) \/ Resume(c) \/ DatabaseFault(c)

Spec == Init /\ [][Next]_vars

-----------------------------------------------------------------------------
(* Properties.                                                             *)

\* Every variable holds a value of its kind.
TypeOK ==
    /\ users \in [Emails -> User]
    /\ sessions \in [Calls -> {"none", "valid", "invalid"}]
    /\ stores \subseteq Stores
    /\ call \in [Calls -> Call]
    /\ faults \in 0 .. MaxFaults
    /\ copy \in [Calls -> Copies] /\ ended \subseteq Calls /\ late \subseteq Calls

Done(c, ops) == call[c].pc = "done" /\ call[c].res = "ok" /\ call[c].op \in ops

\* Two registrations (or a registration and an onboarding) of one email are never
\* both told they made the account: the two look-ups race, the index decides.
OneAccountPerEmail == \A c, d \in Calls :
    /\ Done(c, {"register", "quickStart"}) /\ Done(d, {"register", "quickStart"})
    /\ ~call[c].linked /\ ~call[d].linked /\ call[c].email = call[d].email
    => c = d

\* Some call of op wrote back a copy of the row of e that another save had overtaken.
Overwritten(e, op) == \E d \in Calls :
    call[d].email = e /\ call[d].op = op /\ copy[d] = "written"

\* Two changes of one user at once: a changed password is undone only by a link of
\* onboarding that wrote back a copy read before the change, and a linked store only
\* by such a change of password.  Nothing else loses what save writes: not two calls
\* of one kind, nor enable2FA, whose save is refused, nor one after the other.
ChangeSurvives == \A c \in Calls : LET e == call[c].email IN
    /\ Done(c, {"changePassword"}) /\ ~Overwritten(e, "quickStart") =>
          \E d \in Calls : /\ call[d].op = "changePassword" /\ call[d].email = e
                            /\ users[e].password = call[d].new /\ users[e].hashed
    /\ Done(c, {"quickStart"}) /\ call[c].linked /\ ~Overwritten(e, "changePassword") =>
          \E d \in Calls : /\ call[d].linked /\ call[d].email = e
                            /\ users[e].store = call[d].store

\* A change of the password of e is saved and the sessions are not ended, or it
\* failed in between.
Interrupted(e) == \E d \in Calls :
    /\ call[d].op = "changePassword" /\ call[d].email = e /\ call[d].row.there
    /\ call[d].pc = "invalidateAll" \/ call[d].res = "error"

\* What ends with the sessions of a user: the refresh token of an ended session opens
\* no other one, and after a change of password no session stands that was opened
\* with another password.  Only a call that was late, past its check when the sessions
\* were ended, leaves a session behind.
SessionsEndTogether == \A c \in Calls : sessions[c] = "valid" /\ c \notin late =>
    /\ call[c].op = "refresh" => call[c].from \notin ended
    /\ /\ call[c].op = "login"
       /\ ~Interrupted(call[c].email) /\ ~Overwritten(call[c].email, "quickStart")
       => VerifySecureHash(call[c].password, users[call[c].email])

\* Who registers can log in with the password given, until it is changed.
LoginAfterRegister == \A c \in Calls :
    (/\ Done(c, {"register"})
     /\ \A d \in Calls : call[d].op = "changePassword" => call[d].email # call[c].email)
    => VerifySecureHash(call[c].password, users[call[c].email])
=============================================================================
