--------------------------- MODULE AccountsProofs ----------------------------
(***************************************************************************)
(* Theorems about Accounts and OnboardingModal, the parts of Services a    *)
(* user of a store meets: one account per email, what a save may lose,     *)
(* sessions that end together, and a dialog that is honest.                *)
(* Every step of Accounts is first shown to be one CallStep of one call,   *)
(* which says all that the invariant needs and keeps it.                   *)
(***************************************************************************)
EXTENDS ServicesProofs, SequenceTheorems

-----------------------------------------------------------------------------
(* Accounts: the calls.                                                    *)

\* Where a call of each handler can be.
Places == [
    none           |-> {"idle"},
    register       |-> {"find", "findAgain", "insert", "session", "done"},
    login          |-> {"verify", "session", "done"},
    refresh        |-> {"findSession", "findUser", "session", "done"},
    logout         |-> {"invalidateOne", "invalidateAll", "done"},
    logoutAll      |-> {"invalidateAll", "done"},
    verify2FA      |-> {"read", "done"},
    enable2FA      |-> {"read", "save", "done"},
    changePassword |-> {"read", "save", "invalidateAll", "done"},
    quickStart     |-> {"find", "createTenant", "findAgain", "insert", "save", "done"}]

\* What a call holds where it is: the row it is about to save is one that was there,
\* with the change of its handler.
Fits(q) ==
    /\ q.op \in DOMAIN Places /\ q.pc \in Places[q.op]
    /\ q.res # "none" => q.pc = "done"
    /\ q.linked => q.op = "quickStart" /\ q.pc \in {"save", "done"}
    /\ q.op = "quickStart" => q.store \in Stores
    /\ q.pc \in {"findSession", "invalidateOne"} => q.from \in Calls
    /\ q.pc = "save" =>
          /\ q.row.there
          /\ q.op = "quickStart" => q.linked /\ q.row.store = q.store
          /\ q.op = "enable2FA" => q.row.tfa
          /\ q.op = "changePassword" => q.row.hashed /\ q.row.password = q.new

\* A call that made an account, one that changed a password, one that linked a store.
Made(q) ==
    /\ q.op \in {"register", "quickStart"} /\ ~q.linked
    /\ q.pc = "session" \/ (q.pc = "done" /\ q.res = "ok")
Changed(q) ==
    /\ q.op = "changePassword"
    /\ q.pc = "invalidateAll" \/ (q.pc = "done" /\ q.res = "ok")
Linked(q) == q.op = "quickStart" /\ q.linked /\ q.pc = "done" /\ q.res = "ok"

\* What a call from r to q keeps, and what it has seen where it goes on.
Follows(r, q) ==
    /\ r.pc # "done" /\ q.pc # "idle"
    /\ r.pc # "idle" => /\ q.op = r.op /\ q.email = r.email /\ q.new = r.new
                        /\ q.password = r.password /\ q.store = r.store
                        /\ q.from = r.from /\ (r.linked => q.linked)
    /\ r.pc = "idle" => q.pc \notin {"findUser", "session", "createTenant", "save", "done"}
    /\ r.pc = "idle" /\ q.op = "refresh" => /\ q.from \in Calls /\ sessions[q.from] # "none"
                                            /\ q.email = call[q.from].email
    /\ q.pc = "invalidateOne" => sessions[q.from] # "none"
    /\ q.pc = "findUser" => sessions[q.from] = "valid"
    /\ q.pc = "session" /\ q.op = "refresh" => r.pc = "findUser"
    /\ q.pc = "session" /\ q.op = "login" => A!VerifySecureHash(q.password, users[q.email])
    /\ q.pc = "createTenant" => q.row = users[q.email]
    /\ q.pc = "save" /\ q.op = "quickStart" =>
          /\ r.pc = "createTenant" /\ r.row.there
          /\ q.row.password = r.row.password /\ q.row.hashed = r.row.hashed
    /\ q.pc = "save" /\ q.op # "quickStart" =>
          /\ users[q.email].there
          /\ q.op = "changePassword" => q.row.store = users[q.email].store
    /\ r.pc = "invalidateAll" => q.pc = "done" /\ q.row = r.row

\* What any step of a call from r to q does to the rows: nothing, an insert under an
\* email without a row, or a save of the row it holds by onboarding or by a change of
\* password.
Saves(c, r, q) ==
    /\ r.pc = "save" /\ q.row = r.row /\ q.email = r.email
    /\ users' = [users EXCEPT ![q.email] = r.row] /\ A!Saved(c)
    /\ \/ q.op = "quickStart" /\ q.pc = "done"
       \/ q.op = "changePassword" /\ q.pc = "invalidateAll"
RowStep(c, r, q) ==
    \/ /\ UNCHANGED <<users, copy>>
       /\ (Made(q) => Made(r)) /\ (Changed(q) => Changed(r)) /\ ~Linked(q)
    \/ /\ UNCHANGED copy /\ ~users[q.email].there /\ ~Changed(q) /\ ~Linked(q)
       /\ q.op \in {"register", "quickStart"} /\ q.pc \in {"session", "done"}
       /\ \E u \in A!User : u.there /\ users' = [users EXCEPT ![q.email] = u]
    \/ Saves(c, r, q)

\* ... and to the sessions: only the call of a session makes it, once, and all those
\* of a user are ended together.
Ends(c) ==
    /\ call[c].pc = "invalidateAll"
    /\ sessions' = [d \in Calls |-> IF sessions[d] = "valid" /\ d \in A!Others(c)
                                    THEN "invalid" ELSE sessions[d]]
    /\ ended' = ended \cup {d \in A!Others(c) : sessions[d] # "none"}
    /\ late' = late \cup {d \in A!Others(c) : call[d].pc \in {"findUser", "session"}}
SessionsStep(c) ==
    \/ /\ UNCHANGED <<sessions, ended, late>>
       /\ call[c].pc = "invalidateAll" => call'[c].res = "error"
    \/ /\ call[c].pc = "session" /\ call'[c].pc = "done" /\ UNCHANGED <<ended, late>>
       /\ sessions' = [sessions EXCEPT ![c] = "valid"]
    \/ /\ call[c].pc = "invalidateOne" /\ UNCHANGED <<ended, late>>
       /\ sessions' = [sessions EXCEPT ![call[c].from] = "invalid"]
       /\ call[c].from \in Calls /\ sessions[call[c].from] # "none"
    \/ Ends(c)

CallStep(c) ==
    LET r == call[c]
        q == call'[c]
    IN  /\ call' = [call EXCEPT ![c] = q] /\ q \in A!Call /\ Fits(q) /\ Follows(r, q)
        /\ RowStep(c, r, q) /\ SessionsStep(c)
        /\ stores' \subseteq Stores /\ faults' \in 0 .. MaxFaults

CallsFit == A!TypeOK /\ \A c \in Calls : Fits(call[c])

LEMMA RecordTypes ==
    /\ A!AnyEmail \in Emails /\ A!AnyPassword \in Passwords
    /\ A!NoUser \in A!User /\ A!Idle \in A!Call
    /\ A!Idle.op = "none" /\ ~A!Idle.linked /\ A!Idle.pc = "idle" /\ A!Idle.res = "none"
<1>1. A!AnyEmail \in Emails /\ A!AnyPassword \in Passwords
  BY AccountsAssumption DEF A!AnyEmail, A!AnyPassword
<1>2. A!NoUser \in A!User  BY DEF A!NoUser, A!User
<1>3. A!Idle \in A!Call
  BY <1>1, <1>2 DEF A!Idle, A!Call, A!Locations
<1> QED  BY <1>1, <1>2, <1>3 DEF A!Idle

\* A call that begins: its rows and sessions are as they were.
LEMMA BeginStep ==
    ASSUME CallsFit, NEW c \in Calls, NEW q \in A!Call, A!Begin(c, q),
           Fits(q), ~q.linked,
           \/ q.pc \in {"find", "verify", "read", "findSession", "invalidateOne"}
           \/ q.pc = "invalidateAll" /\ q.op = "logoutAll",
           q.pc = "invalidateOne" => sessions[q.from] # "none",
           q.op = "refresh" => /\ q.from \in Calls /\ sessions[q.from] # "none"
                               /\ q.email = call[q.from].email
    PROVE  CallStep(c)
<1>1. /\ call' = [call EXCEPT ![c] = q] /\ call[c].pc = "idle" /\ call'[c] = q
      /\ UNCHANGED <<users, sessions, stores, faults, copy, ended, late>>
  BY DEF A!Begin, A!history, CallsFit, A!TypeOK
<1>2. ~Made(q) /\ ~Changed(q) /\ ~Linked(q)  BY DEF Made, Changed, Linked
<1>3. stores \subseteq Stores /\ faults \in 0 .. MaxFaults  BY DEF CallsFit, A!TypeOK
<1>4. Follows(call[c], q)  BY <1>1 DEF Follows
<1> QED  BY <1>1, <1>2, <1>3, <1>4 DEF CallStep, RowStep, SessionsStep

LEMMA StartStep == ASSUME CallsFit, NEW c \in Calls, A!Start(c) PROVE CallStep(c)
<1> USE RecordTypes DEF A!Call, A!Locations, Places, Fits
<1>1. CASE A!Register(c)
  <2>1. PICK e \in Emails, p \in Passwords, s \in Stores \cup {NoStore} :
          A!Begin(c, [A!Idle EXCEPT !.op = "register", !.pc = "find", !.email = e,
                                    !.password = p, !.store = s])
    BY <1>1 DEF A!Register
  <2> DEFINE q == [A!Idle EXCEPT !.op = "register", !.pc = "find", !.email = e,
                                 !.password = p, !.store = s]
  <2>2. q.op \in Operations  BY <2>1 DEF A!Begin
  <2>3. q \in A!Call  BY <2>2
  <2>4. Fits(q) /\ ~q.linked /\ q.pc = "find" /\ q.op # "refresh"  OBVIOUS
  <2> HIDE DEF q
  <2> QED  BY <2>1, <2>3, <2>4, BeginStep DEF q
<1>2. CASE A!Login(c)
  <2>1. PICK e \in Emails, p \in Passwords :
          A!Begin(c, [A!Idle EXCEPT !.op = "login", !.pc = "verify", !.email = e, !.password = p])
    BY <1>2 DEF A!Login
  <2> DEFINE q == [A!Idle EXCEPT !.op = "login", !.pc = "verify", !.email = e, !.password = p]
  <2>2. q.op \in Operations  BY <2>1 DEF A!Begin
  <2>3. q \in A!Call  BY <2>2
  <2>4. Fits(q) /\ ~q.linked /\ q.pc = "verify" /\ q.op # "refresh"  OBVIOUS
  <2> HIDE DEF q
  <2> QED  BY <2>1, <2>3, <2>4, BeginStep DEF q
<1>3. CASE A!WithToken(c)
  <2>1. PICK d \in Calls \ {c} : sessions[d] # "none" /\
          \/ A!Begin(c, [A!Idle EXCEPT !.op = "refresh", !.pc = "findSession", !.from = d,
                                       !.email = call[d].email])
          \/ \E e \in Emails :
                A!Begin(c, [A!Idle EXCEPT !.op = "logout", !.pc = "invalidateOne", !.from = d,
                                          !.email = e])
    BY <1>3 DEF A!WithToken
  <2>2. call[d].email \in Emails  BY DEF CallsFit, A!TypeOK
  <2> DEFINE q1 == [A!Idle EXCEPT !.op = "refresh", !.pc = "findSession", !.from = d,
                                  !.email = call[d].email]
             q2(e) == [A!Idle EXCEPT !.op = "logout", !.pc = "invalidateOne", !.from = d,
                                     !.email = e]
  <2>3. q1.op \in Operations => q1 \in A!Call  BY <2>2
  <2>4. ASSUME NEW e \in Emails, q2(e).op \in Operations PROVE q2(e) \in A!Call  BY <2>4
  <2>5. /\ Fits(q1) /\ ~q1.linked /\ q1.pc = "findSession" /\ q1.from = d
        /\ q1.email = call[d].email
    OBVIOUS
  <2>6. ASSUME NEW e \in Emails
        PROVE  /\ Fits(q2(e)) /\ ~q2(e).linked /\ q2(e).pc = "invalidateOne"
               /\ q2(e).from = d /\ q2(e).op = "logout"
    BY <2>6
  <2> HIDE DEF q1, q2
  <2>7. CASE A!Begin(c, q1)
    <3>1. q1 \in A!Call  BY <2>3, <2>7 DEF A!Begin
    <3> QED  BY <2>1, <2>5, <2>7, <3>1, BeginStep
  <2>8. ASSUME NEW e \in Emails, A!Begin(c, q2(e)) PROVE CallStep(c)
    <3>1. q2(e) \in A!Call  BY <2>4, <2>8 DEF A!Begin
    <3> QED  BY <2>1, <2>6, <2>8, <3>1, BeginStep
  <2> QED  BY <2>1, <2>7, <2>8 DEF q1, q2
<1>4. CASE A!Verify2FA(c)
  <2>1. PICK e \in Emails :
          A!Begin(c, [A!Idle EXCEPT !.op = "verify2FA", !.pc = "read", !.email = e])
    BY <1>4 DEF A!Verify2FA
  <2> DEFINE q == [A!Idle EXCEPT !.op = "verify2FA", !.pc = "read", !.email = e]
  <2>2. q.op \in Operations  BY <2>1 DEF A!Begin
  <2>3. q \in A!Call  BY <2>2
  <2>4. Fits(q) /\ ~q.linked /\ q.pc = "read" /\ q.op # "refresh"  OBVIOUS
  <2> HIDE DEF q
  <2> QED  BY <2>1, <2>3, <2>4, BeginStep DEF q
<1>5. CASE A!Guarded(c)
  <2>1. PICK e \in Emails :
          \/ A!Begin(c, [A!Idle EXCEPT !.op = "logoutAll", !.pc = "invalidateAll", !.email = e])
          \/ A!Begin(c, [A!Idle EXCEPT !.op = "enable2FA", !.pc = "read", !.email = e])
          \/ \E p \in Passwords, n \in Passwords :
                A!Begin(c, [A!Idle EXCEPT !.op = "changePassword", !.pc = "read", !.email = e,
                                          !.password = p, !.new = n])
    BY <1>5 DEF A!Guarded
  <2> DEFINE q1 == [A!Idle EXCEPT !.op = "logoutAll", !.pc = "invalidateAll", !.email = e]
             q2 == [A!Idle EXCEPT !.op = "enable2FA", !.pc = "read", !.email = e]
             q3(p, n) == [A!Idle EXCEPT !.op = "changePassword", !.pc = "read", !.email = e,
                                        !.password = p, !.new = n]
  <2>2. q1.op \in Operations => q1 \in A!Call  OBVIOUS
  <2>3. q2.op \in Operations => q2 \in A!Call  OBVIOUS
  <2>4. ASSUME NEW p \in Passwords, NEW n \in Passwords, q3(p, n).op \in Operations
        PROVE  q3(p, n) \in A!Call
    BY <2>4
  <2>5. /\ Fits(q1) /\ ~q1.linked /\ q1.pc = "invalidateAll" /\ q1.op = "logoutAll"
        /\ Fits(q2) /\ ~q2.linked /\ q2.pc = "read" /\ q2.op = "enable2FA"
    OBVIOUS
  <2>6. ASSUME NEW p \in Passwords, NEW n \in Passwords
        PROVE  /\ Fits(q3(p, n)) /\ ~q3(p, n).linked /\ q3(p, n).pc = "read"
               /\ q3(p, n).op = "changePassword"
    BY <2>6
  <2> HIDE DEF q1, q2, q3
  <2>7. CASE A!Begin(c, q1)
    <3>1. q1 \in A!Call  BY <2>2, <2>7 DEF A!Begin
    <3> QED  BY <2>5, <2>7, <3>1, BeginStep
  <2>8. CASE A!Begin(c, q2)
    <3>1. q2 \in A!Call  BY <2>3, <2>8 DEF A!Begin
    <3> QED  BY <2>5, <2>8, <3>1, BeginStep
  <2>9. ASSUME NEW p \in Passwords, NEW n \in Passwords, A!Begin(c, q3(p, n))
        PROVE  CallStep(c)
    <3>1. q3(p, n) \in A!Call  BY <2>4, <2>9 DEF A!Begin
    <3> QED  BY <2>6, <2>9, <3>1, BeginStep
  <2> QED  BY <2>1, <2>7, <2>8, <2>9 DEF q1, q2, q3
<1>6. CASE A!QuickStart(c)
  <2>1. PICK e \in Emails, p \in Passwords, s \in Stores :
          A!Begin(c, [A!Idle EXCEPT !.op = "quickStart", !.pc = "find", !.email = e,
                                    !.password = p, !.store = s])
    BY <1>6 DEF A!QuickStart
  <2> DEFINE q == [A!Idle EXCEPT !.op = "quickStart", !.pc = "find", !.email = e,
                                 !.password = p, !.store = s]
  <2>2. q.op \in Operations  BY <2>1 DEF A!Begin
  <2>3. q \in A!Call  BY <2>2
  <2>4. Fits(q) /\ ~q.linked /\ q.pc = "find" /\ q.op # "refresh"  OBVIOUS
  <2> HIDE DEF q
  <2> QED  BY <2>1, <2>3, <2>4, BeginStep DEF q
<1> QED  BY <1>1, <1>2, <1>3, <1>4, <1>5, <1>6 DEF A!Start


\* Goto and Finish change the place and the answer of a call only.
LEMMA Moved ==
    ASSUME CallsFit, NEW c \in Calls, call[c].pc \notin {"idle", "done"},
           NEW l \in A!Locations, NEW a \in {"none", "ok", "error"}
    PROVE  /\ A!Goto(c, l) =>
                /\ call' = [call EXCEPT ![c] = [call[c] EXCEPT !.pc = l]]
                /\ [call[c] EXCEPT !.pc = l] \in A!Call
           /\ A!Finish(c, a) =>
                /\ call' = [call EXCEPT ![c] = [call[c] EXCEPT !.pc = "done", !.res = a]]
                /\ [call[c] EXCEPT !.pc = "done", !.res = a] \in A!Call
                /\ Fits([call[c] EXCEPT !.pc = "done", !.res = a])
<1>1. call[c] \in A!Call /\ Fits(call[c])  BY DEF CallsFit, A!TypeOK
<1>2. [call[c] EXCEPT !.pc = l] \in A!Call  BY <1>1 DEF A!Call
<1>3. [call[c] EXCEPT !.pc = "done", !.res = a] \in A!Call  BY <1>1 DEF A!Call, A!Locations
<1>4. Fits([call[c] EXCEPT !.pc = "done", !.res = a])
  BY <1>1 DEF Fits, Places, A!Call
<1>5. A!Goto(c, l) => call' = [call EXCEPT ![c] = [call[c] EXCEPT !.pc = l]]
  BY <1>1 DEF A!Goto, CallsFit, A!TypeOK
<1>6. A!Finish(c, a) => call' = [call EXCEPT ![c] = [call[c] EXCEPT !.pc = "done", !.res = a]]
  BY <1>1 DEF A!Finish, CallsFit, A!TypeOK
<1> QED  BY <1>2, <1>3, <1>4, <1>5, <1>6

\* A call that goes on without touching rows or sessions.
LEMMA QuietStep ==
    ASSUME CallsFit, NEW c \in Calls, NEW q \in A!Call, call' = [call EXCEPT ![c] = q],
           UNCHANGED <<users, sessions, copy, ended, late>>,
           stores' \subseteq Stores, faults' \in 0 .. MaxFaults,
           Fits(q), Follows(call[c], q), ~Made(q), ~Changed(q), ~Linked(q),
           call[c].pc = "invalidateAll" => q.res = "error"
    PROVE  CallStep(c)
<1>1. call'[c] = q  BY DEF CallsFit, A!TypeOK
<1> QED  BY <1>1 DEF CallStep, RowStep, SessionsStep

\* A call that ends in an error made and changed nothing.
LEMMA ErrorStep ==
    ASSUME CallsFit, NEW c \in Calls, call[c].pc \notin {"idle", "done"},
           A!Finish(c, "error"), UNCHANGED <<users, sessions, stores, copy, ended, late>>,
           faults' \in 0 .. MaxFaults
    PROVE  CallStep(c)
<1> DEFINE q == [call[c] EXCEPT !.pc = "done", !.res = "error"]
<1>1. call[c] \in A!Call /\ Fits(call[c]) /\ stores \subseteq Stores
  BY DEF CallsFit, A!TypeOK
<1>2. "find" \in A!Locations  BY DEF A!Locations
<1>3. q \in A!Call /\ Fits(q) /\ call' = [call EXCEPT ![c] = q]  BY <1>2, Moved
<1>4. /\ q.pc = "done" /\ q.res = "error" /\ q.op = call[c].op /\ q.email = call[c].email
      /\ q.new = call[c].new /\ q.password = call[c].password /\ q.store = call[c].store
      /\ q.from = call[c].from /\ q.linked = call[c].linked /\ q.row = call[c].row
  BY <1>1 DEF A!Call
<1> HIDE DEF q
<1>5. ~Made(q) /\ ~Changed(q) /\ ~Linked(q) /\ Follows(call[c], q)
  BY <1>4 DEF Made, Changed, Linked, Follows
<1> QED  BY <1>1, <1>3, <1>4, <1>5, QuietStep

\* A call that goes to another place, which makes and changes nothing.
LEMMA GotoStep ==
    ASSUME CallsFit, NEW c \in Calls, call[c].pc \notin {"idle", "done", "invalidateAll"},
           NEW l \in {"findAgain", "insert", "findUser", "session"}, A!Goto(c, l),
           Fits([call[c] EXCEPT !.pc = l]),
           l = "findUser" => sessions[call[c].from] = "valid",
           l = "session" =>
              \/ call[c].op = "refresh" /\ call[c].pc = "findUser"
              \/ call[c].op = "login" /\ A!VerifySecureHash(call[c].password, users[call[c].email]),
           UNCHANGED <<users, sessions, copy, ended, late>>,
           stores' \subseteq Stores, faults' \in 0 .. MaxFaults
    PROVE  CallStep(c)
<1> DEFINE q == [call[c] EXCEPT !.pc = l]
<1>1. call[c] \in A!Call  BY DEF CallsFit, A!TypeOK
<1>2. "ok" \in {"none", "ok", "error"} /\ l \in A!Locations  BY DEF A!Locations
<1>3. q \in A!Call /\ call' = [call EXCEPT ![c] = q]  BY <1>2, Moved
<1>4. /\ q.pc = l /\ q.op = call[c].op /\ q.email = call[c].email
      /\ q.new = call[c].new /\ q.password = call[c].password /\ q.store = call[c].store
      /\ q.from = call[c].from /\ q.linked = call[c].linked
  BY <1>1 DEF A!Call
<1>5. Fits(q)  OBVIOUS
<1> HIDE DEF q
<1>6. ~Made(q) /\ ~Changed(q) /\ ~Linked(q)  BY <1>4 DEF Made, Changed, Linked
<1>7. Follows(call[c], q)  BY <1>4 DEF Follows
<1> QED  BY <1>3, <1>5, <1>6, <1>7, QuietStep

LEMMA FindStep == ASSUME CallsFit, NEW c \in Calls, A!Find(c) PROVE CallStep(c)
<1> DEFINE r == call[c]
           q == [r EXCEPT !.pc = "createTenant", !.row = users[r.email]]
<1>1. r \in A!Call /\ Fits(r) /\ users[r.email] \in A!User /\ r.pc = "find"
  BY DEF CallsFit, A!TypeOK, A!Call, A!Find, A!At
<1>2. UNCHANGED <<users, sessions, stores, faults, copy, ended, late>>
  BY DEF A!Find, A!Only, A!history
<1>3. stores' \subseteq Stores /\ faults' \in 0 .. MaxFaults
  BY <1>2 DEF CallsFit, A!TypeOK
<1>4. CASE r.op = "quickStart"
  <2>1. call' = [call EXCEPT ![c] = q]
    BY <1>4 DEF A!Find, A!Row, CallsFit, A!TypeOK
  <2>2. q \in A!Call  BY <1>1 DEF A!Call, A!Locations
  <2>3. Fits(q) /\ ~Made(q) /\ ~Changed(q) /\ ~Linked(q)
    BY <1>1, <1>4 DEF Fits, Made, Changed, Linked, Places, A!Call
  <2>4. /\ q.pc = "createTenant" /\ q.op = r.op /\ q.email = r.email /\ q.new = r.new
        /\ q.password = r.password /\ q.store = r.store
        /\ q.from = r.from /\ q.linked = r.linked /\ q.row = users[q.email]
    BY <1>1 DEF A!Call
  <2> HIDE DEF q
  <2>5. Follows(r, q)  BY <1>1, <2>4 DEF Follows
  <2> QED  BY <1>1, <1>2, <1>3, <2>1, <2>2, <2>3, <2>5, QuietStep
<1>5. CASE r.op # "quickStart"
  <2>1. A!Finish(c, "error") \/ A!Goto(c, "findAgain")  BY <1>5 DEF A!Find
  <2>2. Fits([r EXCEPT !.pc = "findAgain"])
    BY <1>1, <1>5 DEF Fits, Places, A!Call
  <2>3. A!Goto(c, "findAgain") => CallStep(c)
    BY <1>1, <1>2, <1>3, <2>2, GotoStep
  <2> QED  BY <1>1, <1>2, <1>3, <2>1, <2>3, ErrorStep
<1> QED  BY <1>4, <1>5

\* Linking takes the row as it was read, with the new store.
LEMMA CreateTenantStep == ASSUME CallsFit, NEW c \in Calls, A!CreateTenant(c) PROVE CallStep(c)
<1> DEFINE r == call[c]
           w == [r.row EXCEPT !.store = r.store]
           q == [r EXCEPT !.pc = "save", !.linked = TRUE, !.row = w]
<1>1. r \in A!Call /\ Fits(r) /\ r.row \in A!User /\ r.pc = "createTenant"
  BY DEF CallsFit, A!TypeOK, A!Call, A!CreateTenant, A!At
<1>2. UNCHANGED <<users, sessions, faults, copy, ended, late>> /\ faults' \in 0 .. MaxFaults
  BY DEF A!CreateTenant, A!history, CallsFit, A!TypeOK
<1>3. r.op = "quickStart" /\ r.store \in Stores  BY <1>1 DEF Fits, Places
<1>4. CASE r.store \in stores
  BY <1>1, <1>2, <1>4, ErrorStep DEF A!CreateTenant
<1>5. CASE r.store \notin stores
  <2>1. stores' \subseteq Stores
    BY <1>3, <1>5 DEF A!CreateTenant, CallsFit, A!TypeOK
  <2>2. CASE r.row.there
    <3>1. call' = [call EXCEPT ![c] = q]
      <4>1. call' = [call EXCEPT ![c].pc = "save", ![c].linked = TRUE,
                                 ![c].row.store = r.store]
        BY <1>5, <2>2 DEF A!CreateTenant
      <4>2. r = [op |-> r.op, pc |-> r.pc, email |-> r.email, password |-> r.password,
                 new |-> r.new, store |-> r.store, from |-> r.from,
                 row |-> r.row, linked |-> r.linked, res |-> r.res]
        BY <1>1 DEF A!Call
      <4> QED  BY <1>1, <4>1, <4>2 DEF CallsFit, A!TypeOK, A!Call, A!User
    <3>2. w \in A!User
      BY <1>1, <1>3 DEF A!User
    <3>3. q \in A!Call  BY <1>1, <3>2 DEF A!Call, A!Locations
    <3>4. /\ w.there /\ w.store = r.store
          /\ w.password = r.row.password /\ w.hashed = r.row.hashed
      BY <1>1, <2>2 DEF A!User
    <3>5. /\ q.pc = "save" /\ q.op = r.op /\ q.email = r.email /\ q.new = r.new
          /\ q.password = r.password /\ q.from = r.from /\ q.linked /\ q.store = r.store
          /\ q.row = w /\ q.res = r.res
      BY <1>1 DEF A!Call
    <3> HIDE DEF q, w
    <3>6. Fits(q) /\ ~Made(q) /\ ~Changed(q) /\ ~Linked(q)
      BY <1>1, <1>3, <3>4, <3>5 DEF Fits, Made, Changed, Linked, Places
    <3>7. Follows(r, q)  BY <1>1, <1>3, <2>2, <3>4, <3>5 DEF Follows
    <3> QED  BY <1>1, <1>2, <2>1, <3>1, <3>3, <3>6, <3>7, QuietStep
  <2>3. CASE ~r.row.there
    <3>1. A!Goto(c, "findAgain")  BY <1>5, <2>3 DEF A!CreateTenant
    <3>2. Fits([r EXCEPT !.pc = "findAgain"])  BY <1>1, <1>3 DEF Fits, Places, A!Call
    <3> QED  BY <1>1, <1>2, <2>1, <3>1, <3>2, GotoStep
  <2> QED  BY <2>2, <2>3
<1> QED  BY <1>4, <1>5

LEMMA FindAgainStep == ASSUME CallsFit, NEW c \in Calls, A!FindAgain(c) PROVE CallStep(c)
<1>1. call[c] \in A!Call /\ Fits(call[c]) /\ call[c].pc = "findAgain"
  BY DEF CallsFit, A!TypeOK, A!FindAgain, A!At
<1>2. /\ UNCHANGED <<users, sessions, stores, faults, copy, ended, late>>
      /\ stores' \subseteq Stores /\ faults' \in 0 .. MaxFaults
  BY DEF A!FindAgain, A!Only, A!history, CallsFit, A!TypeOK
<1>3. A!Finish(c, "error") \/ A!Goto(c, "insert")  BY DEF A!FindAgain
<1>4. Fits([call[c] EXCEPT !.pc = "insert"])  BY <1>1 DEF Fits, Places, A!Call
<1>5. A!Goto(c, "insert") => CallStep(c)
  BY <1>1, <1>2, <1>4, GotoStep
<1> QED  BY <1>1, <1>2, <1>3, <1>5, ErrorStep

LEMMA NewUser ==
    ASSUME NEW q \in A!Call
    PROVE  LET u == [A!NoUser EXCEPT !.there = TRUE, !.password = q.password,
                                     !.store = q.store, !.active = TRUE]
           IN  u \in A!User /\ u.there
  BY DEF A!User, A!NoUser, A!Call

\* The index of the email lets an insert through only when there is no row.
LEMMA InsertStep == ASSUME CallsFit, NEW c \in Calls, A!Insert(c) PROVE CallStep(c)
<1> DEFINE r == call[c]
           u == [A!NoUser EXCEPT !.there = TRUE, !.password = r.password,
                                 !.store = r.store, !.active = TRUE]
           s == [r EXCEPT !.pc = "session", !.row = u]
           o == [r EXCEPT !.pc = "done", !.res = "ok"]
<1>1. r \in A!Call /\ Fits(r) /\ r.pc = "insert"
  BY DEF CallsFit, A!TypeOK, A!Insert, A!At
<1>2. r.op \in {"register", "quickStart"} /\ ~r.linked  BY <1>1 DEF Fits, Places
<1>3. /\ UNCHANGED <<sessions, stores, faults, copy, ended, late>>
      /\ stores' \subseteq Stores /\ faults' \in 0 .. MaxFaults
  BY DEF A!Insert, A!Only, A!history, CallsFit, A!TypeOK
<1>4. u \in A!User /\ u.there  BY <1>1, NewUser
<1>5. CASE users[r.email].there
  BY <1>1, <1>3, <1>5, ErrorStep DEF A!Insert, A!Row
<1>6. CASE ~users[r.email].there
  <2>1. /\ users' = [users EXCEPT ![r.email] = u]
        /\ \/ r.op = "register" /\ call' = [call EXCEPT ![c] = s]
           \/ r.op = "quickStart" /\ call' = [call EXCEPT ![c] = o]
    BY <1>1, <1>2, <1>6 DEF A!Insert, A!Row, A!Finish, CallsFit, A!TypeOK
  <2>2. /\ s.pc = "session" /\ s.op = r.op /\ s.email = r.email /\ s.new = r.new
        /\ s.password = r.password /\ s.res = r.res
        /\ s.from = r.from /\ s.linked = r.linked /\ s.store = r.store
        /\ o.pc = "done" /\ o.op = r.op /\ o.email = r.email /\ o.new = r.new
        /\ o.password = r.password
        /\ o.from = r.from /\ o.linked = r.linked /\ o.store = r.store
    BY <1>1 DEF A!Call
  <2>3. s \in A!Call /\ o \in A!Call  BY <1>1, <1>4 DEF A!Call, A!Locations
  <2> HIDE DEF s, o, u
  <2>4. PICK q \in {s, o} : /\ call' = [call EXCEPT ![c] = q]
                            /\ \/ q = s /\ r.op = "register"
                               \/ q = o /\ r.op = "quickStart"
    BY <2>1, Zenon
  <2>5. Fits(q) /\ ~Changed(q) /\ ~Linked(q)
    BY <1>1, <1>2, <2>2, <2>4 DEF Fits, Changed, Linked, Places
  <2>6. call'[c] = q  BY <2>4 DEF CallsFit, A!TypeOK
  <2>7. RowStep(c, r, q)
    BY <1>2, <1>3, <1>4, <1>6, <2>1, <2>2, <2>4, <2>5 DEF RowStep
  <2>8. Follows(r, q)  BY <1>1, <2>2, <2>4 DEF Follows
  <2> QED
    BY <1>1, <1>3, <2>3, <2>4, <2>5, <2>6, <2>7, <2>8 DEF CallStep, SessionsStep
<1> QED  BY <1>5, <1>6

LEMMA VerifyStep == ASSUME CallsFit, NEW c \in Calls, A!Verify(c) PROVE CallStep(c)
<1>1. call[c] \in A!Call /\ Fits(call[c]) /\ call[c].pc = "verify"
  BY DEF CallsFit, A!TypeOK, A!Verify, A!At
<1>2. /\ UNCHANGED <<users, sessions, stores, faults, copy, ended, late>>
      /\ stores' \subseteq Stores /\ faults' \in 0 .. MaxFaults
  BY DEF A!Verify, A!Only, A!history, CallsFit, A!TypeOK
<1>3. \/ A!Finish(c, "error")
      \/ A!Goto(c, "session") /\ A!VerifySecureHash(call[c].password, users[call[c].email])
  BY DEF A!Verify, A!Row
<1>4. Fits([call[c] EXCEPT !.pc = "session"]) /\ call[c].op = "login"
  BY <1>1 DEF Fits, Places, A!Call
<1>5. A!Goto(c, "session") /\ A!VerifySecureHash(call[c].password, users[call[c].email])
      => CallStep(c)
  BY <1>1, <1>2, <1>4, GotoStep
<1> QED  BY <1>1, <1>2, <1>3, <1>5, ErrorStep

LEMMA RefreshStep ==
    ASSUME CallsFit, NEW c \in Calls, A!FindSession(c) \/ A!FindUser(c) PROVE CallStep(c)
<1>1. call[c] \in A!Call /\ Fits(call[c]) /\ call[c].pc \in {"findSession", "findUser"}
  BY DEF CallsFit, A!TypeOK, A!FindSession, A!FindUser, A!At
<1>2. /\ UNCHANGED <<users, sessions, stores, faults, copy, ended, late>>
      /\ stores' \subseteq Stores /\ faults' \in 0 .. MaxFaults
  BY DEF A!FindSession, A!FindUser, A!Only, A!history, CallsFit, A!TypeOK
<1>3. \/ A!Finish(c, "error")
      \/ A!Goto(c, "findUser") /\ sessions[call[c].from] = "valid"
      \/ A!Goto(c, "session") /\ call[c].pc = "findUser"
  BY DEF A!FindSession, A!FindUser, A!At
<1>4. call[c].op = "refresh"  BY <1>1 DEF Fits, Places
<1>5. Fits([call[c] EXCEPT !.pc = "session"]) /\ Fits([call[c] EXCEPT !.pc = "findUser"])
  BY <1>1, <1>4 DEF Fits, Places, A!Call
<1>6. A!Goto(c, "session") /\ call[c].pc = "findUser" => CallStep(c)
  BY <1>1, <1>2, <1>4, <1>5, GotoStep
<1>7. A!Goto(c, "findUser") /\ sessions[call[c].from] = "valid" => CallStep(c)
  BY <1>1, <1>2, <1>5, GotoStep
<1> QED  BY <1>1, <1>2, <1>3, <1>6, <1>7, ErrorStep

LEMMA CreateSessionStep == ASSUME CallsFit, NEW c \in Calls, A!CreateSession(c) PROVE CallStep(c)
<1> DEFINE r == call[c]
           q == [r EXCEPT !.pc = "done", !.res = "ok"]
<1>1. r \in A!Call /\ Fits(r) /\ r.pc = "session"
  BY DEF CallsFit, A!TypeOK, A!CreateSession, A!At
<1>2. /\ UNCHANGED <<users, stores, faults, copy, ended, late>>
      /\ stores' \subseteq Stores /\ faults' \in 0 .. MaxFaults
  BY DEF A!CreateSession, A!Only, A!history, CallsFit, A!TypeOK
<1>3. q \in A!Call /\ Fits(q) /\ call' = [call EXCEPT ![c] = q] /\ call'[c] = q
  <2>1. A!Finish(c, "ok") /\ "find" \in A!Locations  BY DEF A!CreateSession, A!Locations
  <2>2. q \in A!Call /\ Fits(q) /\ call' = [call EXCEPT ![c] = q]  BY <1>1, <2>1, Moved
  <2> QED  BY <2>2 DEF CallsFit, A!TypeOK
<1>4. /\ q.pc = "done" /\ q.op = r.op /\ q.email = r.email /\ q.new = r.new
      /\ q.password = r.password /\ q.store = r.store
      /\ q.from = r.from /\ q.linked = r.linked
  BY <1>1 DEF A!Call
<1>5. r.op # "changePassword" /\ ~r.linked  BY <1>1 DEF Fits, Places
<1> HIDE DEF q
<1>6. (Made(q) => Made(r)) /\ ~Changed(q) /\ ~Linked(q)
  BY <1>1, <1>4, <1>5 DEF Made, Changed, Linked
<1>7. Follows(r, q)  BY <1>1, <1>4 DEF Follows
<1> QED
  BY <1>1, <1>2, <1>3, <1>4, <1>6, <1>7 DEF CallStep, RowStep, SessionsStep, A!CreateSession

\* Ending a session ends one that was made: the token of a logout is of a session.
LEMMA InvalidateOneStep ==
    ASSUME CallsFit, NEW c \in Calls, A!InvalidateOne(c), sessions[call[c].from] # "none"
    PROVE  CallStep(c)
<1> DEFINE r == call[c]
           q == [r EXCEPT !.pc = "invalidateAll"]
<1>1. r \in A!Call /\ Fits(r) /\ r.pc = "invalidateOne" /\ r.op = "logout" /\ r.from \in Calls
  BY DEF CallsFit, A!TypeOK, A!InvalidateOne, A!At, Fits, Places
<1>2. /\ UNCHANGED <<users, stores, faults, copy, ended, late>>
      /\ stores' \subseteq Stores /\ faults' \in 0 .. MaxFaults
  BY DEF A!InvalidateOne, A!Only, A!history, CallsFit, A!TypeOK
<1>3. q \in A!Call /\ call' = [call EXCEPT ![c] = q] /\ call'[c] = q
  <2>1. A!Goto(c, "invalidateAll") /\ "invalidateAll" \in A!Locations /\ "ok" \in {"none", "ok", "error"}
    BY DEF A!InvalidateOne, A!Locations
  <2>2. q \in A!Call /\ call' = [call EXCEPT ![c] = q]  BY <1>1, <2>1, Moved
  <2> QED  BY <2>2 DEF CallsFit, A!TypeOK
<1>4. /\ q.pc = "invalidateAll" /\ q.op = r.op /\ q.email = r.email /\ q.new = r.new
      /\ q.password = r.password /\ q.store = r.store
      /\ q.from = r.from /\ q.linked = r.linked /\ q.res = r.res
  BY <1>1 DEF A!Call
<1>5. sessions' = [sessions EXCEPT ![r.from] = "invalid"]
  BY DEF A!InvalidateOne
<1> HIDE DEF q
<1>6. Fits(q) /\ ~Made(q) /\ ~Changed(q) /\ ~Linked(q)
  BY <1>1, <1>4 DEF Fits, Made, Changed, Linked, Places
<1>7. Follows(r, q)  BY <1>1, <1>4 DEF Follows
<1> QED
  BY <1>1, <1>2, <1>3, <1>4, <1>5, <1>6, <1>7 DEF CallStep, RowStep, SessionsStep

LEMMA InvalidateAllStep == ASSUME CallsFit, NEW c \in Calls, A!InvalidateAll(c) PROVE CallStep(c)
<1> DEFINE r == call[c]
           q == [r EXCEPT !.pc = "done", !.res = "ok"]
<1>1. r \in A!Call /\ Fits(r) /\ r.pc = "invalidateAll"
  BY DEF CallsFit, A!TypeOK, A!InvalidateAll, A!At
<1>2. /\ UNCHANGED <<users, stores, faults, copy>>
      /\ stores' \subseteq Stores /\ faults' \in 0 .. MaxFaults
  BY DEF A!InvalidateAll, A!Only, CallsFit, A!TypeOK
<1>3. q \in A!Call /\ Fits(q) /\ call' = [call EXCEPT ![c] = q] /\ call'[c] = q
  <2>1. A!Finish(c, "ok") /\ "find" \in A!Locations  BY DEF A!InvalidateAll, A!Locations
  <2>2. q \in A!Call /\ Fits(q) /\ call' = [call EXCEPT ![c] = q]  BY <1>1, <2>1, Moved
  <2> QED  BY <2>2 DEF CallsFit, A!TypeOK
<1>4. /\ q.pc = "done" /\ q.op = r.op /\ q.email = r.email /\ q.new = r.new
      /\ q.password = r.password /\ q.store = r.store /\ q.row = r.row
      /\ q.from = r.from /\ q.linked = r.linked
  BY <1>1 DEF A!Call
<1>5. Ends(c)  BY <1>1 DEF A!InvalidateAll, Ends
<1>6. r.op \notin {"register", "quickStart"}  BY <1>1 DEF Fits, Places
<1> HIDE DEF q
<1>7. ~Made(q) /\ (Changed(q) => Changed(r)) /\ ~Linked(q)
  BY <1>1, <1>4, <1>6 DEF Made, Changed, Linked
<1>8. Follows(r, q)  BY <1>1, <1>4 DEF Follows
<1> QED  BY <1>1, <1>2, <1>3, <1>5, <1>7, <1>8 DEF CallStep, RowStep, SessionsStep

\* The row that is going to be saved is the one that was read, changed.
LEMMA ReadStep == ASSUME CallsFit, NEW c \in Calls, A!Read(c) PROVE CallStep(c)
<1> DEFINE r == call[c]
           u == users[r.email]
           v1 == [u EXCEPT !.tfa = TRUE]
           v2 == [u EXCEPT !.password = r.new, !.hashed = TRUE]
<1>1. r \in A!Call /\ Fits(r) /\ r.pc = "read" /\ u \in A!User
  BY DEF CallsFit, A!TypeOK, A!Call, A!Read, A!At
<1>2. /\ UNCHANGED <<users, sessions, stores, faults, copy, ended, late>>
      /\ stores' \subseteq Stores /\ faults' \in 0 .. MaxFaults
  BY DEF A!Read, A!Only, A!history, CallsFit, A!TypeOK
<1>3. \/ A!Finish(c, "error")
      \/ r.op = "enable2FA" /\ u.there /\ call' = [call EXCEPT ![c].pc = "save", ![c].row = v1]
      \/ r.op = "changePassword" /\ u.there /\ call' = [call EXCEPT ![c].pc = "save", ![c].row = v2]
  BY DEF A!Read, A!Row, A!VerifySecureHash
<1>4. /\ v1 \in A!User /\ v1.there = u.there /\ v1.tfa
      /\ v2 \in A!User /\ v2.there = u.there /\ v2.hashed /\ v2.password = r.new
      /\ v2.store = u.store
  BY <1>1 DEF A!User, A!Call
<1>5. u.there = users[r.email].there /\ u.store = users[r.email].store  OBVIOUS
<1> HIDE DEF u, v1, v2
<1>6. ASSUME NEW v \in A!User, v.there, u.there,
             call' = [call EXCEPT ![c].pc = "save", ![c].row = v],
             \/ r.op = "enable2FA" /\ v.tfa
             \/ r.op = "changePassword" /\ v.hashed /\ v.password = r.new /\ v.store = u.store
      PROVE  CallStep(c)
  <2> DEFINE q == [r EXCEPT !.pc = "save", !.row = v]
  <2>1. call' = [call EXCEPT ![c] = q]  BY <1>6 DEF CallsFit, A!TypeOK
  <2>2. q \in A!Call  BY <1>1 DEF A!Call, A!Locations
  <2>3. /\ q.pc = "save" /\ q.op = r.op /\ q.email = r.email /\ q.new = r.new
        /\ q.password = r.password /\ q.store = r.store /\ q.res = r.res
        /\ q.from = r.from /\ q.linked = r.linked /\ q.row = v
    BY <1>1 DEF A!Call
  <2> HIDE DEF q
  <2>4. Fits(q) /\ ~Made(q) /\ ~Changed(q) /\ ~Linked(q)
    BY <1>1, <1>6, <2>3 DEF Fits, Made, Changed, Linked, Places
  <2>5. Follows(r, q)  BY <1>1, <1>5, <1>6, <2>3 DEF Follows
  <2> QED  BY <1>1, <1>2, <2>1, <2>2, <2>4, <2>5, QuietStep
<1> QED  BY <1>1, <1>2, <1>3, <1>4, <1>6, ErrorStep

\* A row with a second factor is refused; every other one that is saved is of
\* onboarding, or of a change of password with that password.
LEMMA SaveStep == ASSUME CallsFit, NEW c \in Calls, A!Save(c) PROVE CallStep(c)
<1> DEFINE r == call[c]
           q1 == [r EXCEPT !.pc = "invalidateAll"]
           q2 == [r EXCEPT !.pc = "done", !.res = "ok"]
<1>1. r \in A!Call /\ Fits(r) /\ r.pc = "save" /\ r.row \in A!User
  BY DEF CallsFit, A!TypeOK, A!Call, A!Save, A!At
<1>2. /\ UNCHANGED <<sessions, stores, faults, ended, late>>
      /\ stores' \subseteq Stores /\ faults' \in 0 .. MaxFaults
  BY DEF A!Save, A!Only, CallsFit, A!TypeOK
<1>3. \/ A!Finish(c, "error") /\ UNCHANGED <<users, copy>>
      \/ /\ ~r.row.tfa /\ users' = [users EXCEPT ![r.email] = r.row] /\ A!Saved(c)
         /\ \/ r.op = "changePassword" /\ A!Goto(c, "invalidateAll")
            \/ r.op # "changePassword" /\ A!Finish(c, "ok")
  BY DEF A!Save, A!StoredSecretFits
<1>4. CASE A!Finish(c, "error") /\ UNCHANGED <<users, copy>>
  BY <1>1, <1>2, <1>4, ErrorStep
<1>5. CASE ~r.row.tfa /\ users' = [users EXCEPT ![r.email] = r.row] /\ A!Saved(c)
           /\ r.op = "changePassword" /\ A!Goto(c, "invalidateAll")
  <2>1. q1 \in A!Call /\ call' = [call EXCEPT ![c] = q1]
    <3>1. "invalidateAll" \in A!Locations /\ "ok" \in {"none", "ok", "error"}
      BY DEF A!Locations
    <3> QED  BY <1>1, <1>5, <3>1, Moved
  <2>2. /\ q1.pc = "invalidateAll" /\ q1.op = r.op /\ q1.email = r.email /\ q1.new = r.new
        /\ q1.password = r.password /\ q1.store = r.store /\ q1.res = r.res
        /\ q1.from = r.from /\ q1.linked = r.linked /\ q1.row = r.row
    BY <1>1 DEF A!Call
  <2> HIDE DEF q1
  <2>3. Fits(q1) /\ call'[c] = q1
    BY <1>1, <1>5, <2>1, <2>2 DEF Fits, Places, CallsFit, A!TypeOK
  <2>4. RowStep(c, r, q1)  BY <1>1, <1>5, <2>2 DEF RowStep, Saves
  <2>5. Follows(r, q1)  BY <1>1, <2>2 DEF Follows
  <2> QED  BY <1>1, <1>2, <2>1, <2>3, <2>4, <2>5 DEF CallStep, SessionsStep
<1>6. CASE ~r.row.tfa /\ users' = [users EXCEPT ![r.email] = r.row] /\ A!Saved(c)
           /\ r.op # "changePassword" /\ A!Finish(c, "ok")
  <2>1. q2 \in A!Call /\ call' = [call EXCEPT ![c] = q2] /\ Fits(q2)
    <3>1. "find" \in A!Locations /\ "ok" \in {"none", "ok", "error"}
      BY DEF A!Locations
    <3> QED  BY <1>1, <1>6, <3>1, Moved
  <2>2. /\ q2.pc = "done" /\ q2.op = r.op /\ q2.email = r.email /\ q2.new = r.new
        /\ q2.password = r.password /\ q2.store = r.store
        /\ q2.from = r.from /\ q2.linked = r.linked /\ q2.row = r.row
    BY <1>1 DEF A!Call
  <2> HIDE DEF q2
  <2>3. r.op = "quickStart"
    BY <1>1, <1>6 DEF Fits, Places
  <2>4. call'[c] = q2
    BY <2>1 DEF CallsFit, A!TypeOK
  <2>5. RowStep(c, r, q2)  BY <1>1, <1>6, <2>2, <2>3 DEF RowStep, Saves
  <2>6. Follows(r, q2)  BY <1>1, <2>2 DEF Follows
  <2> QED  BY <1>1, <1>2, <2>1, <2>4, <2>5, <2>6 DEF CallStep, SessionsStep
<1> QED  BY <1>3, <1>4, <1>5, <1>6

LEMMA DatabaseFaultStep == ASSUME CallsFit, NEW c \in Calls, A!DatabaseFault(c) PROVE CallStep(c)
<1>1. faults' \in 0 .. MaxFaults
  BY AccountsAssumption DEF A!DatabaseFault, CallsFit, A!TypeOK
<1> QED  BY <1>1, ErrorStep DEF A!DatabaseFault, A!history

-----------------------------------------------------------------------------
(* Accounts: what every step of a call keeps.                              *)

\* A session is of a call that is over, a logout ends one that was made, and a refresh
\* presents the token of one of its user.
SessionsFit == \A c \in Calls :
    /\ sessions[c] # "none" => call[c].pc = "done"
    /\ call[c].pc = "invalidateOne" => sessions[call[c].from] # "none"
    /\ call[c].op = "refresh" => /\ call[c].from \in Calls /\ sessions[call[c].from] # "none"
                                 /\ call[c].email = call[call[c].from].email

\* An email an account was made for has a row, and one call made it.
OneMade ==
    /\ \A c \in Calls : Made(call[c]) => users[call[c].email].there
    /\ \A c, d \in Calls :
          Made(call[c]) /\ Made(call[d]) /\ call[c].email = call[d].email => c = d

\* A copy no other save overtook differs from the row only by the change of its call.
CopiesFit == \A c \in Calls : LET r == call[c] IN
    /\ copy[c] = "written" => r.pc \in {"invalidateAll", "done"}
    /\ r.pc \in {"createTenant", "save"} /\ r.row.there /\ copy[c] = "fresh" =>
          /\ users[r.email].there
          /\ r.op = "quickStart" => /\ r.row.password = users[r.email].password
                                    /\ r.row.hashed = users[r.email].hashed
          /\ r.op = "changePassword" => r.row.store = users[r.email].store

\* Once a password was changed, the row holds one that some change asked for, unless
\* a link wrote an overtaken copy back; and so a linked store.
PasswordKept(e) == \E d \in Calls :
    /\ call[d].op = "changePassword" /\ call[d].email = e
    /\ users[e].password = call[d].new /\ users[e].hashed
StoreKept(e) == \E d \in Calls :
    call[d].linked /\ call[d].email = e /\ users[e].store = call[d].store
ChangesKept == \A c \in Calls, e \in Emails : call[c].email = e =>
    /\ Changed(call[c]) =>
          users[e].there /\ (A!Overwritten(e, "quickStart") \/ PasswordKept(e))
    /\ Linked(call[c]) =>
          users[e].there /\ (A!Overwritten(e, "changePassword") \/ StoreKept(e))

\* A session that was ended is invalid, and no refresh by it is under way or succeeded
\* but the late ones.
EndedFit ==
    /\ \A c \in ended : sessions[c] = "invalid"
    /\ \A c \in Calls \ late :
          /\ call[c].op = "refresh"
          /\ call[c].pc \in {"findUser", "session"} \/ sessions[c] = "valid"
          => call[c].from \notin ended

\* Who logged in, or is past the check, has the password of the row.
PasswordsFit == \A c \in Calls \ late, e \in Emails :
    /\ call[c].email = e /\ call[c].op = "login"
    /\ call[c].pc = "session" \/ sessions[c] = "valid"
    /\ ~A!Interrupted(e) /\ ~A!Overwritten(e, "quickStart")
    => A!VerifySecureHash(call[c].password, users[e])

AccountsInv ==
    /\ CallsFit /\ SessionsFit /\ OneMade /\ CopiesFit /\ ChangesKept
    /\ EndedFit /\ PasswordsFit

LEMMA AnyCallStep ==
    ASSUME AccountsInv, [A!Next]_(A!vars)
    PROVE  UNCHANGED A!vars \/ \E c \in Calls : CallStep(c)
<1> SUFFICES ASSUME NEW c \in Calls, A!Start(c) \/ A!Resume(c) \/ A!DatabaseFault(c)
             PROVE  CallStep(c)
  BY DEF A!Next
<1>1. CallsFit /\ SessionsFit  BY DEF AccountsInv
<1>2. CASE A!Start(c)  BY <1>1, <1>2, StartStep
<1>3. CASE A!DatabaseFault(c)  BY <1>1, <1>3, DatabaseFaultStep
<1>4. CASE A!InvalidateOne(c)
  <2>1. sessions[call[c].from] # "none"
    BY <1>1, <1>4 DEF SessionsFit, A!InvalidateOne, A!At
  <2> QED  BY <1>1, <1>4, <2>1, InvalidateOneStep
<1>5. CASE A!Find(c) \/ A!CreateTenant(c) \/ A!FindAgain(c) \/ A!Insert(c)
  BY <1>1, <1>5, FindStep, CreateTenantStep, FindAgainStep, InsertStep
<1>6. CASE A!Verify(c) \/ A!FindSession(c) \/ A!FindUser(c) \/ A!CreateSession(c)
  BY <1>1, <1>6, VerifyStep, RefreshStep, CreateSessionStep
<1>7. CASE A!InvalidateAll(c) \/ A!Read(c) \/ A!Save(c)
  BY <1>1, <1>7, InvalidateAllStep, ReadStep, SaveStep
<1> QED  BY <1>2, <1>3, <1>4, <1>5, <1>6, <1>7 DEF A!Resume

\* The other calls stay where they are, and a call keeps what it began with.
LEMMA OtherCalls ==
    ASSUME CallsFit, NEW c \in Calls, CallStep(c), NEW d \in Calls
    PROVE  /\ d # c => call'[d] = call[d]
           /\ call[d].linked => call'[d].linked
           /\ call[d].pc # "idle" \/ call[d].linked \/ call[d].op # "none" =>
                 /\ call'[d].op = call[d].op /\ call'[d].email = call[d].email
                 /\ call'[d].new = call[d].new /\ call'[d].from = call[d].from
                 /\ call'[d].password = call[d].password /\ call'[d].store = call[d].store
<1>1. call[d].pc = "idle" => call[d].op = "none" /\ ~call[d].linked
  BY DEF CallsFit, Fits, Places
<1>2. d # c => call'[d] = call[d]  BY DEF CallStep, CallsFit, A!TypeOK
<1> QED  BY <1>1, <1>2 DEF CallStep, Follows

\* What a step sees of the types.
LEMMA StepTypes ==
    ASSUME CallsFit, NEW c \in Calls, CallStep(c)
    PROVE  /\ call[c] \in A!Call /\ call'[c] \in A!Call /\ Fits(call[c]) /\ Fits(call'[c])
           /\ Follows(call[c], call'[c]) /\ RowStep(c, call[c], call'[c]) /\ SessionsStep(c)
           /\ call'[c].email \in Emails /\ call[c].row \in A!User
           /\ users \in [Emails -> A!User] /\ copy \in [Calls -> A!Copies]
           /\ sessions \in [Calls -> {"none", "valid", "invalid"}]
           /\ \A d \in Calls : call[d].email \in Emails /\ call'[d].email \in Emails
<1>1. call[c] \in A!Call /\ call'[c] \in A!Call
  BY DEF CallStep, CallsFit, A!TypeOK
<1>2. call[c].row \in A!User /\ call'[c].email \in Emails  BY <1>1 DEF A!Call
<1>3. \A d \in Calls : call[d].email \in Emails  BY DEF CallsFit, A!TypeOK, A!Call
<1> QED  BY <1>1, <1>2, <1>3, OtherCalls DEF CallStep, CallsFit, A!TypeOK

LEMMA FitStep ==
    ASSUME CallsFit, NEW c \in Calls, CallStep(c)
    PROVE  CallsFit'
<1>1. call'[c] \in A!Call /\ Fits(call'[c]) /\ call' = [call EXCEPT ![c] = call'[c]]
  BY DEF CallStep
<1>2. call' \in [Calls -> A!Call]
  BY <1>1 DEF CallsFit, A!TypeOK
<1>3. \A d \in Calls : Fits(call'[d])
  BY <1>1, OtherCalls DEF CallsFit
<1>4. users' \in [Emails -> A!User] /\ copy' \in [Calls -> A!Copies]
  <2>1. CASE Saves(c, call[c], call'[c])
    <3>1. users' \in [Emails -> A!User]  BY <2>1, StepTypes DEF Saves
    <3>2. copy' \in [Calls -> A!Copies]
      BY <2>1, StepTypes DEF Saves, A!Saved, A!Copies
    <3> QED  BY <3>1, <3>2
  <2>2. CASE ~Saves(c, call[c], call'[c])
    BY <2>2, StepTypes DEF RowStep
  <2> QED  BY <2>1, <2>2
<1>5. /\ sessions' \in [Calls -> {"none", "valid", "invalid"}]
      /\ ended' \subseteq Calls /\ late' \subseteq Calls
  <2>1. ended \subseteq Calls /\ late \subseteq Calls  BY DEF CallsFit, A!TypeOK
  <2> QED  BY <2>1, StepTypes DEF SessionsStep, Ends, A!Others
<1>6. stores' \subseteq Stores /\ faults' \in 0 .. MaxFaults  BY DEF CallStep
<1>7. (A!TypeOK)'  BY <1>2, <1>4, <1>5, <1>6 DEF A!TypeOK
<1> QED  BY <1>3, <1>7 DEF CallsFit, Fits

\* A session that was made stays made, and is made by a call at its end.
LEMMA SessionsMove ==
    ASSUME CallsFit, SessionsFit, NEW c \in Calls, CallStep(c), NEW d \in Calls
    PROVE  /\ sessions[d] # "none" => sessions'[d] # "none"
           /\ sessions[d] = "invalid" => sessions'[d] = "invalid"
           /\ sessions'[d] = "valid" /\ sessions[d] # "valid" =>
                 d = c /\ call[c].pc = "session" /\ UNCHANGED <<ended, late>>
           /\ sessions'[d] # "none" =>
                 sessions[d] # "none" \/ (d = c /\ call'[c].pc = "done")
<1>1. sessions[c] = "none"  BY StepTypes DEF SessionsFit, Follows
<1>2. sessions \in [Calls -> {"none", "valid", "invalid"}] /\ SessionsStep(c)  BY StepTypes
<1> QED  BY <1>1, <1>2 DEF SessionsStep, Ends

LEMMA SessionsFitStep ==
    ASSUME CallsFit, SessionsFit, NEW c \in Calls, CallStep(c)
    PROVE  SessionsFit'
<1> SUFFICES ASSUME NEW d \in Calls
             PROVE  /\ sessions'[d] # "none" => call'[d].pc = "done"
                    /\ call'[d].pc = "invalidateOne" => sessions'[call'[d].from] # "none"
                    /\ call'[d].op = "refresh" =>
                          /\ call'[d].from \in Calls /\ sessions'[call'[d].from] # "none"
                          /\ call'[d].email = call'[call'[d].from].email
  BY DEF SessionsFit
<1>1. Follows(call[c], call'[c]) /\ call[c].pc # "done"  BY StepTypes DEF Follows
<1>2. sessions'[d] # "none" => call'[d].pc = "done"
  BY <1>1, SessionsMove, OtherCalls DEF SessionsFit
<1>3. ASSUME call'[d].pc = "invalidateOne"
      PROVE  call'[d].from \in Calls /\ sessions[call'[d].from] # "none"
  <2>1. Fits(call'[d]) /\ (d = c => sessions[call'[d].from] # "none")
    BY <1>1, <1>3, StepTypes, OtherCalls DEF CallsFit, Follows
  <2>2. call'[d].from \in Calls  BY <1>3, <2>1 DEF Fits
  <2> QED  BY <1>3, <2>1, <2>2, OtherCalls DEF SessionsFit
<1>4. ASSUME call'[d].op = "refresh"
      PROVE  /\ call'[d].from \in Calls /\ sessions[call'[d].from] # "none"
             /\ call'[d].email = call[call'[d].from].email
  <2>1. CASE d = c /\ call[c].pc = "idle"
    BY <1>1, <1>4, <2>1 DEF Follows
  <2>2. CASE d # c \/ call[c].pc # "idle"
    <3>1. /\ call'[d].op = call[d].op /\ call'[d].from = call[d].from
          /\ call'[d].email = call[d].email
      BY <2>2, OtherCalls
    <3> QED  BY <1>4, <3>1 DEF SessionsFit
  <2> QED  BY <2>1, <2>2
<1>5. ASSUME call'[d].op = "refresh"
      PROVE  call'[call'[d].from].email = call[call'[d].from].email
  <2>1. call'[d].from \in Calls /\ sessions[call'[d].from] # "none"  BY <1>4, <1>5
  <2>2. call[call'[d].from].pc = "done"  BY <2>1 DEF SessionsFit
  <2> QED  BY <1>1, <2>1, <2>2, OtherCalls
<1> QED  BY <1>2, <1>3, <1>4, <1>5, SessionsMove

\* A row that is there stays there, and the rows of other emails are as they were.
LEMMA Rows ==
    ASSUME CallsFit, NEW c \in Calls, CallStep(c), NEW e \in Emails
    PROVE  /\ users[e].there => users'[e].there
           /\ e # call'[c].email => users'[e] = users[e]
<1>1. RowStep(c, call[c], call'[c]) /\ users \in [Emails -> A!User] /\ Fits(call[c])
  BY StepTypes
<1> QED  BY <1>1 DEF RowStep, Saves, Fits

LEMMA OneMadeStep ==
    ASSUME CallsFit, OneMade, NEW c \in Calls, CallStep(c)
    PROVE  OneMade'
<1> DEFINE q == call'[c]
<1>1. /\ q.email \in Emails /\ RowStep(c, call[c], q)
      /\ users \in [Emails -> A!User]
      /\ \A d \in Calls : call'[d].email \in Emails /\ call[d].email \in Emails
  BY StepTypes
<1>2. Made(call[c]) => call[c].pc # "idle"  BY DEF Made
<1>3. Saves(c, call[c], q) => ~Made(q)
  BY StepTypes DEF Saves, Made, Fits, Follows
<1>4. \/ Made(q) => Made(call[c]) /\ q.email = call[c].email
      \/ ~users[q.email].there /\ users'[q.email].there
  BY <1>1, <1>2, <1>3, OtherCalls DEF RowStep
<1>5. \A d \in Calls : Made(call'[d]) => users'[call'[d].email].there
  <2> SUFFICES ASSUME NEW d \in Calls, Made(call'[d]) PROVE users'[call'[d].email].there
    OBVIOUS
  <2>1. d # c => call'[d] = call[d]  BY OtherCalls
  <2> QED  BY <1>1, <1>4, <2>1, Rows DEF OneMade
<1>6. \A d \in Calls : d # c /\ Made(q) /\ Made(call'[d]) => q.email # call'[d].email
  <2> SUFFICES ASSUME NEW d \in Calls, d # c, Made(q), Made(call'[d])
               PROVE  q.email # call'[d].email
    OBVIOUS
  <2>1. call'[d] = call[d]  BY OtherCalls
  <2> QED  BY <1>4, <2>1 DEF OneMade
<1>7. \A x, y \in Calls :
        Made(call'[x]) /\ Made(call'[y]) /\ call'[x].email = call'[y].email => x = y
  BY <1>6, OtherCalls DEF OneMade
<1> QED  BY <1>5, <1>7 DEF OneMade, Made

\* A save makes the other copies of its row stale, and is the last place of its own.
LEMMA CopiesFitStep ==
    ASSUME CallsFit, CopiesFit, NEW c \in Calls, CallStep(c)
    PROVE  CopiesFit'
<1> DEFINE q == call'[c]
           Fresh(r, k) ==
              r.pc \in {"createTenant", "save"} /\ r.row.there /\ k = "fresh"
           Agrees(r, u) ==
              /\ u.there
              /\ r.op = "quickStart" => r.row.password = u.password /\ r.row.hashed = u.hashed
              /\ r.op = "changePassword" => r.row.store = u.store
<1>1. SUFFICES ASSUME NEW d \in Calls
               PROVE  /\ copy'[d] = "written" => call'[d].pc \in {"invalidateAll", "done"}
                      /\ Fresh(call'[d], copy'[d]) => Agrees(call'[d], users'[call'[d].email])
  BY Zenon DEF CopiesFit
<1>2. /\ copy[d] = "written" => call[d].pc \in {"invalidateAll", "done"}
      /\ Fresh(call[d], copy[d]) => Agrees(call[d], users[call[d].email])
  BY DEF CopiesFit
<1>3. /\ Follows(call[c], q) /\ RowStep(c, call[c], q) /\ Fits(call[c]) /\ Fits(q)
      /\ call'[d].email \in Emails /\ copy \in [Calls -> A!Copies] /\ q.email \in Emails
  BY StepTypes
<1>4. d # c => call'[d] = call[d]  BY OtherCalls
<1>5. copy'[d] = "written" => call'[d].pc \in {"invalidateAll", "done"}
  <2>1. CASE copy'[d] = copy[d]
    BY <1>2, <1>3, <1>4, <2>1 DEF Follows
  <2>2. CASE Saves(c, call[c], q) /\ copy'[d] # copy[d]
    BY <1>3, <2>2 DEF Saves, A!Saved
  <2> QED  BY <1>3, <2>1, <2>2 DEF RowStep
<1>6. ASSUME Fresh(call'[d], copy'[d]) PROVE Agrees(call'[d], users'[call'[d].email])
  <2>1. copy'[d] = copy[d]
    BY <1>3, <1>6 DEF RowStep, Saves, A!Saved
  <2>2. CASE d = c
    <3>1. UNCHANGED users /\ Fresh(q, copy[c])
      BY <1>3, <1>6, <2>1, <2>2 DEF RowStep, Saves, Fits, Places
    <3>2. CASE q.pc = "createTenant"
      BY <1>3, <2>2, <3>1, <3>2 DEF Follows, Fits, Places
    <3>3. CASE q.pc = "save" /\ q.op # "quickStart"
      BY <1>3, <2>2, <3>1, <3>3 DEF Follows
    <3>4. CASE q.pc = "save" /\ q.op = "quickStart"
      <4>1. /\ call[c].pc = "createTenant" /\ call[c].row.there
            /\ q.row.password = call[c].row.password /\ q.row.hashed = call[c].row.hashed
            /\ call[c].op = "quickStart" /\ q.email = call[c].email
        BY <1>3, <3>4 DEF Follows
      <4>2. Agrees(call[c], users[call[c].email])
        BY <1>2, <2>2, <3>1, <4>1
      <4> QED  BY <2>2, <3>1, <3>4, <4>1, <4>2
    <3> QED  BY <1>3, <3>1, <3>2, <3>3, <3>4 DEF Fits, Places
  <2>3. CASE d # c
    <3>1. Agrees(call[d], users[call[d].email]) /\ users[call[d].email].there
      BY <1>2, <1>4, <1>6, <2>1, <2>3
    <3>2. CASE call[d].email = q.email
      <4>1. ~Saves(c, call[c], q)
        BY <1>3, <1>4, <1>6, <2>3, <3>2 DEF Saves, A!Saved, A!Others
      <4> QED  BY <1>3, <1>4, <2>3, <3>1, <3>2, <4>1 DEF RowStep
    <3>3. CASE call[d].email # q.email
      BY <1>3, <1>4, <2>3, <3>1, <3>3, Rows
    <3> QED  BY <3>2, <3>3
  <2> QED  BY <2>2, <2>3
<1> QED  BY <1>5, <1>6

\* A copy that was written back stays so.
LEMMA OverwrittenStays ==
    ASSUME CallsFit, CopiesFit, NEW c \in Calls, CallStep(c), NEW e, NEW op,
           A!Overwritten(e, op)
    PROVE  A!Overwritten(e, op)'
<1>1. PICK d \in Calls : call[d].email = e /\ call[d].op = op /\ copy[d] = "written"
  BY DEF A!Overwritten
<1>2. call[d].pc \in {"invalidateAll", "done"}  BY <1>1 DEF CopiesFit
<1>3. call'[d].email = e /\ call'[d].op = op  BY <1>1, <1>2, OtherCalls
<1>4. copy'[d] = "written"
  BY <1>1, <1>2, StepTypes DEF RowStep, Saves, A!Saved
<1> QED  BY <1>3, <1>4 DEF A!Overwritten

\* A save by onboarding that is not of an overtaken copy keeps the password, and one by
\* a change of password keeps the store.
LEMMA SavesKeep ==
    ASSUME CallsFit, CopiesFit, NEW c \in Calls, CallStep(c), NEW e \in Emails, NEW op,
           Saves(c, call[c], call'[c]), call'[c].email = e, call'[c].op = op,
           ~A!Overwritten(e, op)'
    PROVE  /\ op = "quickStart" => users'[e].password = users[e].password
                                   /\ users'[e].hashed = users[e].hashed
           /\ op = "changePassword" => users'[e].store = users[e].store
<1>1. /\ call[c].pc = "save" /\ call[c].row.there /\ call[c].op = op
      /\ users'[e] = call[c].row /\ call[c].email = e
  BY StepTypes DEF Saves, Fits, Follows
<1>2. copy'[c] # "written"  BY DEF A!Overwritten
<1>3. copy[c] = "fresh"
  <2>1. copy[c] \in A!Copies /\ copy[c] # "written"  BY <1>1, StepTypes DEF CopiesFit
  <2>2. copy[c] # "stale"
    BY <1>2 DEF Saves, A!Saved, A!Others
  <2> QED  BY <2>1, <2>2 DEF A!Copies
<1> QED  BY <1>1, <1>3 DEF CopiesFit

LEMMA PasswordKeptStays ==
    ASSUME CallsFit, NEW c \in Calls, CallStep(c), NEW e, PasswordKept(e),
           users'[e].password = users[e].password, users'[e].hashed = users[e].hashed
    PROVE  PasswordKept(e)'
<1>1. PICK d \in Calls : /\ call[d].op = "changePassword" /\ call[d].email = e
                         /\ users[e].password = call[d].new /\ users[e].hashed
  BY DEF PasswordKept
<1>2. /\ call'[d].op = call[d].op /\ call'[d].email = call[d].email
      /\ call'[d].new = call[d].new
  BY <1>1, OtherCalls
<1>3. call'[d].op = "changePassword" /\ call'[d].email = e
      /\ users'[e].password = call'[d].new /\ users'[e].hashed
  BY <1>1, <1>2
<1> QED  BY <1>3 DEF PasswordKept

LEMMA StoreKeptStays ==
    ASSUME CallsFit, NEW c \in Calls, CallStep(c), NEW e, StoreKept(e),
           users'[e].store = users[e].store
    PROVE  StoreKept(e)'
<1>1. PICK d \in Calls : call[d].linked /\ call[d].email = e /\ users[e].store = call[d].store
  BY DEF StoreKept
<1>2. call'[d].linked /\ call'[d].email = e /\ users'[e].store = call'[d].store
  BY <1>1, OtherCalls
<1> QED  BY <1>2 DEF StoreKept

LEMMA ChangesKeptStep ==
    ASSUME CallsFit, CopiesFit, ChangesKept, NEW c \in Calls, CallStep(c)
    PROVE  ChangesKept'
<1> DEFINE q == call'[c]
<1> SUFFICES ASSUME NEW d \in Calls, NEW e \in Emails, call'[d].email = e
             PROVE  /\ Changed(call'[d]) =>
                         /\ users'[e].there
                         /\ A!Overwritten(e, "quickStart")' \/ PasswordKept(e)'
                    /\ Linked(call'[d]) =>
                         /\ users'[e].there
                         /\ A!Overwritten(e, "changePassword")' \/ StoreKept(e)'
  BY DEF ChangesKept, Changed, Linked
<1>1. /\ q.email \in Emails /\ RowStep(c, call[c], q) /\ Follows(call[c], q)
      /\ Fits(call[c]) /\ Fits(q) /\ users \in [Emails -> A!User]
  BY StepTypes
<1>2. d # c => call'[d] = call[d]  BY OtherCalls
<1>3. A!Overwritten(e, "quickStart") => A!Overwritten(e, "quickStart")'
  BY OverwrittenStays
<1>4. A!Overwritten(e, "changePassword") => A!Overwritten(e, "changePassword")'
  BY OverwrittenStays
<1>5. ASSUME Changed(call[d]), call[d].email = e,
             /\ users'[e].password = users[e].password /\ users'[e].hashed = users[e].hashed
             \/ A!Overwritten(e, "quickStart")'
      PROVE  users'[e].there /\ (A!Overwritten(e, "quickStart")' \/ PasswordKept(e)')
  <2>1. users[e].there /\ (A!Overwritten(e, "quickStart") \/ PasswordKept(e))
    BY <1>5 DEF ChangesKept
  <2> QED  BY <1>3, <1>5, <2>1, Rows, PasswordKeptStays
<1>6. ASSUME Linked(call[d]), call[d].email = e,
             users'[e].store = users[e].store \/ A!Overwritten(e, "changePassword")'
      PROVE  users'[e].there /\ (A!Overwritten(e, "changePassword")' \/ StoreKept(e)')
  <2>1. users[e].there /\ (A!Overwritten(e, "changePassword") \/ StoreKept(e))
    BY <1>6 DEF ChangesKept
  <2> QED  BY <1>4, <1>6, <2>1, Rows, StoreKeptStays
<1>7. CASE ~Saves(c, call[c], q)
  <2>1. Changed(call'[d]) => Changed(call[d]) /\ call[d].email = e /\ users'[e] = users[e]
    <3>1. Changed(call[c]) => call[c].email = q.email  BY <1>1 DEF Changed, Follows
    <3>2. Changed(call[d]) /\ call[d].email = e => users[e].there  BY DEF ChangesKept
    <3> QED  BY <1>1, <1>2, <1>7, <3>1, <3>2, Rows DEF RowStep
  <2>2. Linked(call'[d]) => Linked(call[d]) /\ call[d].email = e /\ users'[e] = users[e]
    <3>1. Linked(call[d]) /\ call[d].email = e => users[e].there  BY DEF ChangesKept
    <3> QED  BY <1>1, <1>2, <1>7, <3>1, Rows DEF RowStep
  <2> QED  BY <1>5, <1>6, <2>1, <2>2
<1>8. CASE Saves(c, call[c], q) /\ q.email # e
  <2>1. d # c /\ users'[e] = users[e]  BY <1>8, Rows
  <2> QED  BY <1>2, <1>5, <1>6, <2>1
<1>9. CASE Saves(c, call[c], q) /\ q.email = e /\ q.op = "changePassword"
  <2>1. /\ users'[e] = call[c].row /\ call[c].row.there /\ call[c].row.hashed
        /\ call[c].row.password = q.new
    BY <1>1, <1>9 DEF Saves, Fits, Follows
  <2>2. PasswordKept(e)'  BY <1>9, <2>1 DEF PasswordKept
  <2>3. Linked(call'[d]) => Linked(call[d]) /\ call[d].email = e
    BY <1>2, <1>9 DEF Linked
  <2>4. users'[e].store = users[e].store \/ A!Overwritten(e, "changePassword")'
    BY <1>9, SavesKeep
  <2> QED  BY <1>6, <2>1, <2>2, <2>3, <2>4
<1>10. CASE Saves(c, call[c], q) /\ q.email = e /\ q.op = "quickStart"
  <2>1. /\ users'[e] = call[c].row /\ call[c].row.there /\ q.linked
        /\ call[c].row.store = q.store
    BY <1>1, <1>10 DEF Saves, Fits, Follows
  <2>2. StoreKept(e)'  BY <1>10, <2>1 DEF StoreKept
  <2>3. Changed(call'[d]) => Changed(call[d]) /\ call[d].email = e
    BY <1>2, <1>10 DEF Changed
  <2>4. /\ users'[e].password = users[e].password /\ users'[e].hashed = users[e].hashed
        \/ A!Overwritten(e, "quickStart")'
    BY <1>10, SavesKeep
  <2> QED  BY <1>5, <2>1, <2>2, <2>3, <2>4
<1> QED  BY <1>7, <1>8, <1>9, <1>10 DEF Saves

\* Who ends the sessions of a user makes late every refresh by one of them that is past
\* its check, and ends the session of one that succeeded.
LEMMA EndedFitStep ==
    ASSUME CallsFit, SessionsFit, EndedFit, NEW c \in Calls, CallStep(c)
    PROVE  EndedFit'
<1>1. /\ SessionsStep(c) /\ Follows(call[c], call'[c]) /\ Fits(call[c]) /\ Fits(call'[c])
      /\ sessions \in [Calls -> {"none", "valid", "invalid"}]
      /\ ended \subseteq Calls /\ late \subseteq Calls
  BY StepTypes DEF CallsFit, A!TypeOK
<1>2. Ends(c) \/ UNCHANGED <<ended, late>>  BY <1>1 DEF SessionsStep
<1>3. ASSUME NEW d \in ended' PROVE sessions'[d] = "invalid"
  <2>1. CASE d \in ended
    BY <1>1, <2>1, SessionsMove DEF EndedFit
  <2>2. CASE d \notin ended
    <3>1. Ends(c) /\ d \in A!Others(c) /\ d \in Calls /\ sessions[d] # "none"
      BY <1>2, <1>3, <2>2 DEF Ends, A!Others
    <3> QED  BY <1>1, <3>1 DEF Ends
  <2> QED  BY <2>1, <2>2
<1>4. ASSUME NEW d \in Calls \ late', call'[d].op = "refresh",
             call'[d].pc \in {"findUser", "session"} \/ sessions'[d] = "valid"
      PROVE  call'[d].from \notin ended'
  <2>1. d \notin late  BY <1>2, <1>4 DEF Ends
  <2>2. CASE d = c /\ call'[c].pc = "findUser"
    <3>1. sessions[call'[c].from] = "valid" /\ call[c].pc # "invalidateAll"
      BY <1>1, <2>2 DEF Follows
    <3> QED  BY <1>2, <2>2, <3>1 DEF EndedFit, Ends
  <2>3. CASE ~(d = c /\ call'[c].pc = "findUser")
    <3>1. call[d].pc # "idle" /\ call[d].op = "refresh" /\ call'[d].from = call[d].from
      <4>1. d # c => call'[d] = call[d]  BY OtherCalls
      <4>2. d = c => call[d].pc # "idle"
        <5>1. sessions'[c] = "valid" => call'[c].pc = "done"
          BY SessionsFitStep DEF SessionsFit
        <5> QED  BY <1>1, <1>4, <5>1 DEF Follows
      <4>3. call[d].op = "refresh" => call[d].pc # "idle"
        BY DEF CallsFit, Fits, Places
      <4> QED  BY <1>4, <4>1, <4>2, <4>3, OtherCalls
    <3>2. call[d].pc \in {"findUser", "session"} \/ sessions[d] = "valid"
      <4>1. d # c => call'[d] = call[d]  BY OtherCalls
      <4>2. CASE d = c /\ call'[d].pc = "session"
        BY <1>1, <1>4, <4>2 DEF Follows
      <4>3. CASE sessions'[d] = "valid"
        BY <4>3, SessionsMove
      <4> QED  BY <1>4, <2>3, <4>1, <4>2, <4>3
    <3>3. call[d].from \notin ended  BY <2>1, <3>1, <3>2 DEF EndedFit
    <3>4. CASE UNCHANGED ended  BY <3>1, <3>3, <3>4
    <3>5. CASE Ends(c)
      <4>1. d # c  BY <1>1, <3>1, <3>5 DEF Ends, Fits, Places
      <4>2. call[d].email = call[call[d].from].email /\ call[d].from \in Calls
        BY <3>1 DEF SessionsFit
      <4>3. d \notin A!Others(c)
        <5>1. call'[d] = call[d]  BY <4>1, OtherCalls
        <5> QED  BY <1>1, <1>4, <3>2, <3>5, <5>1 DEF Ends
      <4>4. call[d].from \notin A!Others(c)  BY <4>1, <4>2, <4>3 DEF A!Others
      <4> QED  BY <3>1, <3>3, <3>5, <4>4 DEF Ends
    <3> QED  BY <1>2, <3>4, <3>5
  <2> QED  BY <2>2, <2>3
<1> QED  BY <1>3, <1>4 DEF EndedFit

\* An interrupted change of a password stays so until it ends the sessions.
LEMMA InterruptedStays ==
    ASSUME CallsFit, NEW c \in Calls, CallStep(c), NEW e, A!Interrupted(e)
    PROVE  A!Interrupted(e)' \/ (Ends(c) /\ call[c].email = e)
<1>1. PICK d \in Calls : /\ call[d].op = "changePassword" /\ call[d].email = e
                         /\ call[d].row.there
                         /\ call[d].pc = "invalidateAll" \/ call[d].res = "error"
  BY DEF A!Interrupted
<1>2. call[d].pc \in {"invalidateAll", "done"}
  BY <1>1 DEF CallsFit, Fits
<1>3. /\ call'[d].op = "changePassword" /\ call'[d].email = e
      /\ Follows(call[c], call'[c]) /\ SessionsStep(c)
  BY <1>1, <1>2, StepTypes, OtherCalls
<1>4. CASE d # c
  <2>1. call'[d] = call[d]  BY <1>4, OtherCalls
  <2> QED  BY <1>1, <2>1 DEF A!Interrupted
<1>5. CASE d = c
  <2>1. call[c].pc = "invalidateAll" /\ call'[c].row.there
    BY <1>1, <1>2, <1>3, <1>5 DEF Follows
  <2>2. call'[c].res = "error" \/ Ends(c)  BY <1>3, <2>1 DEF SessionsStep
  <2> QED  BY <1>1, <1>3, <1>5, <2>1, <2>2 DEF A!Interrupted
<1> QED  BY <1>4, <1>5

LEMMA PasswordsFitStep ==
    ASSUME CallsFit, SessionsFit, CopiesFit, PasswordsFit, NEW c \in Calls, CallStep(c)
    PROVE  PasswordsFit'
<1> DEFINE q == call'[c]
<1> SUFFICES ASSUME NEW d \in Calls, d \notin late', NEW e \in Emails,
                    call'[d].email = e, call'[d].op = "login",
                    call'[d].pc = "session" \/ sessions'[d] = "valid",
                    ~A!Interrupted(e)', ~A!Overwritten(e, "quickStart")'
             PROVE  A!VerifySecureHash(call'[d].password, users'[e])
  BY DEF PasswordsFit, A!VerifySecureHash
<1>1. /\ SessionsStep(c) /\ Follows(call[c], q) /\ Fits(call[c]) /\ Fits(q)
      /\ RowStep(c, call[c], q) /\ q.email \in Emails
      /\ users \in [Emails -> A!User]
      /\ sessions \in [Calls -> {"none", "valid", "invalid"}]
  BY StepTypes
<1>2. d # c => call'[d] = call[d]  BY OtherCalls
<1>3. d \notin late  BY <1>1 DEF SessionsStep, Ends
<1>4. CASE d = c /\ q.pc = "session"
  <2>1. UNCHANGED users  BY <1>1, <1>4 DEF RowStep, Saves
  <2> QED  BY <1>1, <1>4, <2>1 DEF Follows
<1>5. CASE ~(d = c /\ q.pc = "session")
  <2>1. call[d].pc = "session" \/ sessions[d] = "valid"
    BY <1>2, <1>5, SessionsMove
  <2>2. call[d].pc # "idle"  BY <2>1 DEF SessionsFit
  <2>3. /\ call[d].op = "login" /\ call[d].email = e
        /\ call[d].password = call'[d].password
    BY <2>2, OtherCalls
  <2>4. ~A!Overwritten(e, "quickStart")  BY OverwrittenStays
  <2>5. ~(Ends(c) /\ call[c].email = e)
    <3> SUFFICES ASSUME Ends(c), call[c].email = e PROVE FALSE
      OBVIOUS
    <3>1. d # c  BY <1>1, <2>3 DEF Ends, Fits, Places
    <3>2. d \in A!Others(c)  BY <2>3, <3>1 DEF A!Others
    <3> QED  BY <1>1, <1>2, <2>1, <3>1, <3>2 DEF Ends
  <2>6. ~A!Interrupted(e)  BY <2>5, InterruptedStays
  <2>7. A!VerifySecureHash(call'[d].password, users[e])
    BY <1>3, <2>1, <2>3, <2>4, <2>6 DEF PasswordsFit
  <2>8. CASE users'[e] = users[e]  BY <2>7, <2>8
  <2>9. CASE users'[e] # users[e]
    <3>1. q.email = e /\ users[e].there
      BY <2>7, <2>9, Rows DEF A!VerifySecureHash
    <3>2. Saves(c, call[c], q)  BY <1>1, <2>9, <3>1 DEF RowStep
    <3>3. CASE q.op = "changePassword"
      <4>1. q.row.there /\ q.pc = "invalidateAll"
        BY <1>1, <3>2, <3>3 DEF Saves, Fits
      <4> QED  BY <3>1, <3>3, <4>1 DEF A!Interrupted
    <3>4. CASE q.op = "quickStart"
      <4>1. users'[e].password = users[e].password /\ users'[e].hashed = users[e].hashed
        BY <3>1, <3>2, <3>4, SavesKeep
      <4>2. users'[e].there  BY <3>1, Rows
      <4> QED  BY <2>7, <4>1, <4>2 DEF A!VerifySecureHash
    <3> QED  BY <3>2, <3>3, <3>4 DEF Saves
  <2> QED  BY <2>8, <2>9
<1> QED  BY <1>4, <1>5

LEMMA AccountsStep == ASSUME AccountsInv, [A!Next]_(A!vars) PROVE AccountsInv'
<1>1. CASE UNCHANGED A!vars
  <2>1. /\ CallsFit /\ SessionsFit /\ OneMade /\ CopiesFit /\ ChangesKept
        /\ EndedFit /\ PasswordsFit
    BY DEF AccountsInv
  <2>2. UNCHANGED <<users, sessions, stores, call, faults, copy, ended, late>>
    BY <1>1 DEF A!vars, A!history
  <2>3. CallsFit' /\ SessionsFit' /\ OneMade' /\ CopiesFit' /\ EndedFit'
    BY <2>1, <2>2 DEF CallsFit, SessionsFit, OneMade, CopiesFit, EndedFit, A!TypeOK, Fits, Made
  <2>4. ChangesKept'
    BY <2>1, <2>2 DEF ChangesKept, Changed, Linked, PasswordKept, StoreKept, A!Overwritten
  <2>5. PasswordsFit'
    BY <2>1, <2>2 DEF PasswordsFit, A!Interrupted, A!Overwritten, A!VerifySecureHash
  <2> QED  BY <2>3, <2>4, <2>5 DEF AccountsInv
<1>2. ASSUME NEW c \in Calls, CallStep(c) PROVE AccountsInv'
  <2>1. /\ CallsFit /\ SessionsFit /\ OneMade /\ CopiesFit /\ ChangesKept
        /\ EndedFit /\ PasswordsFit
    BY DEF AccountsInv
  <2> QED
    BY <1>2, <2>1, FitStep, SessionsFitStep, OneMadeStep, CopiesFitStep, ChangesKeptStep,
       EndedFitStep, PasswordsFitStep DEF AccountsInv
<1> QED  BY <1>1, <1>2, AnyCallStep

\* Only the rows another program wrote are there at the start, and no call ran.
LEMMA AccountsStart == ASSUME A!Init PROVE AccountsInv
<1>1. /\ call = [c \in Calls |-> A!Idle] /\ sessions = [c \in Calls |-> "none"]
      /\ stores = {} /\ faults = 0
      /\ copy = [c \in Calls |-> "fresh"] /\ ended = {} /\ late = {}
  BY DEF A!Init
<1>2. users \in [Emails -> A!User]
  BY RecordTypes, AccountsAssumption DEF A!Init
<1>3. \A c \in Calls : call[c] = A!Idle  BY <1>1
<1>4. Fits(A!Idle) /\ ~Made(A!Idle) /\ ~Changed(A!Idle) /\ ~Linked(A!Idle)
  BY RecordTypes DEF Fits, Places, Made, Changed, Linked
<1>5. A!TypeOK  BY <1>1, <1>2, RecordTypes, AccountsAssumption DEF A!TypeOK, A!Copies
<1>6. CallsFit  BY <1>3, <1>4, <1>5 DEF CallsFit
<1>7. SessionsFit /\ CopiesFit /\ EndedFit /\ PasswordsFit
  BY <1>1, <1>3, RecordTypes DEF SessionsFit, CopiesFit, EndedFit, PasswordsFit
<1>8. OneMade /\ ChangesKept  BY <1>3, <1>4 DEF OneMade, ChangesKept
<1> QED  BY <1>6, <1>7, <1>8 DEF AccountsInv

LEMMA AccountsInvariant == A!Spec => []AccountsInv
<1>1. A!Init => AccountsInv  BY AccountsStart
<1>2. AccountsInv /\ [A!Next]_(A!vars) => AccountsInv'  BY AccountsStep
<1> QED  BY <1>1, <1>2, PTL DEF A!Spec

\* Rows, sessions, stores and calls keep their types: a call is never left with a row
\* that is not one of the table.
THEOREM AccountsTypeCorrect == A!Spec => []A!TypeOK
<1>1. AccountsInv => A!TypeOK  BY DEF AccountsInv, CallsFit
<1> QED  BY <1>1, AccountsInvariant, PTL

\* However many registrations and onboardings of one email race past both look-ups, at
\* most one of them is told that it made the account.
THEOREM AccountsOne == A!Spec => []A!OneAccountPerEmail
<1>1. AccountsInv => A!OneAccountPerEmail
  BY DEF AccountsInv, OneMade, Made, A!OneAccountPerEmail, A!Done
<1> QED  BY <1>1, AccountsInvariant, PTL

\* What save wrote is lost only to a save of the other kind that wrote an overtaken copy
\* back: a changed password to a link of onboarding, a linked store to a change of
\* password.
THEOREM AccountsChange == A!Spec => []A!ChangeSurvives
<1>1. ASSUME AccountsInv PROVE A!ChangeSurvives
  <2> SUFFICES ASSUME NEW c \in Calls, NEW e, e = call[c].email
               PROVE  /\ A!Done(c, {"changePassword"}) /\ ~A!Overwritten(e, "quickStart")
                         => PasswordKept(e)
                      /\ /\ A!Done(c, {"quickStart"}) /\ call[c].linked
                         /\ ~A!Overwritten(e, "changePassword")
                         => StoreKept(e)
    BY DEF A!ChangeSurvives, PasswordKept, StoreKept
  <2>1. e \in Emails /\ ChangesKept
    BY <1>1 DEF AccountsInv, CallsFit, A!TypeOK, A!Call
  <2> QED  BY <2>1 DEF ChangesKept, Changed, Linked, A!Done
<1> QED  BY <1>1, AccountsInvariant, PTL

\* No session is opened by the token of an ended one, nor stands after a change of
\* password with another one, but for calls that were past their check when the
\* sessions were ended.
THEOREM AccountsSessions == A!Spec => []A!SessionsEndTogether
<1>1. ASSUME AccountsInv PROVE A!SessionsEndTogether
  <2> SUFFICES ASSUME NEW c \in Calls, sessions[c] = "valid", c \notin late
               PROVE  /\ call[c].op = "refresh" => call[c].from \notin ended
                      /\ /\ call[c].op = "login" /\ ~A!Interrupted(call[c].email)
                         /\ ~A!Overwritten(call[c].email, "quickStart")
                         => A!VerifySecureHash(call[c].password, users[call[c].email])
    BY DEF A!SessionsEndTogether
  <2>1. call[c].email \in Emails /\ EndedFit /\ PasswordsFit
    BY <1>1 DEF AccountsInv, CallsFit, A!TypeOK, A!Call
  <2> QED  BY <2>1 DEF EndedFit, PasswordsFit
<1> QED  BY <1>1, AccountsInvariant, PTL

\* The services make one account per email.
THEOREM OneAccount == Spec => []OneAccountPerEmail
<1>1. A!OneAccountPerEmail \/ ~(part = "accounts") => OneAccountPerEmail
  BY DEF OneAccountPerEmail
<1> QED  BY <1>1, AccountsOne, AccountsPart, PTL

\* In the services a changed password is undone by nothing but a link that wrote back a
\* copy read before it, and a linked store by nothing but such a change of password.
THEOREM ChangesSurvive == Spec => []ChangeSurvives
<1>1. A!ChangeSurvives \/ ~(part = "accounts") => ChangeSurvives  BY DEF ChangeSurvives
<1> QED  BY <1>1, AccountsChange, AccountsPart, PTL

\* In the services the sessions of a user end together: no refresh goes on from an ended
\* one, and no session of an older password outlives its change, but the late ones.
THEOREM SessionsEnd == Spec => []SessionsEndTogether
<1>1. A!SessionsEndTogether \/ ~(part = "accounts") => SessionsEndTogether
  BY DEF SessionsEndTogether
<1> QED  BY <1>1, AccountsSessions, AccountsPart, PTL

-----------------------------------------------------------------------------
(* OnboardingModal: the dialog, its page and the server.                   *)

LEMMA DialogCardinality == \A X : D!Cardinality(X) = Cardinality(X)
  BY DEF D!Cardinality, Cardinality

\* The step on the page shows what the dialog holds, unless it was left; a store that
\* was created is at the server.
PageFits ==
    /\ shown = step => props = [domain |-> domain, isLoading |-> isLoading]
    /\ \A i \in DOMAIN launches : launches[i].pc = "created" => launches[i].domain \in reserved

\* A quick-start under way is the only one: the dialog waits at its third step, loading,
\* with the domain that was sent.
Waiting == \A i \in D!Awaited :
    /\ step = 3 /\ shown \in {0, 3} /\ isLoading /\ launches[i].domain = domain
    /\ \A j \in D!Awaited : j = i

\* At the last step nothing is under way, and the field of the domain is gone.
Arrived == step = 4 =>
    /\ D!Awaited = {} /\ shown \in {0, 3, 4}
    /\ result = domain /\ result \in reserved

DialogInv == D!TypeOK /\ PageFits /\ (~raced => Waiting /\ Arrived)

LEMMA RenderedFits ==
    ASSUME DialogInv, D!Rendered, domain' \in D!Fields, isLoading' \in BOOLEAN
    PROVE  /\ props' \in D!Props
           /\ shown' = step' => props' = [domain |-> domain', isLoading |-> isLoading']
<1>1. props \in D!Props  BY DEF DialogInv, D!TypeOK
<1> QED  BY <1>1 DEF D!Rendered, D!Props

\* A step that sends and answers nothing.
LEMMA PageStep ==
    ASSUME DialogInv, UNCHANGED <<launches, reserved>>,
           step' \in D!Steps, shown' \in D!Steps \cup {0}, domain' \in D!Fields,
           result' = result, isLoading' = isLoading, isTaken' \in BOOLEAN,
           checks' \in 0 .. MaxChecks, raced' \in BOOLEAN, raced => raced', props' \in D!Props,
           shown' = step' => props' = [domain |-> domain', isLoading |-> isLoading'],
           ~raced' /\ D!Awaited # {} => step' = step /\ shown' \in {0, 3} /\ domain' = domain,
           ~raced' /\ step' = 4 => step = 4 /\ shown' \in {0, 3, 4} /\ domain' = domain
    PROVE  DialogInv'
<1>1. (D!TypeOK)'  BY DEF DialogInv, D!TypeOK
<1>2. PageFits'  BY DEF DialogInv, PageFits
<1>3. D!Awaited' = D!Awaited  BY DEF D!Awaited
<1>4. ASSUME ~raced' PROVE Waiting' /\ Arrived'
  <2>1. Waiting /\ Arrived  BY <1>4 DEF DialogInv
  <2>2. Waiting'  BY <1>3, <1>4, <2>1 DEF Waiting
  <2>3. Arrived'  BY <1>3, <1>4, <2>1 DEF Arrived
  <2> QED  BY <2>2, <2>3
<1> QED  BY <1>1, <1>2, <1>4 DEF DialogInv

LEMMA DialogTypes ==
    ASSUME DialogInv
    PROVE  /\ step \in 1 .. 4 /\ shown \in 0 .. 4 /\ props \in D!Props
           /\ domain \in D!Fields /\ result \in D!Fields /\ isLoading \in BOOLEAN
           /\ isTaken \in BOOLEAN /\ checks \in 0 .. MaxChecks /\ raced \in BOOLEAN
           /\ launches \in Seq(D!Launch) /\ reserved \subseteq Domains
           /\ ~raced => Waiting /\ Arrived
           /\ shown = step => props = [domain |-> domain, isLoading |-> isLoading]
  BY DEF DialogInv, D!TypeOK, D!Steps, PageFits

\* Opening, closing, the end of an animation, typing and the answers of the checks.
LEMMA OpenStep == ASSUME DialogInv, D!Open \/ D!Close \/ D!ExitComplete PROVE DialogInv'
<1>1. /\ UNCHANGED <<launches, reserved, step, domain, result, isLoading, raced>>
      /\ isTaken' \in BOOLEAN /\ checks' \in 0 .. MaxChecks
      /\ shown' = 0 \/ shown' = step
  <2>1. 0 \in 0 .. MaxChecks  BY DialogAssumption
  <2>2. isTaken \in BOOLEAN /\ checks \in 0 .. MaxChecks  BY DialogTypes
  <2>3. CASE D!Close
    BY <2>2, <2>3 DEF D!Close, D!form, D!check, D!server
  <2>4. CASE D!Open \/ D!ExitComplete
    BY <2>1, <2>4 DEF D!Open, D!ExitComplete, D!form, D!server
  <2> QED  BY <2>3, <2>4
<1>2. /\ props' \in D!Props
      /\ shown' = step' => props' = [domain |-> domain', isLoading |-> isLoading']
  BY <1>1, DialogTypes, RenderedFits DEF D!Open, D!Close, D!ExitComplete
<1>3. ~raced /\ D!Awaited # {} => step = 3  BY DialogTypes DEF Waiting
<1>4. step \in D!Steps  BY DialogTypes DEF D!Steps
<1> QED  BY <1>1, <1>2, <1>3, <1>4, DialogTypes, PageStep

LEMMA TypeStep == ASSUME DialogInv, NEW d \in D!Fields, D!Type(d) PROVE DialogInv'
<1>1. /\ UNCHANGED <<launches, reserved, step, shown, result, isLoading, isTaken, raced>>
      /\ shown = 2 /\ domain' = d /\ D!Rendered /\ checks' \in 0 .. MaxChecks
  BY DialogTypes, DialogAssumption DEF D!Type, D!server
<1>2. /\ props' \in D!Props
      /\ shown' = step' => props' = [domain |-> domain', isLoading |-> isLoading']
  BY <1>1, DialogTypes, RenderedFits
<1>3. ~raced => D!Awaited = {} /\ step # 4  BY <1>1, DialogTypes DEF Waiting, Arrived
<1>4. step \in D!Steps /\ shown \in D!Steps  BY <1>1, DialogTypes DEF D!Steps
<1> QED  BY <1>1, <1>2, <1>3, <1>4, DialogTypes, PageStep

LEMMA CheckAnswerStep == ASSUME DialogInv, D!CheckAnswer PROVE DialogInv'
<1>1. /\ UNCHANGED <<launches, reserved, step, shown, props, domain, result, isLoading, raced>>
      /\ isTaken' \in BOOLEAN /\ checks' \in 0 .. MaxChecks
  BY DialogTypes, DialogAssumption DEF D!CheckAnswer, D!server, D!form
<1>2. step \in D!Steps /\ shown \in D!Steps \cup {0}  BY DialogTypes DEF D!Steps
<1>3. ~raced /\ D!Awaited # {} => shown \in {0, 3}  BY DialogTypes DEF Waiting
<1>4. ~raced /\ step = 4 => shown \in {0, 3, 4}  BY DialogTypes DEF Arrived
<1> QED  BY <1>1, <1>2, <1>3, <1>4, DialogTypes, PageStep

\* A button of the step the dialog is at moves it; one of a step already left is raced.
LEMMA MoveStep == ASSUME DialogInv, D!Continue \/ D!Back PROVE DialogInv'
<1>1. /\ UNCHANGED <<launches, reserved, shown, domain, result, isLoading, isTaken, checks>>
      /\ raced' = (raced \/ shown # step) /\ D!Rendered
      /\ step' = D!NextStep(step) \/ step' = D!PrevStep(step)
  BY DEF D!Continue, D!Back, D!form, D!check, D!server, D!Raced
<1>2. step' \in D!Steps /\ shown \in D!Steps \cup {0}
  BY <1>1, DialogTypes DEF D!Steps, D!NextStep, D!PrevStep
<1>3. /\ props' \in D!Props
      /\ shown' = step' => props' = [domain |-> domain', isLoading |-> isLoading']
  BY <1>1, DialogTypes, RenderedFits
<1>4. ASSUME ~raced' PROVE D!Awaited = {} /\ step' # 4
  <2>1. shown = step /\ ~raced /\ props.isLoading = isLoading
    <3>1. ~raced /\ shown = step  BY <1>1, <1>4, Zenon
    <3> QED  BY <3>1, DialogTypes
  <2>2. shown \in {1, 2} \/ (shown = 3 /\ ~isLoading /\ step' = D!PrevStep(step))
    BY <2>1 DEF D!Continue, D!Back, D!MayContinue
  <2>3. D!Awaited = {}  BY <2>1, <2>2, DialogTypes DEF Waiting
  <2>4. step' # 4  BY <1>1, <2>1, <2>2, DialogTypes DEF D!NextStep, D!PrevStep
  <2> QED  BY <2>3, <2>4
<1> QED  BY <1>1, <1>2, <1>3, <1>4, DialogTypes, PageStep

\* The button of the third step sends the domain it shows, once.
LEMMA LaunchStep == ASSUME DialogInv, D!LaunchStore PROVE DialogInv'
<1> DEFINE q == [domain |-> props.domain, pc |-> "sent"]
           n == Len(launches) + 1
<1>1. /\ shown = 3 /\ ~props.isLoading /\ isLoading' = TRUE
      /\ launches' = Append(launches, q)
      /\ raced' = (raced \/ shown # step) /\ D!Rendered
      /\ UNCHANGED <<step, shown, domain, result, isTaken, checks, reserved>>
  BY DEF D!LaunchStore, D!MayLaunch, D!Raced, D!check
<1>2. q \in D!Launch /\ q.pc = "sent" /\ q.domain = props.domain
  BY DialogTypes DEF D!Launch, D!Props
<1> HIDE DEF q
<1>3. /\ launches' \in Seq(D!Launch) /\ DOMAIN launches' = DOMAIN launches \cup {n}
      /\ n \notin DOMAIN launches /\ launches'[n] = q
      /\ \A i \in DOMAIN launches : launches'[i] = launches[i]
  BY <1>1, <1>2, DialogTypes
<1> HIDE DEF n
<1>4. /\ props' \in D!Props
      /\ shown' = step' => props' = [domain |-> domain', isLoading |-> isLoading']
  BY <1>1, DialogTypes, RenderedFits
<1>5. (D!TypeOK)'
  BY <1>1, <1>3, <1>4, DialogTypes DEF DialogInv, D!TypeOK
<1>6. PageFits'  BY <1>1, <1>2, <1>3, <1>4 DEF DialogInv, PageFits
<1>7. ASSUME ~raced' PROVE Waiting' /\ Arrived'
  <2>1. ~raced /\ step = 3 /\ ~isLoading /\ props.domain = domain
    <3>1. ~raced /\ shown = step /\ shown = 3 /\ ~props.isLoading  BY <1>1, <1>7, Zenon
    <3>2. props = [domain |-> domain, isLoading |-> isLoading]  BY <3>1, DialogTypes
    <3> QED  BY <3>1, <3>2
  <2>2. D!Awaited = {}  BY <2>1, DialogTypes DEF Waiting
  <2>3. D!Awaited' = {n}  BY <1>2, <1>3, <2>2 DEF D!Awaited
  <2> QED  BY <1>1, <1>2, <1>3, <2>1, <2>3 DEF Waiting, Arrived
<1> QED  BY <1>5, <1>6, <1>7 DEF DialogInv

\* The server answers for one quick-start.
LEMMA LaunchUpdate ==
    ASSUME DialogInv, NEW i \in DOMAIN launches, NEW l \in {"created", "refused", "answered"},
           launches' = [launches EXCEPT ![i].pc = l]
    PROVE  /\ launches' \in Seq(D!Launch) /\ DOMAIN launches' = DOMAIN launches
           /\ launches'[i].pc = l /\ launches'[i].domain = launches[i].domain
           /\ \A j \in DOMAIN launches :
                 launches'[j].domain = launches[j].domain /\ (j # i => launches'[j] = launches[j])
           /\ launches[i].domain \in D!Fields
<1>1. launches \in Seq(D!Launch) /\ launches[i] \in D!Launch  BY DialogTypes
<1>2. [launches[i] EXCEPT !.pc = l] \in D!Launch  BY <1>1 DEF D!Launch
<1>3. launches' = [launches EXCEPT ![i] = [launches[i] EXCEPT !.pc = l]]  BY <1>1
<1>4. launches' \in Seq(D!Launch) /\ DOMAIN launches' = DOMAIN launches
  BY <1>1, <1>2, <1>3
<1> QED  BY <1>1, <1>3, <1>4 DEF D!Launch

LEMMA ServeStep == ASSUME DialogInv, NEW i \in DOMAIN launches, D!Serve(i) PROVE DialogInv'
<1>1. /\ launches[i].pc = "sent"
      /\ UNCHANGED <<step, shown, props, domain, result, isLoading, isTaken, checks, raced>>
  BY DEF D!Serve, D!form, D!check
<1>2. PICK l \in {"created", "refused"} :
        /\ launches' = [launches EXCEPT ![i].pc = l]
        /\ reserved \subseteq reserved' /\ reserved' \subseteq Domains
        /\ l = "created" => launches[i].domain \in reserved'
  BY DialogTypes DEF D!Serve
<1>3. /\ launches' \in Seq(D!Launch) /\ DOMAIN launches' = DOMAIN launches
      /\ launches'[i].pc = l /\ launches'[i].domain = launches[i].domain
      /\ \A j \in DOMAIN launches :
            launches'[j].domain = launches[j].domain /\ (j # i => launches'[j] = launches[j])
  BY <1>2, LaunchUpdate
<1>4. (D!TypeOK)'  BY <1>1, <1>2, <1>3 DEF DialogInv, D!TypeOK
<1>5. PageFits'  BY <1>1, <1>2, <1>3 DEF DialogInv, PageFits
<1>6. D!Awaited' = D!Awaited  BY <1>1, <1>3 DEF D!Awaited
<1>7. ~raced => Waiting' /\ Arrived'
  BY <1>1, <1>2, <1>3, <1>6 DEF DialogInv, Waiting, Arrived, D!Awaited
<1> QED  BY <1>1, <1>4, <1>5, <1>7 DEF DialogInv

\* An answer reaches the dialog: the one it waits for.
LEMMA AnswerStep ==
    ASSUME DialogInv, NEW i \in DOMAIN launches, D!Success(i) \/ D!Failure(i)
    PROVE  DialogInv'
<1>1. /\ launches' = [launches EXCEPT ![i].pc = "answered"] /\ launches[i].pc # "answered"
      /\ isLoading' = FALSE /\ D!Rendered
      /\ UNCHANGED <<shown, domain, isTaken, checks, reserved, raced>>
      /\ \/ UNCHANGED <<step, result>>
         \/ /\ launches[i].pc = "created"
            /\ step' = D!NextStep(step) /\ result' = launches[i].domain
  BY DEF D!Success, D!Failure, D!Succeeds, D!Answered, D!check
<1>2. /\ launches' \in Seq(D!Launch) /\ DOMAIN launches' = DOMAIN launches
      /\ launches'[i].pc = "answered" /\ launches[i].domain \in D!Fields
      /\ \A j \in DOMAIN launches :
            launches'[j].domain = launches[j].domain /\ (j # i => launches'[j] = launches[j])
  BY <1>1, LaunchUpdate
<1>3. step' \in D!Steps  BY <1>1, DialogTypes DEF D!Steps, D!NextStep
<1>4. /\ props' \in D!Props
      /\ shown' = step' => props' = [domain |-> domain', isLoading |-> isLoading']
  BY <1>1, DialogTypes, RenderedFits
<1>5. (D!TypeOK)'
  BY <1>1, <1>2, <1>3, <1>4, DialogTypes DEF DialogInv, D!TypeOK
<1>6. PageFits'  BY <1>1, <1>2, <1>4 DEF DialogInv, PageFits
<1>7. ASSUME ~raced PROVE Waiting' /\ Arrived'
  <2>1. /\ i \in D!Awaited /\ step = 3 /\ shown \in {0, 3} /\ launches[i].domain = domain
        /\ \A j \in D!Awaited : j = i
    BY <1>1, <1>7, DialogTypes DEF Waiting, D!Awaited
  <2>2. D!Awaited' = {}  BY <1>2, <2>1 DEF D!Awaited
  <2>3. launches[i].pc = "created" => domain \in reserved
    BY <2>1 DEF DialogInv, PageFits
  <2> QED  BY <1>1, <2>1, <2>2, <2>3 DEF Waiting, Arrived
<1> QED  BY <1>1, <1>5, <1>6, <1>7 DEF DialogInv

LEMMA DialogStep == ASSUME DialogInv, [D!Next]_(D!vars) PROVE DialogInv'
<1>1. CASE UNCHANGED D!vars
  BY <1>1 DEF D!vars, DialogInv, D!TypeOK, PageFits, Waiting, Arrived, D!Awaited
<1> QED
  BY <1>1, OpenStep, TypeStep, CheckAnswerStep, MoveStep, LaunchStep, ServeStep, AnswerStep
     DEF D!Next

LEMMA DialogInvariant == D!Spec => []DialogInv
<1>1. ASSUME D!Init PROVE DialogInv
  <2>1. (CHOOSE d \in Domains : TRUE) \in Domains  BY DialogAssumption
  <2>2. launches = <<>> /\ reserved \subseteq Domains  BY <1>1, <2>1 DEF D!Init
  <2>3. NoDomain \in D!Fields  BY DEF D!Fields
  <2>4. D!TypeOK
    <3>1. domain \in D!Fields /\ result \in D!Fields /\ isLoading \in BOOLEAN
      BY <1>1, <2>3 DEF D!Init
    <3>2. props \in D!Props  BY <1>1, <3>1 DEF D!Init, D!Props
    <3>3. step \in D!Steps /\ shown \in D!Steps \cup {0} /\ checks \in 0 .. MaxChecks
      BY <1>1, DialogAssumption DEF D!Init, D!Steps
    <3>4. launches \in Seq(D!Launch)  BY <2>2
    <3>5. isTaken \in BOOLEAN /\ raced \in BOOLEAN  BY <1>1, Zenon DEF D!Init
    <3> QED  BY <2>2, <3>1, <3>2, <3>3, <3>4, <3>5 DEF D!TypeOK
  <2>5. PageFits /\ D!Awaited = {} /\ step = 1
    BY <1>1, <2>2 DEF D!Init, PageFits, D!Awaited
  <2> QED  BY <2>4, <2>5 DEF DialogInv, Waiting, Arrived
<1>2. DialogInv /\ [D!Next]_(D!vars) => DialogInv'  BY DialogStep
<1> QED  BY <1>1, <1>2, PTL DEF D!Spec

\* Every variable of the dialog keeps its type: it never leaves its four steps.
THEOREM DialogTypeCorrect == D!Spec => []D!TypeOK
<1>1. DialogInv => D!TypeOK  BY DEF DialogInv
<1> QED  BY <1>1, DialogInvariant, PTL

\* Closed and opened at will, with answers that come late or never: one quick-start at
\* a time, and a last step that tells the truth.
THEOREM DialogHonest == D!Spec => []D!DialogIsHonest
<1>1. ASSUME DialogInv PROVE D!DialogIsHonest
  <2> SUFFICES ASSUME ~raced
               PROVE  /\ Cardinality(D!Awaited) <= 1
                      /\ step = 4 => result = domain /\ result \in reserved
    BY DialogCardinality DEF D!DialogIsHonest
  <2>1. Waiting /\ Arrived  BY <1>1 DEF DialogInv
  <2>2. CASE D!Awaited = {}  BY <2>1, <2>2, FS_EmptySet DEF Arrived
  <2>3. CASE D!Awaited # {}
    <3>1. PICK i \in D!Awaited : TRUE  BY <2>3
    <3>2. D!Awaited = {i} /\ step = 3  BY <2>1, <3>1 DEF Waiting
    <3>3. Cardinality({i}) = 1  BY FS_Singleton
    <3> QED  BY <3>2, <3>3
  <2> QED  BY <2>2, <2>3
<1>2. DialogInv => D!DialogIsHonest  BY <1>1
<1> QED  BY <1>2, DialogInvariant, PTL

\* The dialog of the services is honest.
THEOREM HonestDialog == Spec => []DialogIsHonest
<1>1. D!DialogIsHonest \/ ~(part = "dialog") => DialogIsHonest  BY DEF DialogIsHonest
<1> QED  BY <1>1, DialogHonest, DialogPart, PTL
==============================================================================
