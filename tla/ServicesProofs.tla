--------------------------- MODULE ServicesProofs ----------------------------
(***************************************************************************)
(* Theorems about Services: a behaviour of it is one of the service it was *)
(* started as, so that what each service keeps is kept.  Then the theorems *)
(* of Startup, AlertNotifier, KeyRotation, TenantRequests, ThreatResponse  *)
(* and TenantBatch; the other services have modules of their own.          *)
(***************************************************************************)
EXTENDS Services, Sequences, FiniteSetTheorems, TLAPS

-----------------------------------------------------------------------------
(* A behaviour is one of its part, which is chosen at the start.           *)

LEMMA PartInit ==
    ASSUME Init
    PROVE  /\ part = "accounts" => A!Init
           /\ part = "snapshots" => S!Init
           /\ part = "rotation" => K!Init
           /\ part = "audit" => L!Init
           /\ part = "batch" => B!Init
           /\ part = "requests" => R!Init
           /\ part = "threats" => T!Init
           /\ part = "alerts" => N!Init
           /\ part = "startup" => P!Init
           /\ part = "dialog" => D!Init
  BY DEF Init, AccountsInit, SnapshotsInit, RotationInit, AuditInit, BatchInit,
         RequestsInit, ThreatsInit, AlertsInit, StartupInit, DialogInit

LEMMA PartStep ==
    ASSUME [Next]_vars
    PROVE  /\ part' = part
           /\ part = "accounts" => [A!Next]_(A!vars)
           /\ part = "snapshots" => [S!Next]_(S!vars)
           /\ part = "rotation" => [K!Next]_(K!vars)
           /\ part = "audit" => [L!Next]_(L!vars)
           /\ part = "batch" => [B!Next]_(B!vars)
           /\ part = "requests" => [R!Next]_(R!vars)
           /\ part = "threats" => [T!Next]_(T!vars)
           /\ part = "alerts" => [N!Next]_(N!vars)
           /\ part = "startup" => [P!Next]_(P!vars)
           /\ part = "dialog" => [D!Next]_(D!vars)
<1>1. part' = part
  BY DEF Next, vars, AccountsNext, SnapshotsNext, RotationNext, AuditNext, BatchNext,
         RequestsNext, ThreatsNext, AlertsNext, StartupNext, DialogNext
<1>2. UNCHANGED vars => /\ UNCHANGED A!vars
                          /\ UNCHANGED S!vars
                          /\ UNCHANGED K!vars
                          /\ UNCHANGED L!vars
                          /\ UNCHANGED B!vars
                          /\ UNCHANGED R!vars
                          /\ UNCHANGED T!vars
                          /\ UNCHANGED N!vars
                          /\ UNCHANGED P!vars
                          /\ UNCHANGED D!vars
  BY DEF vars, accountsVars, snapshotsVars, rotationVars, auditVars, batchVars,
         requestsVars, threatsVars, alertsVars, startupVars, dialogVars,
         A!vars, A!history, S!vars, K!vars, L!vars, B!vars, R!vars, T!vars, N!vars, P!vars, D!vars
<1> QED
  BY <1>1, <1>2 DEF Next, AccountsNext, SnapshotsNext, RotationNext, AuditNext, BatchNext,
             RequestsNext, ThreatsNext, AlertsNext, StartupNext, DialogNext

LEMMA AccountsPart == Spec => A!Spec \/ []~(part = "accounts")
<1>1. Init /\ part = "accounts" => A!Init  BY PartInit
<1>2. part = "accounts" /\ [Next]_vars => (part = "accounts")' /\ [A!Next]_(A!vars)  BY PartStep
<1>3. ~(part = "accounts") /\ [Next]_vars => ~(part = "accounts")'  BY PartStep
<1> QED  BY <1>1, <1>2, <1>3, PTL DEF Spec, A!Spec

LEMMA SnapshotsPart == Spec => S!Spec \/ []~(part = "snapshots")
<1>1. Init /\ part = "snapshots" => S!Init  BY PartInit
<1>2. part = "snapshots" /\ [Next]_vars => (part = "snapshots")' /\ [S!Next]_(S!vars)  BY PartStep
<1>3. ~(part = "snapshots") /\ [Next]_vars => ~(part = "snapshots")'  BY PartStep
<1> QED  BY <1>1, <1>2, <1>3, PTL DEF Spec, S!Spec

LEMMA RotationPart == Spec => K!Spec \/ []~(part = "rotation")
<1>1. Init /\ part = "rotation" => K!Init  BY PartInit
<1>2. part = "rotation" /\ [Next]_vars => (part = "rotation")' /\ [K!Next]_(K!vars)  BY PartStep
<1>3. ~(part = "rotation") /\ [Next]_vars => ~(part = "rotation")'  BY PartStep
<1> QED  BY <1>1, <1>2, <1>3, PTL DEF Spec, K!Spec

LEMMA AuditPart == Spec => L!Spec \/ []~(part = "audit")
<1>1. Init /\ part = "audit" => L!Init  BY PartInit
<1>2. part = "audit" /\ [Next]_vars => (part = "audit")' /\ [L!Next]_(L!vars)  BY PartStep
<1>3. ~(part = "audit") /\ [Next]_vars => ~(part = "audit")'  BY PartStep
<1> QED  BY <1>1, <1>2, <1>3, PTL DEF Spec, L!Spec

LEMMA BatchPart == Spec => B!Spec \/ []~(part = "batch")
<1>1. Init /\ part = "batch" => B!Init  BY PartInit
<1>2. part = "batch" /\ [Next]_vars => (part = "batch")' /\ [B!Next]_(B!vars)  BY PartStep
<1>3. ~(part = "batch") /\ [Next]_vars => ~(part = "batch")'  BY PartStep
<1> QED  BY <1>1, <1>2, <1>3, PTL DEF Spec, B!Spec

LEMMA RequestsPart == Spec => R!Spec \/ []~(part = "requests")
<1>1. Init /\ part = "requests" => R!Init  BY PartInit
<1>2. part = "requests" /\ [Next]_vars => (part = "requests")' /\ [R!Next]_(R!vars)  BY PartStep
<1>3. ~(part = "requests") /\ [Next]_vars => ~(part = "requests")'  BY PartStep
<1> QED  BY <1>1, <1>2, <1>3, PTL DEF Spec, R!Spec

LEMMA ThreatsPart == Spec => T!Spec \/ []~(part = "threats")
<1>1. Init /\ part = "threats" => T!Init  BY PartInit
<1>2. part = "threats" /\ [Next]_vars => (part = "threats")' /\ [T!Next]_(T!vars)  BY PartStep
<1>3. ~(part = "threats") /\ [Next]_vars => ~(part = "threats")'  BY PartStep
<1> QED  BY <1>1, <1>2, <1>3, PTL DEF Spec, T!Spec

LEMMA AlertsPart == Spec => N!Spec \/ []~(part = "alerts")
<1>1. Init /\ part = "alerts" => N!Init  BY PartInit
<1>2. part = "alerts" /\ [Next]_vars => (part = "alerts")' /\ [N!Next]_(N!vars)  BY PartStep
<1>3. ~(part = "alerts") /\ [Next]_vars => ~(part = "alerts")'  BY PartStep
<1> QED  BY <1>1, <1>2, <1>3, PTL DEF Spec, N!Spec

LEMMA StartupPart == Spec => P!Spec \/ []~(part = "startup")
<1>1. Init /\ part = "startup" => P!Init  BY PartInit
<1>2. part = "startup" /\ [Next]_vars => (part = "startup")' /\ [P!Next]_(P!vars)  BY PartStep
<1>3. ~(part = "startup") /\ [Next]_vars => ~(part = "startup")'  BY PartStep
<1> QED  BY <1>1, <1>2, <1>3, PTL DEF Spec, P!Spec

LEMMA DialogPart == Spec => D!Spec \/ []~(part = "dialog")
<1>1. Init /\ part = "dialog" => D!Init  BY PartInit
<1>2. part = "dialog" /\ [Next]_vars => (part = "dialog")' /\ [D!Next]_(D!vars)  BY PartStep
<1>3. ~(part = "dialog") /\ [Next]_vars => ~(part = "dialog")'  BY PartStep
<1> QED  BY <1>1, <1>2, <1>3, PTL DEF Spec, D!Spec

-----------------------------------------------------------------------------
(* Startup.                                                                *)

\* What the steps of bootstrap have established when the next one begins: nothing has
\* changed the environment before the server is up, the secrets never change, and
\* past validateEnvironment the two keys are long in production.
Checked ==
    /\ boot \notin {"up", "exited"} => env = born
    /\ \A n \in P!Secrets : env[n] = born[n]
    /\ boot \notin {"config", "validate", "exited"} /\ born["NODE_ENV"] = "production"
          => env["ENCRYPTION_MASTER_KEY"] = "long" /\ env["JWT_SECRET"] = "long"

LEMMA StartupTypeInit == ASSUME P!Init PROVE P!TypeOK
  BY DEF P!Init, P!TypeOK, P!Env, P!Names, P!Secrets, P!Values, P!Phases

LEMMA StartupTypeStep == ASSUME P!TypeOK, [P!Next]_(P!vars) PROVE (P!TypeOK)'
<1> USE DEF P!TypeOK
<1>1. ASSUME NEW from \in P!Phases, NEW to \in P!Phases, NEW b, P!Step(from, b, to) PROVE (P!TypeOK)'
  BY <1>1 DEF P!Step, P!Env, P!Phases
<1>2. ASSUME NEW n \in P!Names, NEW v \in P!Values[n], P!ValidateDynamicUpdate(n, v) PROVE (P!TypeOK)'
  BY <1>2 DEF P!ValidateDynamicUpdate, P!Env
<1>3. CASE P!NewApexConfig \/ P!ValidateEnvironment \/ P!Create \/ P!ModuleInit \/ P!Listen
  BY <1>1, <1>3 DEF P!NewApexConfig, P!ValidateEnvironment, P!Create, P!ModuleInit, P!Listen, P!Phases
<1>4. CASE P!Connect \/ P!UncaughtException
  BY <1>1, <1>4 DEF P!Connect, P!UncaughtException, P!Phases
<1>5. CASE UNCHANGED P!vars
  BY <1>5 DEF P!vars, P!Env
<1> QED  BY <1>2, <1>3, <1>4, <1>5 DEF P!Next

\* Every variable of the start keeps its type.
THEOREM StartupTypeCorrect == P!Spec => []P!TypeOK
<1>1. P!Init => P!TypeOK  BY StartupTypeInit
<1>2. P!TypeOK /\ [P!Next]_(P!vars) => (P!TypeOK)'  BY StartupTypeStep
<1> QED  BY <1>1, <1>2, PTL DEF P!Spec

\* validateEnvironment lets a production server through with two long keys only: the
\* strength of the keys is skipped when one is absent, which the first check refuses.
LEMMA LongKeys ==
    ASSUME P!TypeOK, P!EnvironmentIsValid, P!IsProduction
    PROVE  env["ENCRYPTION_MASTER_KEY"] = "long" /\ env["JWT_SECRET"] = "long"
  BY DEF P!EnvironmentIsValid, P!ValidateCriticalVariables, P!ValidateSecretStrength, P!Truthy, P!Secrets

LEMMA CheckedStep == ASSUME P!TypeOK, Checked, [P!Next]_(P!vars) PROVE Checked'
<1> USE DEF Checked
<1>1. ASSUME NEW b, NEW from, NEW to, P!Step(from, b, to), from # "exited", from # "up",
             from \in {"config", "validate"} => to = "validate"
      PROVE  Checked'
  BY <1>1 DEF P!Step
<1>2. CASE P!NewApexConfig \/ P!Create \/ P!Connect \/ P!ModuleInit \/ P!Listen
  BY <1>1, <1>2 DEF P!NewApexConfig, P!Create, P!Connect, P!ModuleInit, P!Listen
<1>3. CASE P!ValidateEnvironment
  <2>1. boot = "validate" /\ UNCHANGED <<env, born>> /\ env = born
    BY <1>3 DEF P!ValidateEnvironment, P!Step
  <2>2. boot' = IF P!EnvironmentIsValid THEN "create" ELSE "exited"
    BY <1>3 DEF P!ValidateEnvironment, P!Step
  <2>3. boot' = "create" /\ born["NODE_ENV"] = "production"
           => env["ENCRYPTION_MASTER_KEY"] = "long" /\ env["JWT_SECRET"] = "long"
    BY <2>1, <2>2, LongKeys DEF P!IsProduction
  <2> QED  BY <2>1, <2>2, <2>3
<1>4. CASE P!UncaughtException
  BY <1>4 DEF P!UncaughtException, P!Step
<1>5. ASSUME NEW n \in P!Names, NEW v \in P!Values[n], P!ValidateDynamicUpdate(n, v) PROVE Checked'
  BY <1>5 DEF P!ValidateDynamicUpdate, P!Updatable, P!Secrets, P!Names, P!TypeOK, P!Env
<1>6. CASE UNCHANGED P!vars
  BY <1>6 DEF P!vars
<1> QED  BY <1>2, <1>3, <1>4, <1>5, <1>6 DEF P!Next

\* A server started in production runs with the two long keys it was started with,
\* whatever validateDynamicUpdate changes while it runs.
THEOREM StartupSecrets == P!Spec => []P!ProductionHasItsSecrets
<1>1. P!Init => Checked  BY DEF P!Init, Checked
<1>2. P!TypeOK /\ Checked /\ [P!Next]_(P!vars) => Checked'  BY CheckedStep
<1>3. Checked => P!ProductionHasItsSecrets  BY DEF Checked, P!ProductionHasItsSecrets
<1> QED  BY <1>1, <1>2, <1>3, StartupTypeCorrect, PTL DEF P!Spec

\* A production server among the services listens with the keys it was started with.
THEOREM ProductionSecrets == Spec => []ProductionHasItsSecrets
<1>1. P!ProductionHasItsSecrets \/ ~(part = "startup") => ProductionHasItsSecrets  BY DEF ProductionHasItsSecrets
<1> QED  BY <1>1, StartupSecrets, StartupPart, PTL

-----------------------------------------------------------------------------
(* AlertNotifier.                                                          *)

LEMMA AlertsTypeStep == ASSUME N!TypeOK, [N!Next]_(N!vars) PROVE (N!TypeOK)'
<1> USE DEF N!TypeOK, N!Call, N!Progress
<1>1. ASSUME NEW a \in Alerts, N!SendMultiChannelAlert(a) PROVE (N!TypeOK)'
  BY <1>1 DEF N!SendMultiChannelAlert
<1>2. ASSUME NEW a \in Alerts, N!PartOfSms(a) PROVE (N!TypeOK)'
  BY <1>2 DEF N!PartOfSms
<1>3. ASSUME NEW a \in Alerts, N!Return(a) PROVE (N!TypeOK)'
  BY <1>3 DEF N!Return
<1>4. ASSUME NEW a \in Alerts, NEW c \in N!Channels, N!Delivered(a, c) PROVE (N!TypeOK)'
  BY <1>4 DEF N!Delivered
<1>5. ASSUME NEW a \in Alerts, NEW c \in N!Channels, N!Fails(a, c) PROVE (N!TypeOK)'
  BY <1>5 DEF N!Fails, N!Reject
<1>6. CASE UNCHANGED N!vars
  BY <1>6 DEF N!vars
<1> QED  BY <1>1, <1>2, <1>3, <1>4, <1>5, <1>6 DEF N!Next

\* Every variable of the notifier keeps its type.
THEOREM AlertsTypeCorrect == N!Spec => []N!TypeOK
<1>1. N!Init => N!TypeOK  BY DEF N!Init, N!TypeOK, N!Call, N!Progress, N!Severities, N!Channels
<1>2. N!TypeOK /\ [N!Next]_(N!vars) => (N!TypeOK)'  BY AlertsTypeStep
<1> QED  BY <1>1, <1>2, PTL DEF N!Spec

\* As long as Promise.all has not rejected, every channel that is due is sending or has
\* delivered; a channel that fails makes it reject.
Unrejected == \A a \in Alerts : a \notin failures =>
    /\ alert[a].pc = "sending" =>
          \A c \in N!Due(alert[a].severity) : sending[a][c] \in {"sending", "partly", "delivered"}
    /\ alert[a].pc = "returned" =>
          \A c \in N!Due(alert[a].severity) : sending[a][c] = "delivered"
    /\ alert[a].pc = "idle" => \A c \in N!Channels : sending[a][c] = "unused"

LEMMA UnrejectedStep == ASSUME N!TypeOK, Unrejected, [N!Next]_(N!vars) PROVE Unrejected'
<1> USE DEF N!TypeOK, N!Call
<1>0. \A s : N!Due(s) \subseteq N!Channels  BY DEF N!Due
<1>1. ASSUME NEW a \in Alerts, N!SendMultiChannelAlert(a) PROVE Unrejected'
  BY <1>1, <1>0 DEF N!SendMultiChannelAlert, Unrejected, N!Due
<1>2. ASSUME NEW a \in Alerts, N!PartOfSms(a) PROVE Unrejected'
  BY <1>2, <1>0 DEF N!PartOfSms, Unrejected, N!Due, N!Channels
<1>3. ASSUME NEW a \in Alerts, N!Return(a) PROVE Unrejected'
  BY <1>3, <1>0 DEF N!Return, Unrejected, N!Due
<1>4. ASSUME NEW a \in Alerts, NEW c \in N!Channels, N!Delivered(a, c) PROVE Unrejected'
  BY <1>4, <1>0 DEF N!Delivered, Unrejected, N!Due
<1>5. ASSUME NEW a \in Alerts, NEW c \in N!Channels, N!Fails(a, c) PROVE Unrejected'
  BY <1>5, <1>0 DEF N!Fails, N!Reject, Unrejected, N!Due
<1>6. CASE UNCHANGED N!vars
  BY <1>6 DEF N!vars, Unrejected, N!Due
<1> QED  BY <1>1, <1>2, <1>3, <1>4, <1>5, <1>6 DEF N!Next

\* Whatever the order of the channels, an alert that returned without a recorded
\* failure reached every enabled channel its severity calls for.
THEOREM AlertFailures == N!Spec => []N!NoFailureIsSilent
<1>1. N!Init => Unrejected  BY DEF N!Init, Unrejected
<1>2. N!TypeOK /\ Unrejected /\ [N!Next]_(N!vars) => Unrejected'  BY UnrejectedStep
<1>3. Unrejected => N!NoFailureIsSilent  BY DEF Unrejected, N!NoFailureIsSilent
<1> QED  BY <1>1, <1>2, <1>3, AlertsTypeCorrect, PTL DEF N!Spec

\* No alert of the services fails silently.
THEOREM FailuresAreRecorded == Spec => []NoFailureIsSilent
<1>1. N!NoFailureIsSilent \/ ~(part = "alerts") => NoFailureIsSilent  BY DEF NoFailureIsSilent
<1> QED  BY <1>1, AlertFailures, AlertsPart, PTL

-----------------------------------------------------------------------------
(* KeyRotation.                                                            *)

LEMMA RotationTypeInit == ASSUME K!Init PROVE K!TypeOK
<1> USE RotationAssumption DEF K!Init
<1>1. schedule \in [K!Types -> Nat] /\ firsts \in [K!Types -> Nat]  OBVIOUS
<1>2. intervals \subseteq K!Types \X Nat  BY <1>1
<1>3. rotation \in [Calls -> K!Run]  BY DEF K!Run, K!NoRun
<1> QED  BY <1>1, <1>2, <1>3 DEF K!TypeOK

LEMMA InitializeType ==
    ASSUME K!TypeOK, K!InitializeKeyRotation
    PROVE  /\ schedule' \in [K!Types -> Nat] /\ firsts' \in [K!Types -> Nat]
           /\ intervals' \subseteq K!Types \X Nat /\ nextId' \in Nat
  BY DEF K!TypeOK, K!InitializeKeyRotation, K!Cleared, K!Types

LEMMA StopType ==
    ASSUME K!TypeOK, K!StopAllScheduledRotations
    PROVE  /\ schedule' \in [K!Types -> Nat] /\ firsts' \in [K!Types -> Nat]
           /\ intervals' \subseteq K!Types \X Nat /\ nextId' \in Nat
  BY DEF K!TypeOK, K!StopAllScheduledRotations, K!Cleared

LEMMA StartType ==
    ASSUME K!TypeOK, NEW c \in Calls,
           NEW kind \in {"tenants", "system", "manual", "emergency"}, K!Start(c, kind)
    PROVE  rotation' \in [Calls -> K!Run] /\ destroyed' \in BOOLEAN
<1>1. K!Keys(kind) \in Nat  BY RotationAssumption DEF K!Keys
<1> QED  BY <1>1 DEF K!Start, K!TypeOK, K!Run

LEMMA RunType ==
    ASSUME NEW q \in K!Run, NEW ok \in {q.ok, FALSE}, q.left > 0
    PROVE  [q EXCEPT !.left = @ - 1, !.ok = ok] \in K!Run
<1>1. ok \in BOOLEAN  BY DEF K!Run
<1>2. q.left - 1 \in Nat  BY DEF K!Run
<1> QED  BY <1>1, <1>2 DEF K!Run

LEMMA RotationTypeStep == ASSUME K!TypeOK, [K!Next]_(K!vars) PROVE (K!TypeOK)'
<1>1. ASSUME NEW c \in Calls, K!Tick(c) PROVE (K!TypeOK)'
  <2>1. PICK i \in intervals : K!Start(c, i[1])  BY <1>1 DEF K!Tick
  <2>2. i[1] \in {"tenants", "system"}  BY DEF K!TypeOK, K!Types
  <2> QED  BY <1>1, <2>1, <2>2, StartType DEF K!Tick, K!TypeOK
<1>2. ASSUME NEW c \in Calls, K!FirstRun(c) PROVE (K!TypeOK)'
  <2>1. PICK t \in K!Types : /\ firsts[t] > 0 /\ firsts' = [firsts EXCEPT ![t] = @ - 1]
                           /\ K!Start(c, t) /\ UNCHANGED <<schedule, intervals, nextId>>
    BY <1>2 DEF K!FirstRun
  <2>2. firsts' \in [K!Types -> Nat]  BY <2>1 DEF K!TypeOK
  <2>3. rotation' \in [Calls -> K!Run] /\ destroyed' \in BOOLEAN
    BY <2>1, StartType DEF K!Types
  <2> QED  BY <2>1, <2>2, <2>3 DEF K!TypeOK
<1>3. ASSUME NEW c \in Calls, K!Manual(c) PROVE (K!TypeOK)'
  BY <1>3, StartType DEF K!Manual, K!TypeOK
<1>4. ASSUME NEW c \in Calls, K!Emergency(c) PROVE (K!TypeOK)'
  BY <1>4, StartType, StopType DEF K!Emergency, K!TypeOK
<1>5. ASSUME NEW c \in Calls, K!Rotated(c) PROVE (K!TypeOK)'
  <2>1. PICK ok \in {rotation[c].ok, FALSE} :
          rotation' = [rotation EXCEPT ![c].left = @ - 1, ![c].ok = ok]
    BY <1>5 DEF K!Rotated
  <2>2. rotation[c] \in K!Run /\ rotation[c].left > 0  BY <1>5 DEF K!Rotated, K!TypeOK
  <2>3. rotation' \in [Calls -> K!Run]  BY <2>1, <2>2, RunType DEF K!TypeOK
  <2> QED  BY <1>5, <2>3 DEF K!Rotated, K!TypeOK
<1>6. ASSUME NEW c \in Calls, K!End(c) PROVE (K!TypeOK)'
  <2>1. rotation' \in [Calls -> K!Run] /\ destroyed' \in BOOLEAN
    BY <1>6 DEF K!End, K!Over, K!TypeOK, K!Run
  <2>2. K!InitializeKeyRotation \/ UNCHANGED <<schedule, intervals, firsts, nextId>>
    BY <1>6 DEF K!End
  <2> QED  BY <2>1, <2>2, InitializeType DEF K!TypeOK
<1>7. CASE K!ModuleDestroy
  BY <1>7, StopType DEF K!ModuleDestroy, K!TypeOK
<1>8. CASE UNCHANGED K!vars
  BY <1>8 DEF K!vars, K!TypeOK
<1> QED  BY <1>1, <1>2, <1>3, <1>4, <1>5, <1>6, <1>7, <1>8 DEF K!Next

\* Every variable of the rotations keeps its type.
THEOREM RotationTypeCorrect == K!Spec => []K!TypeOK
<1>1. K!Init => K!TypeOK  BY RotationTypeInit
<1>2. K!TypeOK /\ [K!Next]_(K!vars) => (K!TypeOK)'  BY RotationTypeStep
<1> QED  BY <1>1, <1>2, PTL DEF K!Spec

\* When the map knows every interval, clearing what it knows clears them all.
LEMMA NothingLeft == ASSUME K!TypeOK, K!IntervalsAreKnown PROVE K!Cleared = {}
  BY DEF K!Cleared, K!IntervalsAreKnown

LEMMA KnownStep == ASSUME K!TypeOK, K!IntervalsAreKnown, [K!Next]_(K!vars) PROVE (K!IntervalsAreKnown)'
<1>1. CASE K!StopAllScheduledRotations
  BY <1>1, NothingLeft DEF K!StopAllScheduledRotations, K!IntervalsAreKnown
<1>2. CASE K!InitializeKeyRotation
  BY <1>2, NothingLeft DEF K!InitializeKeyRotation, K!IntervalsAreKnown
<1>3. CASE UNCHANGED <<schedule, intervals>>
  BY <1>3 DEF K!IntervalsAreKnown
<1>4. ASSUME NEW c \in Calls, K!Tick(c) \/ K!FirstRun(c) \/ K!Manual(c) \/ K!Rotated(c)
      PROVE  UNCHANGED <<schedule, intervals>>
  BY <1>4 DEF K!Tick, K!FirstRun, K!Manual, K!Rotated
<1>5. ASSUME NEW c \in Calls, K!Emergency(c) PROVE K!StopAllScheduledRotations
  BY <1>5 DEF K!Emergency
<1>6. ASSUME NEW c \in Calls, K!End(c)
      PROVE  K!InitializeKeyRotation \/ UNCHANGED <<schedule, intervals>>
  BY <1>6 DEF K!End
<1> QED  BY <1>1, <1>2, <1>3, <1>4, <1>5, <1>6 DEF K!Next, K!ModuleDestroy, K!vars

\* A live interval is the one the map holds, so the next emergency or a shutdown can
\* stop it, however emergencies and rotations overlap.
THEOREM RotationIntervals == K!Spec => []K!IntervalsAreKnown
<1>1. K!Init => K!IntervalsAreKnown  BY DEF K!Init, K!IntervalsAreKnown
<1>2. K!TypeOK /\ K!IntervalsAreKnown /\ [K!Next]_(K!vars) => (K!IntervalsAreKnown)'  BY KnownStep
<1> QED  BY <1>1, <1>2, RotationTypeCorrect, PTL DEF K!Spec

\* The ids that are given out are no 0, which stands for a type without a schedule.
StaysOn == nextId > 0 /\ K!RotationStaysOn

LEMMA StaysOnStep == ASSUME K!TypeOK, StaysOn, [K!Next]_(K!vars) PROVE StaysOn'
<1> USE DEF StaysOn, K!TypeOK
<1>1. ASSUME UNCHANGED <<schedule, intervals, destroyed, nextId>>, K!Emergencies \subseteq (K!Emergencies)'
      PROVE  StaysOn'
  BY <1>1 DEF K!RotationStaysOn
<1>2. ASSUME NEW c \in Calls, K!Tick(c) \/ K!FirstRun(c) \/ K!Manual(c)
      PROVE  UNCHANGED <<schedule, intervals, destroyed, nextId>> /\ K!Emergencies \subseteq (K!Emergencies)'
  BY <1>2 DEF K!Tick, K!FirstRun, K!Manual, K!Start, K!Emergencies, K!Run
<1>3. ASSUME NEW c \in Calls, K!Rotated(c)
      PROVE  UNCHANGED <<schedule, intervals, destroyed, nextId>> /\ K!Emergencies \subseteq (K!Emergencies)'
  BY <1>3 DEF K!Rotated, K!Emergencies, K!Run
<1>4. ASSUME NEW c \in Calls, K!Emergency(c) PROVE StaysOn'
  <2>1. c \in (K!Emergencies)'  BY <1>4 DEF K!Emergency, K!Start, K!Emergencies
  <2> QED  BY <1>4, <2>1 DEF K!Emergency, K!StopAllScheduledRotations, K!RotationStaysOn
<1>5. ASSUME NEW c \in Calls, K!End(c) PROVE StaysOn'
  <2>1. CASE rotation[c].kind = "emergency" /\ AutoRotation
    <3>1. K!InitializeKeyRotation  BY <1>5, <2>1 DEF K!End
    <3>2. /\ schedule' = [tenants |-> nextId, system |-> nextId + 1] /\ nextId' = nextId + 2
          /\ intervals' = K!Cleared \cup {<<"tenants", nextId>>, <<"system", nextId + 1>>}
      BY <3>1, <2>1 DEF K!InitializeKeyRotation
    <3> QED  BY <3>2 DEF K!RotationStaysOn, K!Types
  <2>2. CASE ~AutoRotation
    BY <1>5, <2>2 DEF K!End, K!InitializeKeyRotation, K!RotationStaysOn
  <2>3. CASE rotation[c].kind # "emergency"
    BY <1>1, <1>5, <2>3 DEF K!End, K!Emergencies, K!Over
  <2> QED  BY <2>1, <2>2, <2>3
<1>6. CASE K!ModuleDestroy
  BY <1>6 DEF K!ModuleDestroy, K!StopAllScheduledRotations, K!RotationStaysOn
<1>7. CASE UNCHANGED K!vars
  BY <1>7, <1>1 DEF K!vars, K!Emergencies
<1> QED  BY <1>1, <1>2, <1>3, <1>4, <1>5, <1>6, <1>7 DEF K!Next

\* Rotation is off only after a shutdown or while an emergency is at work, whatever
\* keys failed and however emergencies overlap.
THEOREM RotationOn == K!Spec => []K!RotationStaysOn
<1>1. K!Init => StaysOn  BY DEF K!Init, StaysOn, K!RotationStaysOn, K!Types
<1>2. K!TypeOK /\ StaysOn /\ [K!Next]_(K!vars) => StaysOn'  BY StaysOnStep
<1>3. StaysOn => K!RotationStaysOn  BY DEF StaysOn
<1> QED  BY <1>1, <1>2, <1>3, RotationTypeCorrect, PTL DEF K!Spec

\* No interval of the services is forgotten by the map.
THEOREM NoIntervalIsForgotten == Spec => []IntervalsAreKnown
<1>1. K!IntervalsAreKnown \/ ~(part = "rotation") => IntervalsAreKnown  BY DEF IntervalsAreKnown
<1> QED  BY <1>1, RotationIntervals, RotationPart, PTL

\* Rotation is off after a shutdown or during an emergency only.
THEOREM RotationIsOn == Spec => []RotationStaysOn
<1>1. K!RotationStaysOn \/ ~(part = "rotation") => RotationStaysOn  BY DEF RotationStaysOn
<1> QED  BY <1>1, RotationOn, RotationPart, PTL

-----------------------------------------------------------------------------
(* TenantRequests.                                                         *)

LEMMA RequestIdleType == R!Idle \in R!Request
<1>1. /\ (CHOOSE p \in Products : TRUE) \in Products /\ (CHOOSE e \in Imported : TRUE) \in Imported
  BY RequestsAssumption
<1> DEFINE p0 == CHOOSE p \in Products : TRUE
           e0 == CHOOSE e \in Imported : TRUE
<1>2. p0 \in Products /\ e0 \in Imported  BY <1>1
<1>3. R!Idle = [pc |-> "idle", route |-> "auth", header |-> NoTenant, site |-> NoTenant,
              param |-> NoTenant, product |-> p0, email |-> e0, who |-> Nobody,
              tenant |-> NoTenant, admin |-> FALSE, touched |-> {}, status |-> 0]
  BY DEF R!Idle
<1>4. "auth" \in R!Routes /\ NoTenant \in R!Named /\ 0 \in R!Statuses
  BY DEF R!Routes, R!Named, R!Statuses
<1> HIDE DEF p0, e0
<1> QED  BY <1>2, <1>3, <1>4 DEF R!Request

\* A refused request goes nowhere but to its end.
LEMMA RequestOverType ==
    ASSUME NEW q \in R!Request, NEW s \in R!Statuses
    PROVE  R!Over(q, s) \in R!Request
  BY DEF R!Over, R!Request

LEMMA RequestServedType ==
    ASSUME R!TypeOK, NEW r \in Requests, R!Served(r), req[r].header # NoTenant
    PROVE  req' \in [Requests -> R!Request]
<1>1. req[r].header \in Tenants  BY DEF R!TypeOK, R!Request, R!Named
<1>2. R!Over([req[r] EXCEPT !.touched = {req[r].header}], 200) \in R!Request
  <2>1. [req[r] EXCEPT !.touched = {req[r].header}] \in R!Request
    BY <1>1 DEF R!TypeOK, R!Request
  <2> QED  BY <2>1, RequestOverType DEF R!Statuses
<1> QED  BY <1>2 DEF R!Served, R!TypeOK

LEMMA RequestRefusedType ==
    ASSUME R!TypeOK, NEW r \in Requests, NEW X \in SUBSET R!Statuses,
           R!Refused(r, X)
    PROVE  (R!TypeOK)'
  BY RequestOverType DEF R!Refused, R!TypeOK

LEMMA RequestsTypeStep == ASSUME R!TypeOK, [R!Next]_(R!vars) PROVE (R!TypeOK)'
<1>1. ASSUME NEW r \in Requests, R!Arrive(r) PROVE (R!TypeOK)'
  <2>1. PICK w \in R!Routes, h \in R!Named, s \in R!Named, p \in R!Named, u \in Users \cup {Nobody},
             x \in Products, e \in Imported :
          LET q == [R!Idle EXCEPT !.pc = "user", !.route = w, !.header = h, !.site = s,
                                !.param = p, !.who = u, !.product = x, !.email = e]
          IN  req' = [req EXCEPT ![r] = IF R!TenantScopedGuard(q) THEN q ELSE R!Over(q, 403)]
    BY <1>1 DEF R!Arrive
  <2> DEFINE q == [R!Idle EXCEPT !.pc = "user", !.route = w, !.header = h, !.site = s,
                               !.param = p, !.who = u, !.product = x, !.email = e]
  <2>2. q \in R!Request  BY RequestIdleType DEF R!Request
  <2>3. R!Over(q, 403) \in R!Request  BY <2>2, RequestOverType DEF R!Statuses
  <2> HIDE DEF q
  <2>4. req' \in [Requests -> R!Request]  BY <2>1, <2>2, <2>3 DEF R!TypeOK, q
  <2> QED  BY <1>1, <2>4 DEF R!Arrive, R!TypeOK
<1>2. ASSUME NEW r \in Requests, R!Authorise(r) PROVE (R!TypeOK)'
  <2> DEFINE jwt == req[r].route \in R!JwtRoutes
             u   == IF jwt THEN req[r].who ELSE Nobody
             q   == IF u = Nobody THEN [req[r] EXCEPT !.who = Nobody]
                    ELSE [req[r] EXCEPT !.tenant = members[u].tenant, !.admin = members[u].admin]
  <2>1. q \in R!Request  BY DEF R!TypeOK, R!Request
  <2>2. req' = [req EXCEPT ![r] =
               IF jwt /\ u = Nobody THEN R!Over(q, 401)
               ELSE IF R!RolesGuard(q) /\ R!Intercept(q) THEN [q EXCEPT !.pc = "query"]
                                                     ELSE R!Over(q, 403)]
    BY <1>2 DEF R!Authorise
  <2> HIDE DEF q, u, jwt
  <2>3. [q EXCEPT !.pc = "query"] \in R!Request  BY <2>1 DEF R!Request
  <2>4. R!Over(q, 401) \in R!Request /\ R!Over(q, 403) \in R!Request  BY <2>1, RequestOverType DEF R!Statuses
  <2> QED  BY <1>2, <2>2, <2>3, <2>4 DEF R!Authorise, R!TypeOK
<1>3. ASSUME NEW r \in Requests, R!NoHeader(r) PROVE (R!TypeOK)'
  BY <1>3, RequestRefusedType DEF R!NoHeader, R!Statuses
<1>4. ASSUME NEW r \in Requests, R!CreateProduct(r) PROVE (R!TypeOK)'
  <2>1. req' \in [Requests -> R!Request]  BY <1>4, RequestServedType DEF R!CreateProduct, R!HasHeader
  <2> QED  BY <1>4, <2>1 DEF R!CreateProduct, R!TypeOK, R!Request
<1>5. ASSUME NEW r \in Requests, R!GetRows(r) PROVE (R!TypeOK)'
  <2>1. req' \in [Requests -> R!Request]  BY <1>5, RequestServedType DEF R!GetRows, R!HasHeader
  <2> QED  BY <1>5, <2>1 DEF R!GetRows, R!TypeOK
<1>6. ASSUME NEW r \in Requests, R!DeleteProduct(r) PROVE (R!TypeOK)'
  <2>1. req' \in [Requests -> R!Request]  BY <1>6, RequestServedType DEF R!DeleteProduct, R!HasHeader
  <2> QED  BY <1>6, <2>1 DEF R!DeleteProduct, R!TypeOK, R!Named
<1>7. ASSUME NEW r \in Requests, R!CreateCustomer(r) PROVE (R!TypeOK)'
  <2>1. req' \in [Requests -> R!Request]  BY <1>7, RequestServedType DEF R!CreateCustomer, R!HasHeader
  <2> QED  BY <1>7, <2>1 DEF R!CreateCustomer, R!TypeOK, R!Request
<1>8. ASSUME NEW r \in Requests, R!QueryFails(r) PROVE (R!TypeOK)'
  <2>1. PICK X \in SUBSET {400, 409, 500} : R!Refused(r, X)  BY <1>8 DEF R!QueryFails
  <2> QED  BY <2>1, RequestRefusedType DEF R!Statuses
<1>9. ASSUME NEW r \in Requests, R!Elsewhere(r) PROVE (R!TypeOK)'
  <2>1. PICK X \in SUBSET R!Statuses : R!Refused(r, X)  BY <1>9 DEF R!Elsewhere, R!Statuses
  <2> QED  BY <2>1, RequestRefusedType
<1>10. ASSUME NEW r \in Requests, R!Respond(r) PROVE (R!TypeOK)'
  BY <1>10, RequestIdleType DEF R!Respond, R!TypeOK
<1>11. ASSUME NEW u \in Users, R!GetsStore(u) PROVE (R!TypeOK)'
  BY <1>11, RequestsAssumption DEF R!GetsStore, R!TypeOK, R!Named
<1>12. CASE UNCHANGED R!vars
  BY <1>12 DEF R!vars, R!TypeOK
<1> QED  BY <1>1, <1>2, <1>3, <1>4, <1>5, <1>6, <1>7, <1>8, <1>9, <1>10, <1>11, <1>12 DEF R!Next

\* Every variable of the requests keeps its type.
THEOREM RequestsTypeCorrect == R!Spec => []R!TypeOK
<1>1. ASSUME R!Init PROVE R!TypeOK
  BY <1>1, RequestIdleType, RequestsAssumption DEF R!Init, R!TypeOK, R!Named
<1>2. R!TypeOK /\ [R!Next]_(R!vars) => (R!TypeOK)'  BY RequestsTypeStep
<1> QED  BY <1>1, <1>2, PTL DEF R!Spec

\* A request has no user's tenant and no rows before it is authorised; one that may
\* query rows is for the tenant of its user, whatever else it names; and what it
\* touched in the end is that tenant's.
Confined(q) ==
    /\ q.pc \in {"idle", "user"} => q.tenant = NoTenant
    /\ q.pc # "over" => q.touched = {}
    /\ q.pc = "query" /\ q.tenant # NoTenant /\ q.header # NoTenant => q.tenant = q.header
    /\ q.tenant # NoTenant => q.touched \subseteq {q.tenant}

LEMMA ConfinedEnd ==
    ASSUME NEW q \in R!Request, NEW s, Confined(q)
    PROVE  Confined(R!Over(q, s))
  BY DEF Confined, R!Over, R!Request

\* The interceptor refuses a user of another tenant than the one the header names:
\* the tenant asked for is compared with the user's and with the context's.
LEMMA InterceptConfines ==
    ASSUME NEW q \in R!Request, R!Intercept(q), q.tenant # NoTenant, q.header # NoTenant,
           q.who # Nobody
    PROVE  q.tenant = q.header
<1>1. ~R!IsSystemContext(q) /\ R!TenantId(q) = q.header  BY DEF R!IsSystemContext, R!TenantId
<1>2. R!Requested(q) # NoTenant  BY DEF R!Requested
<1> QED  BY <1>1, <1>2 DEF R!Intercept, R!ValidateTenantAccess

LEMMA ConfinedStep ==
    ASSUME R!TypeOK, [R!Next]_(R!vars), \A r \in Requests : Confined(req[r])
    PROVE  \A r \in Requests : Confined(req'[r])
<1>0. \A r \in Requests : req[r] \in R!Request  BY DEF R!TypeOK
<1>1. ASSUME NEW r \in Requests, NEW q, Confined(q), req' = [req EXCEPT ![r] = q]
      PROVE  \A x \in Requests : Confined(req'[x])
  BY <1>1 DEF R!TypeOK
<1>2. Confined(R!Idle)  BY DEF Confined, R!Idle
<1>3. ASSUME NEW r \in Requests, R!Arrive(r) PROVE \A x \in Requests : Confined(req'[x])
  <2>1. PICK w \in R!Routes, h \in R!Named, s \in R!Named, p \in R!Named, u \in Users \cup {Nobody},
             y \in Products, e \in Imported :
          LET q == [R!Idle EXCEPT !.pc = "user", !.route = w, !.header = h, !.site = s,
                                !.param = p, !.who = u, !.product = y, !.email = e]
          IN  req' = [req EXCEPT ![r] = IF R!TenantScopedGuard(q) THEN q ELSE R!Over(q, 403)]
    BY <1>3 DEF R!Arrive
  <2> DEFINE q == [R!Idle EXCEPT !.pc = "user", !.route = w, !.header = h, !.site = s,
                               !.param = p, !.who = u, !.product = y, !.email = e]
  <2>2. q \in R!Request  BY RequestIdleType DEF R!Request
  <2>3. Confined(q)  BY DEF Confined, R!Idle
  <2>4. Confined(R!Over(q, 403))  BY <2>2, <2>3, ConfinedEnd
  <2> HIDE DEF q
  <2> QED  BY <1>1, <2>1, <2>3, <2>4 DEF q
<1>4. ASSUME NEW r \in Requests, R!Authorise(r) PROVE \A x \in Requests : Confined(req'[x])
  <2> DEFINE jwt == req[r].route \in R!JwtRoutes
             u   == IF jwt THEN req[r].who ELSE Nobody
             q   == IF u = Nobody THEN [req[r] EXCEPT !.who = Nobody]
                    ELSE [req[r] EXCEPT !.tenant = members[u].tenant, !.admin = members[u].admin]
             n   == [q EXCEPT !.pc = "query"]
  <2>1. q \in R!Request /\ q.touched = {} /\ q.pc = "user"
    BY <1>0, <1>4 DEF R!Authorise, R!TypeOK, R!Request, Confined
  <2>2. q.tenant # NoTenant => q.who # Nobody
    BY <1>0, <1>4 DEF R!Authorise, R!TypeOK, R!Request, Confined
  <2>3. req' = [req EXCEPT ![r] =
               IF jwt /\ u = Nobody THEN R!Over(q, 401)
               ELSE IF R!RolesGuard(q) /\ R!Intercept(q) THEN n ELSE R!Over(q, 403)]
    BY <1>4 DEF R!Authorise
  <2> HIDE DEF q, u, jwt
  <2>4. Confined(R!Over(q, 401)) /\ Confined(R!Over(q, 403))
    BY <2>1 DEF Confined, R!Over, R!Request
  <2>5. R!Intercept(q) => Confined(n)
    BY <2>1, <2>2, InterceptConfines DEF Confined, R!Request
  <2> QED  BY <1>1, <2>3, <2>4, <2>5
<1>5. ASSUME NEW r \in Requests, NEW X, R!Refused(r, X)
      PROVE  \A x \in Requests : Confined(req'[x])
  BY <1>0, <1>1, <1>5, ConfinedEnd DEF R!Refused
<1>6. ASSUME NEW r \in Requests, NEW Q, R!HasHeader(r, Q), R!Served(r)
      PROVE  \A x \in Requests : Confined(req'[x])
  <2> DEFINE q == [req[r] EXCEPT !.touched = {req[r].header}]
  <2>1. q.pc = "query" /\ (q.tenant # NoTenant => q.touched = {q.tenant})
    BY <1>0, <1>6 DEF R!HasHeader, Confined, R!Request
  <2>2. Confined(R!Over(q, 200))  BY <1>0, <2>1 DEF Confined, R!Over, R!Request
  <2>3. req' = [req EXCEPT ![r] = R!Over(q, 200)]  BY <1>6 DEF R!Served
  <2> QED  BY <1>1, <2>2, <2>3
<1>7. ASSUME NEW r \in Requests, R!NoHeader(r) \/ R!QueryFails(r) \/ R!Elsewhere(r)
      PROVE  \A x \in Requests : Confined(req'[x])
  BY <1>5, <1>7 DEF R!NoHeader, R!QueryFails, R!Elsewhere
<1>8. ASSUME NEW r \in Requests,
             R!CreateProduct(r) \/ R!GetRows(r) \/ R!DeleteProduct(r) \/ R!CreateCustomer(r)
      PROVE  \A x \in Requests : Confined(req'[x])
  BY <1>6, <1>8 DEF R!CreateProduct, R!GetRows, R!DeleteProduct, R!CreateCustomer
<1>9. ASSUME NEW r \in Requests, R!Respond(r) PROVE \A x \in Requests : Confined(req'[x])
  BY <1>1, <1>2, <1>9 DEF R!Respond
<1>10. CASE UNCHANGED req
  BY <1>10
<1> QED
  BY <1>3, <1>4, <1>7, <1>8, <1>9, <1>10 DEF R!Next, R!GetsStore, R!vars

\* The rows a request reads or writes for a user who belongs to a tenant are that
\* tenant's, though the handlers trust the header and the guard passes some routes.
THEOREM RequestsConfined == R!Spec => []R!RowsStayWithTheTenant
<1> DEFINE AllConfined == \A r \in Requests : Confined(req[r])
<1>1. R!Init => AllConfined  BY DEF R!Init, Confined, R!Idle
<1>2. R!TypeOK /\ AllConfined /\ [R!Next]_(R!vars) => AllConfined'  BY ConfinedStep
<1>3. AllConfined => R!RowsStayWithTheTenant  BY DEF Confined, R!RowsStayWithTheTenant
<1> QED  BY <1>1, <1>2, <1>3, RequestsTypeCorrect, PTL DEF R!Spec

\* The rows a request of the services reads or writes stay with its user's tenant.
THEOREM RowsAreConfined == Spec => []RowsStayWithTheTenant
<1>1. R!RowsStayWithTheTenant \/ ~(part = "requests") => RowsStayWithTheTenant  BY DEF RowsStayWithTheTenant
<1> QED  BY <1>1, RequestsConfined, RequestsPart, PTL

-----------------------------------------------------------------------------
(* ThreatResponse.                                                         *)

\* Where BLOCK_IP stands in the actions of a level; a level without it is past it.
BlockAt(l) == CASE l = "CRITICAL" -> 2 [] l = "HIGH" -> 1 [] OTHER -> 0

LEMMA ActionLists ==
    ASSUME NEW l \in T!Levels
    PROVE  /\ Len(T!ResponseActions[l]) \in 0 .. 5
           /\ BlockAt(l) <= Len(T!ResponseActions[l])
           /\ \A i \in 1 .. Len(T!ResponseActions[l]) :
                 T!ResponseActions[l][i] = "BLOCK_IP" <=> i = BlockAt(l)
<1> USE DEF T!ResponseActions, BlockAt
<1>1. CASE l = "CRITICAL"  BY <1>1
<1>2. CASE l = "HIGH"  BY <1>2
<1>3. CASE l = "MEDIUM"  BY <1>3
<1>4. CASE l = "LOW"  BY <1>4
<1>5. CASE l = "UNKNOWN"  BY <1>5
<1> QED  BY <1>1, <1>2, <1>3, <1>4, <1>5 DEF T!Levels

\* A call in the middle of a block is at its BLOCK_IP; one that is past it wrote the
\* block or met a failure; one that is over is past all its actions; a call that was
\* not made has no level, nor does the one that handles a critical event.
BlockedOnTheWay(c) ==
    LET r == response[c]
    IN  /\ r.pc \in {"connect", "set"} => r.next = BlockAt(r.level) /\ r.ip # NoIp
        /\ r.next > BlockAt(r.level) /\ BlockAt(r.level) > 0 /\ r.ip # NoIp
              => c \in blocks \cup excused
        /\ r.pc = "done" => r.next > BlockAt(r.level)
        /\ r.pc = "idle" => r = T!Idle
        /\ c \in recorded => r.pc = "done"

ThreatsInv == T!TypeOK /\ \A c \in Calls : BlockedOnTheWay(c)

\* A step that changes the answer of one call to q, and adds to the histories.
LEMMA ResponseStep ==
    ASSUME ThreatsInv, NEW c \in Calls, NEW q \in T!Response,
           response' = [response EXCEPT ![c] = q],
           connected' \in BOOLEAN, blocked' \subseteq Ips, faults' \in 0 .. MaxFaults,
           blocks' \in {blocks, blocks \cup {c}}, excused' \in {excused, excused \cup {c}},
           recorded' \in {recorded, recorded \cup {c}},
           BlockedOnTheWay(c)'
    PROVE  ThreatsInv'
<1>1. (T!TypeOK)'  BY DEF ThreatsInv, T!TypeOK
<1>2. ASSUME NEW d \in Calls, d # c PROVE BlockedOnTheWay(d)'
  <2>1. BlockedOnTheWay(d) /\ response'[d] = response[d]  BY <1>2 DEF ThreatsInv, T!TypeOK
  <2>2. /\ d \in blocks \cup excused => d \in blocks' \cup excused'
        /\ d \in recorded' => d \in recorded
    BY <1>2
  <2> QED  BY <2>1, <2>2 DEF BlockedOnTheWay
<1> QED  BY <1>1, <1>2 DEF ThreatsInv

LEMMA ThreatsStep == ASSUME ThreatsInv, [T!Next]_(T!vars) PROVE ThreatsInv'
<1>1. /\ T!TypeOK /\ \A c \in Calls : response[c] \in T!Response /\ BlockedOnTheWay(c)
      /\ \A c \in Calls : response[c].next \in 1 .. 6 /\ response[c].level \in T!Levels
  BY DEF ThreatsInv, T!TypeOK, T!Response
<1>2. ASSUME NEW c \in Calls, T!HandleThreat(c) PROVE ThreatsInv'
  <2>1. PICK l \in T!Levels, ip \in Ips \cup {NoIp} :
          response' = [response EXCEPT ![c] = [pc |-> "acting", level |-> l, ip |-> ip, next |-> 1]]
    BY <1>2 DEF T!HandleThreat
  <2> DEFINE q == [pc |-> "acting", level |-> l, ip |-> ip, next |-> 1]
  <2>2. q \in T!Response  BY DEF T!Response
  <2>3. response[c].pc = "idle" /\ UNCHANGED <<recorded, connected, blocked, faults, blocks, excused>>
    BY <1>2 DEF T!HandleThreat, T!redis, T!At
  <2>4. c \notin recorded  BY <1>1, <2>3 DEF BlockedOnTheWay
  <2>5. BlockedOnTheWay(c)'
    BY <1>1, <2>1, <2>3, <2>4 DEF BlockedOnTheWay, BlockAt, T!TypeOK
  <2> QED  BY <1>1, <2>1, <2>2, <2>3, <2>5, ResponseStep DEF T!TypeOK
<1>3. ASSUME NEW c \in Calls, T!HandleCritical(c) PROVE ThreatsInv'
  <2> DEFINE q == [T!Idle EXCEPT !.pc = "done"]
  <2>1. response[c] = T!Idle  BY <1>1, <1>3 DEF T!HandleCritical, T!At, BlockedOnTheWay
  <2>2. /\ response' = [response EXCEPT ![c] = q] /\ recorded' = recorded \cup {c}
        /\ UNCHANGED <<connected, blocked, faults, blocks, excused>>
    BY <1>3, <2>1 DEF T!HandleCritical, T!redis
  <2>3. q \in T!Response  BY <1>1, <2>1 DEF T!Response, T!Idle
  <2>4. q.next > BlockAt(q.level) /\ BlockAt(q.level) = 0  BY DEF T!Idle, BlockAt
  <2>5. BlockedOnTheWay(c)'  BY <1>1, <2>2, <2>4 DEF BlockedOnTheWay, T!TypeOK, T!Idle
  <2> QED  BY <1>1, <2>2, <2>3, <2>5, ResponseStep DEF T!TypeOK
<1>4. ASSUME NEW c \in Calls, T!ExecuteResponseAction(c) PROVE ThreatsInv'
  <2> DEFINE l == response[c].level
             n == response[c].next
  <2>1. /\ response[c].pc = "acting" /\ n <= Len(T!ResponseActions[l])
        /\ UNCHANGED <<recorded, connected, blocked, faults, blocks, excused>>
    BY <1>4 DEF T!ExecuteResponseAction, T!At, T!ActionsOf, T!redis
  <2>2. /\ Len(T!ResponseActions[l]) \in 0 .. 5 /\ n \in 1 .. 5
        /\ T!ResponseActions[l][n] = "BLOCK_IP" <=> n = BlockAt(l)
    BY <1>1, <2>1, ActionLists
  <2>3. CASE n = BlockAt(l) /\ response[c].ip # NoIp
    <3> DEFINE q == [response[c] EXCEPT !.pc = "connect"]
    <3>1. response' = [response EXCEPT ![c] = q]
      BY <1>4, <2>2, <2>3 DEF T!ExecuteResponseAction, T!ActionsOf, T!TypeOK
    <3>2. q \in T!Response  BY <1>1 DEF T!Response
    <3>3. BlockedOnTheWay(c)'
      BY <1>1, <2>1, <2>3, <3>1 DEF BlockedOnTheWay, T!TypeOK, T!Response
    <3> QED  BY <1>1, <2>1, <3>1, <3>2, <3>3, ResponseStep DEF T!TypeOK
  <2>4. CASE ~(n = BlockAt(l) /\ response[c].ip # NoIp)
    <3> DEFINE q == [response[c] EXCEPT !.next = n + 1]
    <3>1. response' = [response EXCEPT ![c] = q]
      BY <1>1, <1>4, <2>2, <2>4 DEF T!ExecuteResponseAction, T!ActionsOf, T!TypeOK
    <3>2. q \in T!Response  BY <1>1, <2>2 DEF T!Response
    <3>3. BlockAt(l) \in 0 .. 2  BY DEF BlockAt
    <3>4. BlockedOnTheWay(c)'
      BY <1>1, <2>1, <2>2, <2>4, <3>1, <3>3 DEF BlockedOnTheWay, T!TypeOK, T!Response
    <3> QED  BY <1>1, <2>1, <3>1, <3>2, <3>4, ResponseStep DEF T!TypeOK
  <2> QED  BY <2>3, <2>4
<1>5. ASSUME NEW c \in Calls, T!Executed(c) PROVE ThreatsInv'
  <2> DEFINE q == [response[c] EXCEPT !.pc = "done"]
  <2>1. /\ response' = [response EXCEPT ![c] = q] /\ recorded' = recorded \cup {c}
        /\ UNCHANGED <<connected, blocked, faults, blocks, excused>>
        /\ response[c].pc = "acting"
        /\ response[c].next > Len(T!ResponseActions[response[c].level])
    BY <1>5 DEF T!Executed, T!Finished, T!At, T!ActionsOf, T!redis
  <2>2. response[c].next > BlockAt(response[c].level)  
    <3>1. BlockAt(response[c].level) \in 0 .. 2  BY DEF BlockAt
    <3> QED BY <1>1, <2>1, <3>1, ActionLists
  <2>3. q \in T!Response  BY <1>1 DEF T!Response
  <2>4. BlockedOnTheWay(c)'
    BY <1>1, <2>1, <2>2 DEF BlockedOnTheWay, T!TypeOK, T!Response
  <2> QED  BY <1>1, <2>1, <2>3, <2>4, ResponseStep DEF T!TypeOK
\* The three ways out of blockIpAddress: the write is in blocks, a failure in excused.
<1>6. ASSUME NEW c \in Calls, T!At(c, "connect") \/ T!At(c, "set"), T!Return(c),
             blocks' \in {blocks, blocks \cup {c}}, excused' \in {excused, excused \cup {c}},
             c \in blocks' \cup excused', connected' \in BOOLEAN, blocked' \subseteq Ips,
             faults' \in 0 .. MaxFaults, recorded' = recorded
      PROVE  ThreatsInv'
  <2> DEFINE q == [response[c] EXCEPT !.pc = "acting", !.next = @ + 1]
  <2>1. response' = [response EXCEPT ![c] = q]  BY <1>1, <1>6 DEF T!Return, T!TypeOK
  <2>2. response[c].next \in 1 .. 2
    BY <1>1, <1>6 DEF T!At, BlockedOnTheWay, BlockAt
  <2> DEFINE n == response[c].next + 1
  <2>5. n \in 1 .. 6  BY <2>2
  <2> HIDE DEF n
  <2>3. q \in T!Response  BY <1>1, <2>5 DEF T!Response, n
  <2>4. BlockedOnTheWay(c)'
    BY <1>1, <1>6, <2>1 DEF BlockedOnTheWay, T!TypeOK, T!Response, T!At
  <2> QED  BY <1>1, <1>6, <2>1, <2>3, <2>4, ResponseStep DEF T!TypeOK
<1>7. ASSUME NEW c \in Calls, T!EnsureConnection(c) PROVE ThreatsInv'
  <2>1. CASE connected' = TRUE /\ response' = [response EXCEPT ![c].pc = "set"] /\ UNCHANGED excused
    <3> DEFINE q == [response[c] EXCEPT !.pc = "set"]
    <3>1. /\ response[c].pc = "connect" /\ response' = [response EXCEPT ![c] = q]
          /\ UNCHANGED <<blocked, recorded, faults, blocks, excused>>
      BY <1>7, <2>1 DEF T!EnsureConnection, T!At
    <3>2. q \in T!Response  BY <1>1 DEF T!Response
    <3>3. BlockedOnTheWay(c)'
      BY <1>1, <3>1 DEF BlockedOnTheWay, T!TypeOK, T!Response
    <3> QED  BY <1>1, <2>1, <3>1, <3>2, <3>3, ResponseStep DEF T!TypeOK
  <2>2. CASE ~connected /\ T!Return(c) /\ excused' = excused \cup {c} /\ UNCHANGED connected
    BY <1>1, <1>6, <1>7, <2>2 DEF T!EnsureConnection, T!TypeOK
  <2> QED  BY <1>7, <2>1, <2>2 DEF T!EnsureConnection
<1>8. ASSUME NEW c \in Calls, T!SetBlock(c) PROVE ThreatsInv'
  <2>1. response[c].ip \in Ips  
    BY <1>1, <1>8 DEF T!SetBlock, T!At, BlockedOnTheWay, T!Response
  <2> QED  BY <1>1, <1>6, <1>8, <2>1 DEF T!SetBlock, T!TypeOK
<1>9. ASSUME NEW c \in Calls, T!SetFails(c) PROVE ThreatsInv'
  BY <1>1, <1>6, <1>9, AccountsAssumption DEF T!SetFails, T!TypeOK
<1>10. ASSUME UNCHANGED <<response, recorded, blocks, excused>>, (T!TypeOK)' PROVE ThreatsInv'
  BY <1>1, <1>10 DEF ThreatsInv, BlockedOnTheWay
<1>11. CASE T!Disconnected
  <2>0. faults \in 0 .. MaxFaults /\ faults < MaxFaults /\ faults' = faults + 1
    BY <1>1, <1>11, Zenon DEF T!Disconnected, T!TypeOK
  <2>1. faults' \in 0 .. MaxFaults
    BY <2>0, AccountsAssumption
  <2>3. connected' \in BOOLEAN
    BY <1>11, Zenon DEF T!Disconnected
  <2>2. UNCHANGED <<response, blocked, recorded, blocks, excused>>
    BY <1>11 DEF T!Disconnected
  <2> QED  BY <1>1, <1>10, <2>1, <2>2, <2>3 DEF T!TypeOK
<1>12. ASSUME NEW ip \in Ips, T!Unblocked(ip) PROVE ThreatsInv'
  BY <1>1, <1>10, <1>12 DEF T!Unblocked, T!TypeOK
<1>13. CASE UNCHANGED T!vars
  BY <1>1, <1>10, <1>13 DEF T!vars, T!TypeOK
<1> QED
  BY <1>2, <1>3, <1>4, <1>5, <1>7, <1>8, <1>9, <1>11, <1>12, <1>13 DEF T!Next

\* What the responses keep.
LEMMA ThreatsInvariant == T!Spec => []ThreatsInv
<1>1. ASSUME T!Init PROVE ThreatsInv
  <2>1. T!Idle \in T!Response  BY DEF T!Idle, T!Response, T!Levels, T!ResponseActions
  <2> QED  BY <1>1, <2>1, AccountsAssumption DEF T!Init, T!Idle, ThreatsInv, T!TypeOK, BlockedOnTheWay, BlockAt
<1>2. ThreatsInv /\ [T!Next]_(T!vars) => ThreatsInv'  BY ThreatsStep
<1> QED  BY <1>1, <1>2, PTL DEF T!Spec

\* Every variable of the responses keeps its type: the list is never overrun.
THEOREM ThreatsTypeCorrect == T!Spec => []T!TypeOK
<1>1. ThreatsInv => T!TypeOK  BY DEF ThreatsInv
<1> QED  BY <1>1, ThreatsInvariant, PTL

\* A response to a critical or high threat from a known address is recorded after the
\* address was blocked, or Redis failed that very call.
THEOREM ThreatsRecorded == T!Spec => []T!RecordedAfterBlocking
<1>1. ASSUME ThreatsInv PROVE T!RecordedAfterBlocking
  <2>1. ASSUME NEW c \in recorded, response[c].level \in {"CRITICAL", "HIGH"}, response[c].ip # NoIp
        PROVE  c \in blocks \cup excused
    BY <1>1, <2>1 DEF ThreatsInv, T!TypeOK, BlockedOnTheWay, BlockAt
  <2> QED  BY <2>1 DEF T!RecordedAfterBlocking
<1> QED  BY <1>1, ThreatsInvariant, PTL

\* A response of the services is recorded after its address was blocked.
THEOREM RecordedOnlyAfterBlocking == Spec => []RecordedAfterBlocking
<1>1. T!RecordedAfterBlocking \/ ~(part = "threats") => RecordedAfterBlocking  BY DEF RecordedAfterBlocking
<1> QED  BY <1>1, ThreatsRecorded, ThreatsPart, PTL

-----------------------------------------------------------------------------
(* TenantBatch.                                                            *)

\* The cardinality of the instanced module is the one of FiniteSets.
LEMMA BatchCardinality == \A X : B!Cardinality(X) = Cardinality(X)
  BY DEF B!Cardinality, Cardinality

LEMMA DisjointUnion ==
    ASSUME NEW X, NEW Y, IsFiniteSet(X), IsFiniteSet(Y), X \cap Y = {}
    PROVE  /\ IsFiniteSet(X \cup Y)
           /\ Cardinality(X \cup Y) = Cardinality(X) + Cardinality(Y)
<1>1. Cardinality(X \cap Y) = 0  BY FS_EmptySet
<1>2. Cardinality(X) \in Nat /\ Cardinality(Y) \in Nat  BY FS_CardinalityType
<1>3. /\ IsFiniteSet(X \cup Y)
      /\ Cardinality(X \cup Y) = Cardinality(X) + Cardinality(Y) - Cardinality(X \cap Y)
  BY FS_Union
<1> QED  BY <1>1, <1>2, <1>3

LEMMA EntriesAreFinite ==
    /\ IsFiniteSet(B!Entries) /\ Cardinality(B!Entries) = Total
    /\ \A X \in SUBSET B!Entries : IsFiniteSet(X) /\ Cardinality(X) \in Nat
<1>1. IsFiniteSet(B!Entries) /\ Cardinality(B!Entries) = Total
  BY FS_Interval, BatchAssumption DEF B!Entries
<1> QED  BY <1>1, FS_Subset, FS_CardinalityType

\* How far the report goes: past the chunk that has settled last.
Reached == IF phase = "settling" THEN (chunk - 1) * BatchSize ELSE chunk * BatchSize

\* The entries the report has counted under a state of their promise.
Counted(s) == {i \in B!Entries : i <= Reached /\ slot[i] = s}

BatchInv ==
    /\ B!TypeOK /\ chunk > 0
    /\ \A i \in B!Entries : i <= Reached => slot[i] \in {"fulfilled", "rejected"}
    /\ \A i \in B!Entries : slot[i] = "fulfilled" => i \in rows
    /\ \A i \in B!Entries : slot[i] = "backoff" => attempt[i] < MaxRetries
    /\ results.successful = Cardinality(Counted("fulfilled"))
    /\ results.failed = Cardinality(Counted("rejected"))
    /\ phase = "done" => Total <= Reached

\* A step of one entry that is under way: it is not counted yet.
LEMMA EntryStep ==
    ASSUME BatchInv, NEW i \in B!Entries, slot[i] \notin {"fulfilled", "rejected"},
           NEW s \in B!Slots, slot' = [slot EXCEPT ![i] = s],
           UNCHANGED <<chunk, phase, results>>,
           NEW n \in 1 .. MaxRetries, attempt' = [attempt EXCEPT ![i] = n],
           rows' \in {rows, rows \cup {i}},
           s = "fulfilled" => i \in rows', s = "backoff" => n < MaxRetries
    PROVE  BatchInv'
<1>1. (B!TypeOK)' /\ chunk' > 0  BY DEF BatchInv, B!TypeOK
<1>2. Reached' = Reached /\ ~(i <= Reached)  BY DEF BatchInv, Reached
<1>3. \A j \in B!Entries : j # i => slot'[j] = slot[j] /\ attempt'[j] = attempt[j]
  BY DEF BatchInv, B!TypeOK
<1>4. slot'[i] = s /\ attempt'[i] = n  BY DEF BatchInv, B!TypeOK
<1>5. \A t : Counted(t)' = Counted(t)  BY <1>2, <1>3 DEF Counted
<1>6. \A j \in B!Entries : j <= Reached' => slot'[j] \in {"fulfilled", "rejected"}
  BY <1>2, <1>3 DEF BatchInv
<1>7. \A j \in B!Entries : slot'[j] = "fulfilled" => j \in rows'
  BY <1>3, <1>4 DEF BatchInv
<1>8. \A j \in B!Entries : slot'[j] = "backoff" => attempt'[j] < MaxRetries
  BY <1>3, <1>4 DEF BatchInv
<1>9. results' = results /\ phase' = phase  OBVIOUS
<1> QED  BY <1>1, <1>2, <1>5, <1>6, <1>7, <1>8, <1>9 DEF BatchInv

\* Nonlinear facts about the bounds of the chunks.
LEMMA ChunkBounds ==
    ASSUME NEW k \in Nat
    PROVE  /\ k * BatchSize \in Nat /\ (k - 1) * BatchSize \in Int
           /\ (k - 1) * BatchSize <= k * BatchSize
           /\ (k + 1) - 1 = k
<1>1. BatchSize \in Nat  BY BatchAssumption
<1>2. k * BatchSize = (k - 1) * BatchSize + BatchSize  BY <1>1
<1>3. k * BatchSize \in Nat /\ (k - 1) * BatchSize \in Int  BY <1>1
<1> QED  BY <1>1, <1>2, <1>3

LEMMA CountStep == ASSUME BatchInv, B!Count PROVE BatchInv'
<1> DEFINE now(s) == {i \in B!Batch(chunk) : slot[i] = s}
<1>1. /\ phase = "settling" /\ B!ChunkSettled /\ UNCHANGED <<chunk, slot, attempt, rows>>
      /\ results' = [successful |-> results.successful + Cardinality(now("fulfilled")),
                     failed     |-> results.failed + Cardinality(now("rejected"))]
      /\ phase' = IF chunk * BatchSize < Total THEN "delay" ELSE "done"
  BY BatchCardinality DEF B!Count
<1>2. chunk \in Nat  BY DEF BatchInv, B!TypeOK
<1>3. Reached = (chunk - 1) * BatchSize /\ Reached' = chunk * BatchSize
  BY <1>1 DEF Reached
<1>4. Reached \in Int /\ Reached' \in Nat /\ Reached <= Reached'  BY <1>2, <1>3, ChunkBounds
<1>5. B!Batch(chunk) = {i \in B!Entries : Reached < i /\ i <= Reached'}
  BY <1>3 DEF B!Batch
<1>6. \A i \in B!Entries : i \in Int  BY BatchAssumption DEF B!Entries
<1>7. ASSUME NEW s PROVE Cardinality(Counted(s)') = Cardinality(Counted(s)) + Cardinality(now(s))
  <2>1. Counted(s)' = Counted(s) \cup now(s)  BY <1>1, <1>4, <1>5, <1>6 DEF Counted
  <2>2. Counted(s) \cap now(s) = {}  BY <1>4, <1>5, <1>6 DEF Counted
  <2>3. Counted(s) \in SUBSET B!Entries /\ now(s) \in SUBSET B!Entries
    BY <1>5 DEF Counted
  <2> QED  BY <2>1, <2>2, <2>3, DisjointUnion, EntriesAreFinite
<1>8. ASSUME NEW s PROVE Cardinality(now(s)) \in Nat
  <2>1. now(s) \in SUBSET B!Entries  BY <1>5
  <2> QED  BY <2>1, EntriesAreFinite
<1>9. \A i \in B!Entries : i <= Reached' => slot[i] \in {"fulfilled", "rejected"}
  BY <1>1, <1>4, <1>5, <1>6 DEF BatchInv, B!ChunkSettled, B!Settled
<1> HIDE DEF now
<1>10. results.successful \in Nat /\ results.failed \in Nat  BY DEF BatchInv, B!TypeOK
<1>11. results' \in [successful : Nat, failed : Nat]  BY <1>1, <1>8, <1>10
<1>12. (B!TypeOK)'  BY <1>1, <1>11 DEF BatchInv, B!TypeOK
<1>13. /\ results'.successful = Cardinality(Counted("fulfilled")')
       /\ results'.failed = Cardinality(Counted("rejected")')
  BY <1>1, <1>7 DEF BatchInv
<1>14. phase' = "done" => Total <= Reached'
  BY <1>1, <1>3, <1>4, BatchAssumption
<1> QED
  BY <1>1, <1>9, <1>12, <1>13, <1>14 DEF BatchInv

LEMMA NextChunkStep == ASSUME BatchInv, B!NextChunk PROVE BatchInv'
<1>1. /\ phase = "delay" /\ phase' = "settling" /\ chunk' = chunk + 1
      /\ slot' = B!Started(slot, chunk + 1) /\ UNCHANGED <<attempt, rows, results>>
  BY DEF B!NextChunk
<1>2. chunk \in Nat  BY DEF BatchInv, B!TypeOK
<1>3. Reached = chunk * BatchSize /\ Reached' = chunk * BatchSize /\ Reached \in Nat
  BY <1>1, <1>2, ChunkBounds DEF Reached
<1>4. \A i \in B!Entries : i \in Int  BY BatchAssumption DEF B!Entries
<1>5. \A i \in B!Batch(chunk + 1) : i \in B!Entries /\ ~(i <= Reached)
  BY <1>2, <1>3, <1>4, ChunkBounds DEF B!Batch
<1>6. /\ slot' \in [B!Entries -> B!Slots]
      /\ \A i \in B!Entries : i <= Reached => slot'[i] = slot[i]
      /\ \A i \in B!Entries : slot'[i] \in {"creating", slot[i]}
  BY <1>1, <1>5 DEF B!Started, B!Slots, BatchInv, B!TypeOK
<1>7. \A s : Counted(s)' = Counted(s)  BY <1>3, <1>6 DEF Counted
<1>8. (B!TypeOK)' /\ chunk' > 0  BY <1>1, <1>2, <1>6 DEF BatchInv, B!TypeOK
<1>9. /\ \A i \in B!Entries : i <= Reached' => slot'[i] \in {"fulfilled", "rejected"}
      /\ \A i \in B!Entries : slot'[i] = "fulfilled" => i \in rows'
      /\ \A i \in B!Entries : slot'[i] = "backoff" => attempt'[i] < MaxRetries
  BY <1>1, <1>3, <1>6 DEF BatchInv
<1> QED  BY <1>1, <1>7, <1>8, <1>9 DEF BatchInv

LEMMA BatchStep == ASSUME BatchInv, [B!Next]_(B!vars) PROVE BatchInv'
<1>1. B!TypeOK /\ \A i \in B!Entries : attempt[i] \in 1 .. MaxRetries
  BY DEF BatchInv, B!TypeOK
<1>3. ASSUME NEW i \in B!Entries, attempt' = attempt
      PROVE  attempt' = [attempt EXCEPT ![i] = attempt[i]]
  BY <1>1, <1>3 DEF B!TypeOK
<1>4. ASSUME NEW i \in B!Entries, B!Created(i) PROVE BatchInv'
  BY <1>1, <1>3, <1>4, EntryStep DEF B!Created, B!Slots
<1>5. ASSUME NEW i \in B!Entries, B!Refused(i) PROVE BatchInv'
  BY <1>1, <1>3, <1>5, EntryStep DEF B!Refused, B!Slots
<1>6. ASSUME NEW i \in B!Entries, B!RateLimited(i) PROVE BatchInv'
  <2> DEFINE s == IF attempt[i] < MaxRetries THEN "backoff" ELSE "rejected"
  <2>1. slot' = [slot EXCEPT ![i] = s]  BY <1>6 DEF B!RateLimited, B!Exhausted
  <2>2. s \in B!Slots /\ (s = "backoff" => attempt[i] < MaxRetries) /\ s # "fulfilled"
    BY DEF B!Slots
  <2> HIDE DEF s
  <2>3. /\ slot[i] = "creating" /\ UNCHANGED <<chunk, phase, rows, results>>
        /\ attempt' = [attempt EXCEPT ![i] = attempt[i]]
    BY <1>3, <1>6 DEF B!RateLimited
  <2> QED  BY <1>1, <2>1, <2>2, <2>3, EntryStep
<1>7. ASSUME NEW i \in B!Entries, B!Retry(i) PROVE BatchInv'
  <2> DEFINE n == attempt[i] + 1
  <2>1. attempt' = [attempt EXCEPT ![i] = n]  BY <1>7 DEF B!Retry
  <2>2. attempt[i] < MaxRetries  BY <1>7 DEF B!Retry, BatchInv
  <2>3. n \in 1 .. MaxRetries  BY <1>1, <2>2, BatchAssumption
  <2> HIDE DEF n
  <2> QED  BY <1>7, <2>1, <2>3, EntryStep DEF B!Retry, B!Slots
<1>8. CASE UNCHANGED B!vars
  BY <1>8 DEF B!vars, BatchInv, B!TypeOK, Counted, Reached
<1> QED  BY <1>4, <1>5, <1>6, <1>7, <1>8, CountStep, NextChunkStep DEF B!Next

LEMMA BatchInvariant == B!Spec => []BatchInv
<1>1. ASSUME B!Init PROVE BatchInv
  <2>1. chunk = 1 /\ phase = "settling" /\ Reached = 0
    BY <1>1, BatchAssumption DEF B!Init, Reached
  <2>2. \A i \in B!Entries : ~(i <= Reached)  BY <2>1, BatchAssumption DEF B!Entries
  <2>3. \A s : Counted(s) = {}  BY <2>2 DEF Counted
  <2>4. slot \in [B!Entries -> {"creating", "waiting"}]
    BY <1>1 DEF B!Init, B!Started
  <2>5. B!TypeOK
    BY <1>1, <2>1, <2>4, BatchAssumption DEF B!Init, B!TypeOK, B!Slots
  <2> QED  BY <1>1, <2>1, <2>2, <2>3, <2>4, <2>5, FS_EmptySet DEF B!Init, BatchInv
<1>2. BatchInv /\ [B!Next]_(B!vars) => BatchInv'  BY BatchStep
<1> QED  BY <1>1, <1>2, PTL DEF B!Spec

\* Every variable of the batch keeps its type: no entry is tried too often.
THEOREM BatchTypeCorrect == B!Spec => []B!TypeOK
<1>1. BatchInv => B!TypeOK  BY DEF BatchInv
<1> QED  BY <1>1, BatchInvariant, PTL

\* The report of a finished batch counts every entry once, and no entry successful
\* that has no tenant.
THEOREM BatchReport == B!Spec => []B!ReportIsTrue
<1>1. ASSUME BatchInv, phase = "done"
      PROVE  /\ results.successful + results.failed = Total
             /\ results.successful <= Cardinality(rows)
  <2>1. \A i \in B!Entries : i <= Reached
    <3>1. Total <= Reached /\ chunk \in Nat  BY <1>1 DEF BatchInv, B!TypeOK
    <3>2. Reached = chunk * BatchSize  BY <1>1 DEF Reached
    <3>3. Reached \in Nat  BY <3>1, <3>2, ChunkBounds
    <3> QED  BY <3>1, <3>3, BatchAssumption DEF B!Entries
  <2>2. /\ Counted("fulfilled") \cup Counted("rejected") = B!Entries
        /\ Counted("fulfilled") \cap Counted("rejected") = {}
    BY <1>1, <2>1 DEF BatchInv, Counted
  <2>3. Counted("fulfilled") \subseteq rows /\ rows \in SUBSET B!Entries
    BY <1>1 DEF BatchInv, Counted, B!TypeOK
  <2>4. \A s : Counted(s) \in SUBSET B!Entries  BY DEF Counted
  <2>5. Cardinality(Counted("fulfilled")) + Cardinality(Counted("rejected")) = Total
    BY <2>2, <2>4, DisjointUnion, EntriesAreFinite
  <2>6. Cardinality(Counted("fulfilled")) <= Cardinality(rows)
    BY <2>3, FS_Subset, EntriesAreFinite
  <2> QED  BY <1>1, <2>5, <2>6 DEF BatchInv
<1>2. BatchInv => \A i \in B!Entries : slot[i] = "fulfilled" => i \in rows  BY DEF BatchInv
<1>3. BatchInv => B!ReportIsTrue  BY <1>1, <1>2, BatchCardinality DEF B!ReportIsTrue
<1> QED  BY <1>3, BatchInvariant, PTL

\* The report of a batch of the services is true.
THEOREM ReportCountsEveryEntry == Spec => []ReportIsTrue
<1>1. B!ReportIsTrue \/ ~(part = "batch") => ReportIsTrue  BY DEF ReportIsTrue
<1> QED  BY <1>1, BatchReport, BatchPart, PTL
==============================================================================
