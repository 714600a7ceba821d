------------------------------- MODULE Startup -------------------------------
(***************************************************************************)
(* The start of the server, main.ts: an ApexConfigService and an           *)
(* EnvValidatorService check the environment before the application is     *)
(* built, the modules' own instances check it again while it is, Prisma    *)
(* connects, and the server listens; any error ends the process.  While it *)
(* runs, validateDynamicUpdate may change a variable of the environment.   *)
(***************************************************************************)
EXTENDS Naturals

VARIABLES
    env,     \* process.env, .env files included: what the checks tell apart
    boot,    \* how far bootstrap is
    born     \* history: the environment the process started with

vars == <<env, boot, born>>

Secrets == {"ENCRYPTION_MASTER_KEY", "JWT_SECRET", "DATABASE_URL"}
Names   == Secrets \cup {"NODE_ENV", "PORT"}

\* Not set, empty, only spaces, under 64 characters, at least 64; NODE_ENV is
\* "production" or another value, and PORT is free or in use.
Values == [n \in Names |->
    CASE n = "NODE_ENV" -> {"unset", "production", "other"}
      [] n = "PORT"     -> {"unset", "free", "used"}
      [] OTHER          -> {"unset", "empty", "spaces", "short", "long"}]

Phases == {"config", "validate", "create", "prisma", "modules", "listen", "up", "exited"}

Env(e) == DOMAIN e = Names /\ \A n \in Names : e[n] \in Values[n]

Init ==
    /\ \E mode \in Values["NODE_ENV"], port \in Values["PORT"], key \in Values["JWT_SECRET"],
          jwt \in Values["JWT_SECRET"], url \in Values["DATABASE_URL"] :
          env = [NODE_ENV |-> mode, PORT |-> port, ENCRYPTION_MASTER_KEY |-> key,
                 JWT_SECRET |-> jwt, DATABASE_URL |-> url]
    /\ boot = "config" /\ born = env

-----------------------------------------------------------------------------
(* The checks.                                                             *)

IsProduction == env["NODE_ENV"] = "production"
Truthy(n)    == env[n] \notin {"unset", "empty"}

\* The constructor of ApexConfigService: the two names its list holds.
ConfigAccepts == IsProduction => Truthy("DATABASE_URL") /\ Truthy("JWT_SECRET")

ValidateCriticalVariables == IsProduction =>
    \A n \in Secrets : env[n] \notin {"unset", "empty", "spaces"}

ValidateSecretStrengthMutantEither == IsProduction =>
    \/ ~Truthy("ENCRYPTION_MASTER_KEY") \/ ~Truthy("JWT_SECRET")
    \/ env["ENCRYPTION_MASTER_KEY"] = "long" \/ env["JWT_SECRET"] = "long"

\* Sixty-four characters each; skipped when one of the two is absent.
ValidateSecretStrength == IsProduction =>
    \/ ~Truthy("ENCRYPTION_MASTER_KEY") \/ ~Truthy("JWT_SECRET")
    \/ env["ENCRYPTION_MASTER_KEY"] = "long" /\ env["JWT_SECRET"] = "long"

EnvironmentIsValid == ValidateCriticalVariables /\ ValidateSecretStrength

-----------------------------------------------------------------------------
(* bootstrap.                                                              *)

\* An error in bootstrap: process.exit(1).
Step(from, passes, to) ==
    /\ boot = from
    /\ boot' = IF passes THEN to ELSE "exited"
    /\ UNCHANGED <<env, born>>

NewApexConfig      == Step("config", ConfigAccepts, "validate")
ValidateEnvironment == Step("validate", EnvironmentIsValid, "create")
Create             == Step("create", ConfigAccepts, "prisma")       \* NestFactory.create

\* PrismaService.onModuleInit: without a URL there is nothing to connect to, and a
\* database may be down.
Connect == \E up \in BOOLEAN :
    Step("prisma", up /\ env["DATABASE_URL"] \in {"short", "long"}, "modules")

ModuleInit == Step("modules", EnvironmentIsValid, "listen")
Listen     == Step("listen", env["PORT"] # "used", "up")

\* An uncaught exception ends the process; an unhandled rejection is only printed.
UncaughtException == boot = "up" /\ Step("up", FALSE, "up")

\* validateDynamicUpdate: not the three secrets, and not an empty value.
Updatable == Names \ Secrets

ValidateDynamicUpdate(n, v) ==
    /\ boot = "up"
    /\ n \in Updatable /\ v \notin {"unset", "empty", "spaces"}
    /\ env' = [env EXCEPT ![n] = v]
    /\ UNCHANGED <<boot, born>>

Next ==
    \/ NewApexConfig \/ ValidateEnvironment \/ Create \/ Connect \/ ModuleInit \/ Listen
    \/ UncaughtException
    \/ \E n \in Names : \E v \in Values[n] : ValidateDynamicUpdate(n, v)

Spec == Init /\ [][Next]_vars

-----------------------------------------------------------------------------
(* Properties.                                                             *)

\* Every variable holds a value of its kind.
TypeOK == Env(env) /\ Env(born) /\ boot \in Phases

\* A server that was started in production listens only with two keys of full length
\* and a database, and goes on with them whatever is updated while it runs.
ProductionHasItsSecrets ==
    boot = "up" /\ born["NODE_ENV"] = "production"
        => /\ env["ENCRYPTION_MASTER_KEY"] = "long" /\ env["JWT_SECRET"] = "long"
           /\ \A n \in Secrets : env[n] = born[n]
=============================================================================
