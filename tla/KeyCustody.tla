----------------------------- MODULE KeyCustody -----------------------------
(***************************************************************************)
(* EncryptionService of packages/core/src/security/layers/s7-encryption:   *)
(* where the key of a ciphertext comes from and how long it can be found   *)
(* again.  The master key is static, the salt of a tenant and the derived  *)
(* keys live in the memory of one service instance (a graph), and what was *)
(* encrypted lives in the database or in a file and outlives them.         *)
(*                                                                         *)
(* hkdf ignores its info argument, so a key is its master key and its      *)
(* salt: contexts give names in the cache, not different keys.  A call is  *)
(* suspended where the code awaits; the code between is one action.        *)
(***************************************************************************)
EXTENDS Naturals, Sequences

CONSTANTS
    Graphs,       \* EncryptionService instances
    Tenants,      \* tenant ids, System among them
    System,       \* the literal 'system'
    NoTenant,     \* an absent or null tenantId
    Contexts,     \* 'users', 'files', '2fa_secret', 'snapshot', ...
    Rotated,      \* rotateKeys' list of contexts, a sequence
    Calls,        \* calls of the service
    MaxRestarts   \* bound on restarts of the process

ASSUME CustodyConstants ==
    /\ Graphs # {}
    /\ System \in Tenants /\ NoTenant \notin Tenants
    /\ Rotated \in Seq(Contexts) /\ Rotated # <<>>
    /\ MaxRestarts \in Nat

VARIABLES
    configured,  \* is ENCRYPTION_MASTER_KEY set and long enough?
    master,      \* is the static masterKey derived?
    salts,       \* saltCache: [Graphs -> [Tenants -> Nat]], 0 when absent
    keys,        \* hkdfCache: [Graphs -> [Keys -> Nat]], the salt of each cached key
    timers,      \* [Graphs -> [Keys -> Nat]], pending two-hour deletions
    stored,      \* ciphertexts kept outside the process
    call,        \* [Calls -> Call]
    fresh,       \* the next random salt
    restarts

vars == <<configured, master, salts, keys, timers, stored, call, fresh, restarts>>

Keys    == Tenants \X Contexts
Ciphers == [tenant: Tenants \cup {NoTenant}, salt: Nat, graph: Graphs, life: Nat]
Call    == [pc: {"idle", "master", "derive", "use", "done"},
            op: {"none", "encrypt", "decrypt", "rotate"},
            graph: Graphs, named: Tenants \cup {NoTenant}, tenant: Tenants,
            todo: Seq(Contexts), key: Nat, cipher: Ciphers, ok: BOOLEAN]

AnyGraph == CHOOSE g \in Graphs : TRUE
NoCipher == [tenant |-> NoTenant, salt |-> 0, graph |-> AnyGraph, life |-> 0]
NoCall   == [pc |-> "idle", op |-> "none", graph |-> AnyGraph, named |-> NoTenant,
             tenant |-> System, todo |-> <<>>, key |-> 0, cipher |-> NoCipher,
             ok |-> FALSE]

NoSalts == [g \in Graphs |-> [t \in Tenants |-> 0]]
NoKeys  == [g \in Graphs |-> [k \in Keys |-> 0]]

Init ==
    /\ configured \in BOOLEAN /\ master = FALSE
    /\ salts = NoSalts /\ keys = NoKeys /\ timers = NoKeys
    /\ stored = {} /\ fresh = 1 /\ restarts = 0
    /\ call = [c \in Calls |-> NoCall]

\* `tenantId || parsed.tenantId || 'system'`
Effective(t, written) ==
    IF t # NoTenant THEN t ELSE IF written # NoTenant THEN written ELSE System

-----------------------------------------------------------------------------
(* getTenantEncryptionKey, from the cache check to its first await.        *)

Lookup(c, r, cached) ==
    LET key == cached[<<r.tenant, Head(r.todo)>>]
    IN  call' = [call EXCEPT ![c] = IF key # 0 THEN [r EXCEPT !.pc = "use", !.key = key]
                                               ELSE [r EXCEPT !.pc = "master"]]

Begin(c, op, g, t, u, todo, e) ==
    [NoCall EXCEPT !.op = op, !.graph = g, !.named = t, !.tenant = Effective(t, u),
                   !.todo = todo, !.cipher = e]

\* encryptSensitiveData and encryptFile (context 'files').
Encrypt(c) == \E g \in Graphs, t \in Tenants \cup {NoTenant}, x \in Contexts :
    /\ call[c].pc = "idle"
    /\ Lookup(c, Begin(c, "encrypt", g, t, NoTenant, <<x>>, NoCipher), keys[g])
    /\ UNCHANGED <<configured, master, salts, keys, timers, stored, fresh, restarts>>

\* decryptSensitiveData and decryptFile: any instance may be handed any ciphertext.
Decrypt(c) == \E g \in Graphs, e \in stored, x \in Contexts, t \in Tenants \cup {NoTenant} :
    /\ call[c].pc = "idle"
    /\ t \in {NoTenant, e.tenant}
    /\ Lookup(c, Begin(c, "decrypt", g, t, e.tenant, <<x>>, e), keys[g])
    /\ UNCHANGED <<configured, master, salts, keys, timers, stored, fresh, restarts>>

\* Mutant: a rotation that also draws the new salt its name promises.
RotateNextMutantNewSalt(c, r) ==
    LET cached == [keys[r.graph] EXCEPT ![<<r.tenant, Head(r.todo)>>] = 0]
    IN  /\ keys' = [keys EXCEPT ![r.graph] = cached]
        /\ salts' = [salts EXCEPT ![r.graph][r.tenant] = 0]
        /\ Lookup(c, r, cached)

\* One turn of the loop of rotateKeys: forget the key, derive it again.
RotateNext(c, r) ==
    LET cached == [keys[r.graph] EXCEPT ![<<r.tenant, Head(r.todo)>>] = 0]
    IN  /\ keys' = [keys EXCEPT ![r.graph] = cached]
        /\ Lookup(c, r, cached)
        /\ UNCHANGED salts

\* rotateKeys of its list of contexts, or of the one it is given.
Rotate(c) == \E g \in Graphs, t \in Tenants, todo \in {Rotated} \cup {<<x>> : x \in Contexts} :
    /\ call[c].pc = "idle"
    /\ RotateNext(c, Begin(c, "rotate", g, t, NoTenant, todo, NoCipher))
    /\ UNCHANGED <<configured, master, timers, stored, fresh, restarts>>

-----------------------------------------------------------------------------
(* The rest of getTenantEncryptionKey.                                     *)

\* ensureMasterKeyInitialized has returned: getTenantSalt draws a salt once.
MasterReady(c) ==
    LET r == call[c]
        s == IF salts[r.graph][r.tenant] # 0 THEN salts[r.graph][r.tenant] ELSE fresh
    IN  /\ r.pc = "master" /\ (master \/ configured)
        /\ master' = TRUE
        /\ salts' = [salts EXCEPT ![r.graph][r.tenant] = s]
        /\ fresh' = IF s = fresh THEN fresh + 1 ELSE fresh
        /\ call' = [call EXCEPT ![c].pc = "derive", ![c].key = s]
        /\ UNCHANGED <<configured, keys, timers, stored, restarts>>

\* initializeMasterKey throws: encrypt and decrypt reject, rotateKeys is false.
MasterMissing(c) ==
    /\ call[c].pc = "master" /\ ~master /\ ~configured
    /\ call' = [call EXCEPT ![c].pc = "done"]
    /\ UNCHANGED <<configured, master, salts, keys, timers, stored, fresh, restarts>>

\* Mutant: the deletion is scheduled only once for a key.
DerivedMutantOneTimer(c) ==
    LET r == call[c]
        k == <<r.tenant, Head(r.todo)>>
    IN  /\ r.pc = "derive"
        /\ keys' = [keys EXCEPT ![r.graph][k] = r.key]
        /\ timers' = [timers EXCEPT ![r.graph][k] =
                         IF @ > 0 \/ r.op = "rotate" THEN @ ELSE 1]
        /\ call' = [call EXCEPT ![c].pc = "use"]
        /\ UNCHANGED <<configured, master, salts, stored, fresh, restarts>>

\* scrypt is done: cache the key and schedule its deletion.
Derived(c) ==
    LET r == call[c]
        k == <<r.tenant, Head(r.todo)>>
    IN  /\ r.pc = "derive"
        /\ keys' = [keys EXCEPT ![r.graph][k] = r.key]
        /\ timers' = [timers EXCEPT ![r.graph][k] = @ + 1]
        /\ call' = [call EXCEPT ![c].pc = "use"]
        /\ UNCHANGED <<configured, master, salts, stored, fresh, restarts>>

\* Mutant: the key is not awaited.
UseEncryptMutantNotAwaited(c) ==
    LET r == call[c]
    IN  /\ r.pc \in {"master", "derive", "use"} /\ r.op = "encrypt"
        /\ stored' = stored \cup {[tenant |-> r.named, salt |-> r.key,
                                   graph |-> r.graph, life |-> restarts]}
        /\ call' = [call EXCEPT ![c].pc = "done", ![c].ok = TRUE]
        /\ UNCHANGED <<configured, master, salts, keys, timers, fresh, restarts>>

UseEncrypt(c) ==
    LET r == call[c]
    IN  /\ r.pc = "use" /\ r.op = "encrypt"
        /\ stored' = stored \cup {[tenant |-> r.named, salt |-> r.key,
                                   graph |-> r.graph, life |-> restarts]}
        /\ call' = [call EXCEPT ![c].pc = "done", ![c].ok = TRUE]
        /\ UNCHANGED <<configured, master, salts, keys, timers, fresh, restarts>>

\* GCM accepts the ciphertext only under the key it was made with.
UseDecrypt(c) ==
    LET r == call[c]
    IN  /\ r.pc = "use" /\ r.op = "decrypt"
        /\ call' = [call EXCEPT ![c].pc = "done", ![c].ok = (r.key = r.cipher.salt)]
        /\ UNCHANGED <<configured, master, salts, keys, timers, stored, fresh, restarts>>

UseRotate(c) ==
    LET r == call[c]
        rest == Tail(r.todo)
    IN  /\ r.pc = "use" /\ r.op = "rotate"
        /\ IF rest = <<>>
           THEN /\ call' = [call EXCEPT ![c].pc = "done", ![c].ok = TRUE]
                /\ UNCHANGED <<keys, salts>>
           ELSE RotateNext(c, [r EXCEPT !.todo = rest])
        /\ UNCHANGED <<configured, master, timers, stored, fresh, restarts>>

Resume(c) == \/ MasterReady(c) \/ MasterMissing(c) \/ Derived(c)
             \/ UseEncrypt(c) \/ UseDecrypt(c) \/ UseRotate(c)

-----------------------------------------------------------------------------
(* Timers, start-up and restarts.                                          *)

\* A two-hour timer deletes whatever key has that name by then.
Expire(g, k) ==
    /\ timers[g][k] > 0
    /\ timers' = [timers EXCEPT ![g][k] = @ - 1]
    /\ keys' = [keys EXCEPT ![g][k] = 0]
    /\ UNCHANGED <<configured, master, salts, stored, call, fresh, restarts>>

\* onModuleInit: a missing master key is logged and start-up goes on.
ModuleInit ==
    /\ configured /\ ~master /\ master' = TRUE
    /\ UNCHANGED <<configured, salts, keys, timers, stored, call, fresh, restarts>>

Restart ==
    /\ restarts < MaxRestarts /\ restarts' = restarts + 1
    /\ master' = FALSE
    /\ salts' = NoSalts /\ keys' = NoKeys /\ timers' = NoKeys
    /\ call' = [c \in Calls |-> IF call[c].pc = "idle" THEN NoCall
                                ELSE [NoCall EXCEPT !.pc = "done"]]
    /\ UNCHANGED <<configured, stored, fresh>>

Next ==
    \/ \E c \in Calls : Encrypt(c) \/ Decrypt(c) \/ Rotate(c) \/ Resume(c)
    \/ \E g \in Graphs, k \in Keys : Expire(g, k)
    \/ ModuleInit
    \/ Restart

Spec == Init /\ [][Next]_vars

-----------------------------------------------------------------------------
(* Properties.                                                             *)

\* Every variable holds a value of its kind.
TypeOK ==
    /\ configured \in BOOLEAN /\ master \in BOOLEAN
    /\ salts \in [Graphs -> [Tenants -> Nat]]
    /\ keys \in [Graphs -> [Keys -> Nat]]
    /\ timers \in [Graphs -> [Keys -> Nat]]
    /\ stored \subseteq Ciphers
    /\ call \in [Calls -> Call]
    /\ fresh \in Nat \ {0} /\ restarts \in Nat

\* What one instance encrypted, the same instance decrypts until the process
\* ends, whatever keys were rotated, evicted or derived twice meanwhile.  (An
\* instance lives for one request when providers are request-scoped.)
SameInstanceDecrypts == \A c \in Calls :
    LET r == call[c]
    IN  (/\ r.op = "decrypt" /\ r.pc = "use"
         /\ r.cipher.graph = r.graph /\ r.cipher.life = restarts)
        => r.key = r.cipher.salt

\* A derived key never stays in memory for good: a deletion is pending for it,
\* though an older timer may delete a newer key before its two hours are over.
CachedKeysExpire == \A g \in Graphs, k \in Keys : keys[g][k] # 0 => timers[g][k] > 0

\* A cached key was derived from the salt its tenant has now.
CachedFromSalt == \A g \in Graphs, k \in Keys :
    keys[g][k] # 0 => keys[g][k] = salts[g][k[1]]

\* A call that holds a key holds the one of its tenant's salt.
HeldFromSalt == \A c \in Calls : call[c].pc \in {"derive", "use"} =>
    /\ call[c].key # 0
    /\ call[c].key = salts[call[c].graph][call[c].tenant]

\* So does a ciphertext, while the instance that made it lives.
StoredFromSalt == \A e \in stored :
    /\ e.life <= restarts
    /\ e.life = restarts => /\ e.salt # 0
                            /\ e.salt = salts[e.graph][Effective(NoTenant, e.tenant)]

\* A suspended call still has a key to derive, for the tenant it is about.
CallsHaveWork == \A c \in Calls : call[c].pc \in {"master", "derive", "use"} =>
    /\ call[c].todo # <<>>
    /\ call[c].op \in {"encrypt", "decrypt", "rotate"}
    /\ call[c].op = "encrypt" => call[c].tenant = Effective(NoTenant, call[c].named)
    /\ call[c].op = "decrypt" => /\ call[c].cipher \in stored
                                 /\ call[c].tenant = Effective(NoTenant, call[c].cipher.tenant)

\* The inductive invariant: all of these, with the type and the pending deletions.
IInv == /\ TypeOK /\ CachedFromSalt /\ HeldFromSalt /\ StoredFromSalt
        /\ CallsHaveWork /\ CachedKeysExpire
=============================================================================
