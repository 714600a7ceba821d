-------------------------- MODULE KeyCustodyProofs --------------------------
(***************************************************************************)
(* For every set of instances, tenants, contexts and calls, and any number *)
(* of restarts: what an instance encrypted it decrypts, and no derived key *)
(* stays in memory without a pending deletion.                             *)
(*                                                                         *)
(* The argument: a salt, once drawn, never changes while its instance      *)
(* lives (SaltsAreKept), so a cached key, the key a suspended call holds   *)
(* and the key of a stored ciphertext are all the salt of their tenant.    *)
(***************************************************************************)
EXTENDS KeyCustody, TLAPS

-----------------------------------------------------------------------------

\* `tenantId || written || 'system'` is a tenant, and an absent argument and an
\* argument equal to the written one choose the same.
LEMMA EffectiveTenant ==
    ASSUME NEW u \in Tenants \cup {NoTenant}
    PROVE  /\ \A t \in Tenants \cup {NoTenant} : Effective(t, u) \in Tenants
           /\ \A t \in {NoTenant, u} : Effective(t, u) = Effective(NoTenant, u)
           /\ Effective(u, NoTenant) = Effective(NoTenant, u)
  BY CustodyConstants DEF Effective

\* The records a new call starts from.
LEMMA EmptyCall ==
    NoCall \in Call /\ NoCipher \in Ciphers
<1>1. AnyGraph \in Graphs
  BY CustodyConstants DEF AnyGraph
<1>2. NoCipher \in Ciphers
  BY <1>1 DEF NoCipher, Ciphers
<1>. QED
  BY <1>1, <1>2, CustodyConstants DEF NoCall, Call

\* Lookup changes one call: it holds the cached key, or awaits the master key.
LEMMA LookupStep ==
    ASSUME NEW c \in Calls, NEW r \in Call, NEW cached \in [Keys -> Nat],
           r.todo # <<>>, call \in [Calls -> Call], Lookup(c, r, cached)
    PROVE  /\ call' \in [Calls -> Call]
           /\ \A d \in Calls \ {c} : call'[d] = call[d]
           /\ call'[c].op = r.op /\ call'[c].graph = r.graph
           /\ call'[c].named = r.named /\ call'[c].tenant = r.tenant
           /\ call'[c].todo = r.todo /\ call'[c].cipher = r.cipher
           /\ \/ call'[c].pc = "master"
              \/ /\ call'[c].pc = "use" /\ call'[c].key # 0
                 /\ \E k \in Keys : k[1] = r.tenant /\ call'[c].key = cached[k]
<1>. DEFINE k == <<r.tenant, Head(r.todo)>>
            n == IF cached[k] # 0 THEN [r EXCEPT !.pc = "use", !.key = cached[k]]
                                  ELSE [r EXCEPT !.pc = "master"]
<1>1. k \in Keys
  <2>1. r.tenant \in Tenants /\ r.todo \in Seq(Contexts)
    BY DEF Call
  <2>2. Head(r.todo) \in Contexts
    BY <2>1
  <2>. QED
    BY <2>1, <2>2 DEF Keys
<1>2. cached[k] \in Nat
  BY <1>1
<1>3. n \in Call /\ call' = [call EXCEPT ![c] = n]
  BY <1>2 DEF Lookup, Call
<1>4. call' \in [Calls -> Call] /\ \A d \in Calls \ {c} : call'[d] = call[d]
  BY <1>3
<1>5. call'[c] = n
  BY <1>3
<1>. QED
  <2>1. CASE cached[k] # 0
    <3>1. n = [r EXCEPT !.pc = "use", !.key = cached[k]]
      BY <2>1
    <3>. HIDE DEF n, k
    <3>2. /\ n.op = r.op /\ n.graph = r.graph /\ n.named = r.named
          /\ n.tenant = r.tenant /\ n.todo = r.todo /\ n.cipher = r.cipher
          /\ n.pc = "use" /\ n.key = cached[k]
      BY <3>1 DEF Call
    <3>3. k[1] = r.tenant
      BY DEF k
    <3>. QED
      BY <1>1, <1>4, <1>5, <2>1, <3>2, <3>3
  <2>2. CASE cached[k] = 0
    <3>1. n = [r EXCEPT !.pc = "master"]
      BY <2>2
    <3>. HIDE DEF n
    <3>2. /\ n.op = r.op /\ n.graph = r.graph /\ n.named = r.named
          /\ n.tenant = r.tenant /\ n.todo = r.todo /\ n.cipher = r.cipher
          /\ n.pc = "master"
      BY <3>1 DEF Call
    <3>. QED
      BY <1>4, <1>5, <3>2
  <2>. QED
    BY <2>1, <2>2

-----------------------------------------------------------------------------

\* The initial state satisfies the invariant.
LEMMA InitIInv == Init => IInv
<1>. SUFFICES ASSUME Init PROVE IInv
  OBVIOUS
<1>1. NoCall \in Call /\ NoCall.pc = "idle"
  BY EmptyCall DEF NoCall
<1>2. TypeOK
  <2>1. salts \in [Graphs -> [Tenants -> Nat]]
    BY DEF Init, NoSalts
  <2>2. keys \in [Graphs -> [Keys -> Nat]] /\ timers \in [Graphs -> [Keys -> Nat]]
    BY DEF Init, NoKeys
  <2>3. call \in [Calls -> Call]
    BY <1>1 DEF Init
  <2>4. configured \in BOOLEAN /\ master \in BOOLEAN
    BY Zenon DEF Init
  <2>5. stored \subseteq Ciphers /\ fresh \in Nat \ {0} /\ restarts \in Nat
    BY DEF Init
  <2>. QED
    BY <2>1, <2>2, <2>3, <2>4, <2>5, Zenon DEF TypeOK
<1>3. CachedFromSalt /\ StoredFromSalt /\ CachedKeysExpire
  BY DEF Init, NoKeys, CachedFromSalt, StoredFromSalt, CachedKeysExpire
<1>4. HeldFromSalt /\ CallsHaveWork
  BY <1>1 DEF Init, HeldFromSalt, CallsHaveWork
<1>. QED
  BY <1>2, <1>3, <1>4 DEF IInv

\* A new call that only looks its key up.
LEMMA StartStep ==
    ASSUME IInv, NEW c \in Calls, NEW r \in Call, r.todo # <<>>,
           r.op \in {"encrypt", "decrypt", "rotate"},
           r.op = "encrypt" => r.tenant = Effective(NoTenant, r.named),
           r.op = "decrypt" => /\ r.cipher \in stored
                               /\ r.tenant = Effective(NoTenant, r.cipher.tenant),
           Lookup(c, r, keys'[r.graph]),
           keys' \in [Graphs -> [Keys -> Nat]],
           \A g \in Graphs, k \in Keys : keys'[g][k] \in {0, keys[g][k]},
           UNCHANGED <<configured, master, salts, timers, stored, fresh, restarts>>
    PROVE  IInv'
<1>. USE DEF IInv
<1>1. r.graph \in Graphs /\ keys'[r.graph] \in [Keys -> Nat]
  BY DEF Call
<1>2. call \in [Calls -> Call]
  BY DEF TypeOK
<1>3. /\ call' \in [Calls -> Call]
      /\ \A d \in Calls \ {c} : call'[d] = call[d]
      /\ call'[c].op = r.op /\ call'[c].graph = r.graph
      /\ call'[c].named = r.named /\ call'[c].tenant = r.tenant
      /\ call'[c].todo = r.todo /\ call'[c].cipher = r.cipher
      /\ \/ call'[c].pc = "master"
         \/ /\ call'[c].pc = "use" /\ call'[c].key # 0
            /\ \E k \in Keys : k[1] = r.tenant /\ call'[c].key = keys'[r.graph][k]
  <2>. HIDE DEF IInv
  <2>. QED
    BY LookupStep, <1>1, <1>2
<1>4. TypeOK'
  BY <1>3 DEF TypeOK
<1>5. CachedFromSalt' /\ CachedKeysExpire'
  BY DEF CachedFromSalt, CachedKeysExpire, TypeOK
<1>6. HeldFromSalt'
  BY <1>1, <1>3, <1>5 DEF HeldFromSalt, CachedFromSalt
<1>7. StoredFromSalt'
  BY DEF StoredFromSalt
<1>8. CallsHaveWork'
  BY <1>3 DEF CallsHaveWork
<1>. QED
  BY <1>4, <1>5, <1>6, <1>7, <1>8

\* Every step of the service preserves the invariant.
LEMMA NextIInv == IInv /\ [Next]_vars => IInv'
<1>. SUFFICES ASSUME IInv, [Next]_vars PROVE IInv'
  OBVIOUS
<1>type. TypeOK /\ \A c \in Calls : call[c] \in Call
  BY DEF IInv, TypeOK
<1>seq. \A x \in Contexts : <<x>> \in Seq(Contexts) /\ <<x>> # <<>>
  OBVIOUS
<1>1. CASE UNCHANGED vars
  BY <1>1 DEF vars, IInv, TypeOK, CachedFromSalt, HeldFromSalt, StoredFromSalt,
              CallsHaveWork, CachedKeysExpire
<1>done. ASSUME NEW c \in Calls, NEW b \in BOOLEAN,
                call' = [call EXCEPT ![c].pc = "done", ![c].ok = b],
                stored \subseteq stored', stored' \subseteq Ciphers,
                UNCHANGED <<configured, master, salts, keys, timers, fresh, restarts>>,
                \A e \in stored' \ stored : /\ e.life = restarts /\ e.salt # 0
                    /\ e.salt = salts[e.graph][Effective(NoTenant, e.tenant)]
         PROVE  IInv'
  <2>1. call' \in [Calls -> Call]
    <3>1. [call[c] EXCEPT !.pc = "done", !.ok = b] \in Call
      BY <1>type DEF Call
    <3>. QED
      BY <1>done, <1>type, <3>1 DEF TypeOK
  <2>2. TypeOK'
    BY <1>done, <1>type, <2>1 DEF TypeOK
  <2>3. call'[c].pc = "done" /\ \A d \in Calls \ {c} : call'[d] = call[d]
    <3>1. call'[c] = [call[c] EXCEPT !.pc = "done", !.ok = b]
      BY <1>done, <1>type DEF TypeOK
    <3>2. call'[c].pc = "done"
      BY <1>type, <3>1 DEF Call
    <3>. QED
      BY <1>done, <1>type, <3>2 DEF TypeOK
  <2>4. CachedFromSalt' /\ CachedKeysExpire'
    BY <1>done DEF IInv, CachedFromSalt, CachedKeysExpire
  <2>5. HeldFromSalt' /\ CallsHaveWork'
    BY <1>done, <2>3 DEF IInv, HeldFromSalt, CallsHaveWork
  <2>6. StoredFromSalt'
    BY <1>done, <1>type DEF IInv, StoredFromSalt, TypeOK
  <2>. QED
    BY <2>2, <2>4, <2>5, <2>6 DEF IInv
<1>2. ASSUME NEW c \in Calls, Encrypt(c) PROVE IInv'
  <2>1. PICK g \in Graphs, t \in Tenants \cup {NoTenant}, x \in Contexts :
            /\ Lookup(c, Begin(c, "encrypt", g, t, NoTenant, <<x>>, NoCipher), keys[g])
            /\ UNCHANGED <<configured, master, salts, keys, timers, stored, fresh, restarts>>
    BY <1>2 DEF Encrypt
  <2>. DEFINE r == Begin(c, "encrypt", g, t, NoTenant, <<x>>, NoCipher)
  <2>2. /\ r \in Call /\ r.op = "encrypt" /\ r.graph = g /\ r.named = t
        /\ r.tenant = Effective(t, NoTenant) /\ r.todo = <<x>>
    BY EmptyCall, EffectiveTenant, <1>seq DEF Begin, Call
  <2>3. r.tenant = Effective(NoTenant, r.named)
    BY <2>2, EffectiveTenant
  <2>4. keys' \in [Graphs -> [Keys -> Nat]]
    BY <1>type, <2>1 DEF TypeOK
  <2>5. \A h \in Graphs, k \in Keys : keys'[h][k] \in {0, keys[h][k]}
    BY <2>1
  <2>6. Lookup(c, r, keys'[r.graph])
    BY <2>1, <2>2
  <2>. HIDE DEF r
  <2>. QED
    BY <1>seq, <2>1, <2>2, <2>3, <2>4, <2>5, <2>6, StartStep
<1>3. ASSUME NEW c \in Calls, Decrypt(c) PROVE IInv'
  <2>1. PICK g \in Graphs, e \in stored, x \in Contexts, t \in Tenants \cup {NoTenant} :
            /\ t \in {NoTenant, e.tenant}
            /\ Lookup(c, Begin(c, "decrypt", g, t, e.tenant, <<x>>, e), keys[g])
            /\ UNCHANGED <<configured, master, salts, keys, timers, stored, fresh, restarts>>
    BY <1>3 DEF Decrypt
  <2>. DEFINE r == Begin(c, "decrypt", g, t, e.tenant, <<x>>, e)
  <2>e. e \in Ciphers /\ e.tenant \in Tenants \cup {NoTenant}
    BY <1>type DEF TypeOK, Ciphers
  <2>2. /\ r \in Call /\ r.op = "decrypt" /\ r.graph = g
        /\ r.tenant = Effective(t, e.tenant) /\ r.todo = <<x>> /\ r.cipher = e
    BY EmptyCall, EffectiveTenant, <2>e, <1>seq DEF Begin, Call
  <2>3. r.tenant = Effective(NoTenant, r.cipher.tenant)
    BY <2>1, <2>2, <2>e, EffectiveTenant
  <2>4. keys' \in [Graphs -> [Keys -> Nat]]
    BY <1>type, <2>1 DEF TypeOK
  <2>5. \A h \in Graphs, k \in Keys : keys'[h][k] \in {0, keys[h][k]}
    BY <2>1
  <2>6. Lookup(c, r, keys'[r.graph])
    BY <2>1, <2>2
  <2>. HIDE DEF r
  <2>. QED
    BY <1>seq, <2>1, <2>2, <2>3, <2>4, <2>5, <2>6, StartStep
<1>rot. ASSUME NEW c \in Calls, NEW r \in Call, r.todo # <<>>, r.op = "rotate",
               RotateNext(c, r),
               UNCHANGED <<configured, master, timers, stored, fresh, restarts>>
        PROVE  IInv'
  <2>. DEFINE k == <<r.tenant, Head(r.todo)>>
              cached == [keys[r.graph] EXCEPT ![k] = 0]
  <2>1. /\ keys' = [keys EXCEPT ![r.graph] = cached]
        /\ Lookup(c, r, cached) /\ UNCHANGED salts
    BY <1>rot DEF RotateNext
  <2>2. r.graph \in Graphs
    BY DEF Call
  <2>3. keys[r.graph] \in [Keys -> Nat]
    BY <1>type, <2>2 DEF TypeOK
  <2>4. cached \in [Keys -> Nat] /\ \A h \in Keys : cached[h] \in {0, keys[r.graph][h]}
    BY <2>3
  <2>5. keys'[r.graph] = cached
    BY <1>type, <2>1, <2>2 DEF TypeOK
  <2>. HIDE DEF cached
  <2>6. keys' \in [Graphs -> [Keys -> Nat]]
    BY <1>type, <2>1, <2>2, <2>4 DEF TypeOK
  <2>7. \A h \in Graphs, i \in Keys : keys'[h][i] \in {0, keys[h][i]}
    BY <1>type, <2>1, <2>4, <2>5 DEF TypeOK
  <2>. QED
    BY <1>rot, <2>1, <2>5, <2>6, <2>7, StartStep
<1>4. ASSUME NEW c \in Calls, Rotate(c) PROVE IInv'
  <2>1. PICK g \in Graphs, t \in Tenants, todo \in {Rotated} \cup {<<x>> : x \in Contexts} :
            /\ RotateNext(c, Begin(c, "rotate", g, t, NoTenant, todo, NoCipher))
            /\ UNCHANGED <<configured, master, timers, stored, fresh, restarts>>
    BY <1>4 DEF Rotate
  <2>2. todo \in Seq(Contexts) /\ todo # <<>>
    BY <1>seq, CustodyConstants
  <2>. DEFINE r == Begin(c, "rotate", g, t, NoTenant, todo, NoCipher)
  <2>3. r \in Call /\ r.op = "rotate" /\ r.todo = todo
    BY EmptyCall, EffectiveTenant, <2>2 DEF Begin, Call
  <2>. HIDE DEF r
  <2>4. RotateNext(c, r)
    BY <2>1 DEF r
  <2>. QED
    BY <1>rot, <2>1, <2>2, <2>3, <2>4
<1>5. ASSUME NEW c \in Calls, UseRotate(c) PROVE IInv'
  <2>. DEFINE r == call[c]
              s == [r EXCEPT !.todo = Tail(r.todo)]
  <2>0. r \in Call /\ r.pc = "use" /\ r.op = "rotate" /\ r.todo # <<>>
    BY <1>5, <1>type DEF UseRotate, IInv, CallsHaveWork
  <2>1. CASE Tail(r.todo) # <<>>
    <3>1. /\ RotateNext(c, s)
          /\ UNCHANGED <<configured, master, timers, stored, fresh, restarts>>
      BY <1>5, <2>1 DEF UseRotate
    <3>2. Tail(r.todo) \in Seq(Contexts)
      BY <2>0 DEF Call
    <3>3. s \in Call /\ s.op = "rotate" /\ s.todo # <<>>
      BY <2>0, <2>1, <3>2 DEF Call
    <3>. HIDE DEF s
    <3>. QED
      BY <1>rot, <3>1, <3>3
  <2>2. CASE Tail(r.todo) = <<>>
    <3>1. /\ call' = [call EXCEPT ![c].pc = "done", ![c].ok = TRUE]
          /\ UNCHANGED <<configured, master, salts, keys, timers, stored, fresh, restarts>>
      BY <1>5, <2>2 DEF UseRotate
    <3>. QED
      BY <1>done, <1>type, <3>1 DEF TypeOK
  <2>. QED
    BY <2>1, <2>2
<1>6. ASSUME NEW c \in Calls, UseEncrypt(c) PROVE IInv'
  <2>. DEFINE r == call[c]
              e == [tenant |-> r.named, salt |-> r.key, graph |-> r.graph, life |-> restarts]
  <2>0. /\ r \in Call /\ r.pc = "use" /\ r.op = "encrypt" /\ r.key # 0
        /\ r.key = salts[r.graph][r.tenant] /\ r.tenant = Effective(NoTenant, r.named)
    BY <1>6, <1>type DEF UseEncrypt, IInv, HeldFromSalt, CallsHaveWork
  <2>1. /\ stored' = stored \cup {e}
        /\ call' = [call EXCEPT ![c].pc = "done", ![c].ok = TRUE]
        /\ UNCHANGED <<configured, master, salts, keys, timers, fresh, restarts>>
    BY <1>6 DEF UseEncrypt
  <2>2. e \in Ciphers
    BY <2>0, <1>type DEF Call, Ciphers, TypeOK
  <2>3. /\ e.life = restarts /\ e.salt # 0
        /\ e.salt = salts[e.graph][Effective(NoTenant, e.tenant)]
    BY <2>0
  <2>. HIDE DEF e
  <2>4. stored' \subseteq Ciphers
    BY <1>type, <2>1, <2>2 DEF TypeOK
  <2>. QED
    BY <1>done, <2>1, <2>3, <2>4
<1>7. ASSUME NEW c \in Calls, UseDecrypt(c) \/ MasterMissing(c) PROVE IInv'
  <2>1. PICK b \in BOOLEAN :
            /\ call' = [call EXCEPT ![c].pc = "done", ![c].ok = b]
            /\ UNCHANGED <<configured, master, salts, keys, timers, stored, fresh, restarts>>
    <3>1. CASE UseDecrypt(c)
      BY <3>1 DEF UseDecrypt
    <3>2. CASE MasterMissing(c)
      <4>1. call' = [call EXCEPT ![c].pc = "done"]
        BY <3>2 DEF MasterMissing
      <4>2. call[c].ok \in BOOLEAN
        BY <1>type DEF Call
      <4>3. call[c] = [call[c] EXCEPT !.ok = call[c].ok]
        BY <1>type DEF Call
      <4>4. [call[c] EXCEPT !.pc = "done"]
                = [call[c] EXCEPT !.pc = "done", !.ok = call[c].ok]
        BY <1>type DEF Call
      <4>5. call' = [call EXCEPT ![c].pc = "done", ![c].ok = call[c].ok]
        BY <4>1, <4>4, <1>type DEF TypeOK
      <4>. QED
        BY <3>2, <4>2, <4>5 DEF MasterMissing
    <3>. QED
      BY <1>7, <3>1, <3>2
  <2>. QED
    BY <1>done, <1>type, <2>1 DEF TypeOK
<1>8. ASSUME NEW c \in Calls, MasterReady(c) PROVE IInv'
  <2>. DEFINE r == call[c]
              s == IF salts[r.graph][r.tenant] # 0 THEN salts[r.graph][r.tenant] ELSE fresh
  <2>0. /\ r \in Call /\ r.pc = "master" /\ r.graph \in Graphs /\ r.tenant \in Tenants
    BY <1>8, <1>type DEF MasterReady, Call
  <2>1. s \in Nat \ {0}
    BY <2>0, <1>type DEF TypeOK
  <2>2. /\ master' = TRUE
        /\ salts' = [salts EXCEPT ![r.graph][r.tenant] = s]
        /\ fresh' = IF s = fresh THEN fresh + 1 ELSE fresh
        /\ call' = [call EXCEPT ![c].pc = "derive", ![c].key = s]
        /\ UNCHANGED <<configured, keys, timers, stored, restarts>>
    BY <1>8 DEF MasterReady
  <2>3. \A g \in Graphs, t \in Tenants : salts[g][t] # 0 => salts'[g][t] = salts[g][t]
    BY <2>0, <2>2, <1>type DEF TypeOK
  <2>4. salts'[r.graph][r.tenant] = s
    BY <2>0, <2>2, <1>type DEF TypeOK
  <2>5. salts' \in [Graphs -> [Tenants -> Nat]]
    BY <2>0, <2>1, <2>2, <1>type DEF TypeOK
  <2>s. s \in Nat /\ s # 0
    BY <2>1
  <2>. HIDE DEF s
  <2>6. [r EXCEPT !.pc = "derive", !.key = s] \in Call
    BY <2>0, <2>1 DEF Call
  <2>7. /\ call'[c] = [r EXCEPT !.pc = "derive", !.key = s]
        /\ \A d \in Calls \ {c} : call'[d] = call[d]
        /\ call' \in [Calls -> Call]
    BY <2>2, <2>6, <1>type DEF TypeOK
  <2>8. /\ call'[c].pc = "derive" /\ call'[c].key = s /\ call'[c].graph = r.graph
        /\ call'[c].tenant = r.tenant /\ call'[c].todo = r.todo /\ call'[c].op = r.op
        /\ call'[c].cipher = r.cipher /\ call'[c].named = r.named
    BY <2>0, <2>7 DEF Call
  <2>9. TypeOK'
    <3>1. fresh' \in Nat \ {0} /\ master' \in BOOLEAN
      BY <1>type, <2>2 DEF TypeOK
    <3>. QED
      BY <1>type, <2>2, <2>5, <2>7, <3>1 DEF TypeOK
  <2>10. CachedFromSalt' /\ CachedKeysExpire'
    BY <2>2, <2>3, <1>type DEF IInv, CachedFromSalt, CachedKeysExpire, TypeOK, Keys
  <2>11. HeldFromSalt'
    <3>1. \A d \in Calls \ {c} : call[d].graph \in Graphs /\ call[d].tenant \in Tenants
      BY <1>type DEF Call
    <3>2. ASSUME NEW d \in Calls \ {c}, call'[d].pc \in {"derive", "use"}
          PROVE  /\ call'[d].key # 0
                 /\ call'[d].key = salts'[call'[d].graph][call'[d].tenant]
      BY <2>3, <2>7, <3>1, <3>2 DEF IInv, HeldFromSalt
    <3>3. call'[c].key # 0 /\ call'[c].key = salts'[call'[c].graph][call'[c].tenant]
      BY <2>1, <2>4, <2>8
    <3>. HIDE DEF r
    <3>. QED
      BY <3>2, <3>3 DEF HeldFromSalt
  <2>12. StoredFromSalt'
    <3>1. \A e \in stored : e.graph \in Graphs /\ Effective(NoTenant, e.tenant) \in Tenants
      BY <1>type, EffectiveTenant DEF TypeOK, Ciphers
    <3>. QED
      BY <2>2, <2>3, <3>1 DEF IInv, StoredFromSalt
  <2>13. CallsHaveWork'
    BY <2>0, <2>2, <2>7, <2>8 DEF IInv, CallsHaveWork
  <2>. QED
    BY <2>9, <2>10, <2>11, <2>12, <2>13 DEF IInv
<1>9. ASSUME NEW c \in Calls, Derived(c) PROVE IInv'
  <2>. DEFINE r == call[c]
              k == <<r.tenant, Head(r.todo)>>
  <2>0. /\ r \in Call /\ r.pc = "derive" /\ r.graph \in Graphs /\ r.key \in Nat
        /\ r.key # 0 /\ r.key = salts[r.graph][r.tenant] /\ r.todo # <<>>
    BY <1>9, <1>type DEF Derived, Call, IInv, HeldFromSalt, CallsHaveWork
  <2>1. k \in Keys /\ k[1] = r.tenant
    <3>1. r.tenant \in Tenants /\ r.todo \in Seq(Contexts)
      BY <2>0 DEF Call
    <3>2. Head(r.todo) \in Contexts
      BY <2>0, <3>1
    <3>. QED
      BY <3>1, <3>2 DEF Keys
  <2>2. /\ keys' = [keys EXCEPT ![r.graph][k] = r.key]
        /\ timers' = [timers EXCEPT ![r.graph][k] = timers[r.graph][k] + 1]
        /\ call' = [call EXCEPT ![c].pc = "use"]
        /\ UNCHANGED <<configured, master, salts, stored, fresh, restarts>>
    BY <1>9 DEF Derived
  <2>. HIDE DEF k
  <2>3. /\ keys' \in [Graphs -> [Keys -> Nat]]
        /\ \A g \in Graphs, i \in Keys : keys'[g][i] = keys[g][i]
                                         \/ (g = r.graph /\ i = k /\ keys'[g][i] = r.key)
    <3>. DEFINE row == [keys[r.graph] EXCEPT ![k] = r.key]
    <3>1. keys' = [keys EXCEPT ![r.graph] = row]
      BY <2>2
    <3>2. keys \in [Graphs -> [Keys -> Nat]] /\ keys[r.graph] \in [Keys -> Nat]
      BY <2>0, <1>type DEF TypeOK
    <3>3. /\ row \in [Keys -> Nat]
          /\ \A i \in Keys : row[i] = keys[r.graph][i] \/ (i = k /\ row[i] = r.key)
      <4>1. r.key \in Nat
        BY <2>0
      <4>. HIDE DEF r
      <4>. QED
        BY <2>1, <3>2, <4>1
    <3>4. r.graph \in Graphs
      BY <2>0
    <3>. HIDE DEF row, r
    <3>5. keys'[r.graph] = row /\ \A g \in Graphs : g # r.graph => keys'[g] = keys[g]
      BY <3>1, <3>2, <3>4
    <3>6. keys' \in [Graphs -> [Keys -> Nat]]
      BY <3>1, <3>2, <3>3, <3>4
    <3>7. ASSUME NEW g \in Graphs, NEW i \in Keys
          PROVE  keys'[g][i] = keys[g][i] \/ (g = r.graph /\ i = k /\ keys'[g][i] = r.key)
      BY <3>3, <3>5
    <3>. QED
      BY <3>6, <3>7
  <2>4. /\ timers' \in [Graphs -> [Keys -> Nat]]
        /\ \A g \in Graphs, i \in Keys : timers'[g][i] >= timers[g][i]
        /\ timers'[r.graph][k] > 0
    BY <2>0, <2>1, <2>2, <1>type DEF TypeOK
  <2>5. [r EXCEPT !.pc = "use"] \in Call
    BY <2>0 DEF Call
  <2>6. /\ call'[c] = [r EXCEPT !.pc = "use"] /\ call' \in [Calls -> Call]
        /\ \A d \in Calls \ {c} : call'[d] = call[d]
    BY <2>2, <2>5, <1>type DEF TypeOK
  <2>7. /\ call'[c].pc = "use" /\ call'[c].key = r.key /\ call'[c].graph = r.graph
        /\ call'[c].tenant = r.tenant /\ call'[c].todo = r.todo /\ call'[c].op = r.op
        /\ call'[c].cipher = r.cipher /\ call'[c].named = r.named
    BY <2>0, <2>6 DEF Call
  <2>8. TypeOK'
    BY <1>type, <2>2, <2>3, <2>4, <2>6 DEF TypeOK
  <2>9. CachedFromSalt'
    BY <2>0, <2>1, <2>2, <2>3 DEF IInv, CachedFromSalt
  <2>10. CachedKeysExpire'
    <3>1. SUFFICES ASSUME NEW g \in Graphs, NEW i \in Keys, keys'[g][i] # 0
                   PROVE  timers'[g][i] > 0
      BY DEF CachedKeysExpire
    <3>2. CASE g = r.graph /\ i = k
      BY <2>4, <3>2
    <3>3. CASE keys'[g][i] = keys[g][i]
      <4>1. timers[g][i] > 0 /\ timers[g][i] \in Nat
        BY <1>type, <3>1, <3>3 DEF IInv, CachedKeysExpire, TypeOK
      <4>2. timers'[g][i] \in Nat
        BY <2>4
      <4>. QED
        BY <2>4, <4>1, <4>2
    <3>. QED
      BY <2>3, <3>2, <3>3
  <2>11. HeldFromSalt' /\ CallsHaveWork'
    BY <2>0, <2>2, <2>6, <2>7 DEF IInv, HeldFromSalt, CallsHaveWork
  <2>12. StoredFromSalt'
    BY <2>2 DEF IInv, StoredFromSalt
  <2>. QED
    BY <2>8, <2>9, <2>10, <2>11, <2>12 DEF IInv
<1>10. ASSUME NEW g \in Graphs, NEW k \in Keys, Expire(g, k) PROVE IInv'
  <2>1. /\ keys' \in [Graphs -> [Keys -> Nat]]
        /\ \A h \in Graphs, i \in Keys : keys'[h][i] = IF h = g /\ i = k THEN 0 ELSE keys[h][i]
    BY <1>10, <1>type DEF Expire, TypeOK
  <2>2. /\ timers' \in [Graphs -> [Keys -> Nat]]
        /\ \A h \in Graphs, i \in Keys : (h = g /\ i = k) \/ timers'[h][i] = timers[h][i]
    BY <1>10, <1>type DEF Expire, TypeOK
  <2>3. UNCHANGED <<configured, master, salts, stored, call, fresh, restarts>>
    BY <1>10 DEF Expire
  <2>4. TypeOK'
    BY <1>type, <2>1, <2>2, <2>3 DEF TypeOK
  <2>5. CachedFromSalt' /\ CachedKeysExpire'
    <3>1. CachedFromSalt'
      BY <2>1, <2>3 DEF IInv, CachedFromSalt
    <3>2. CachedKeysExpire'
      BY <2>1, <2>2 DEF IInv, CachedKeysExpire
    <3>. QED
      BY <3>1, <3>2
  <2>6. HeldFromSalt' /\ StoredFromSalt' /\ CallsHaveWork'
    BY <2>3 DEF IInv, HeldFromSalt, StoredFromSalt, CallsHaveWork
  <2>. QED
    BY <2>4, <2>5, <2>6 DEF IInv
<1>11. ASSUME ModuleInit PROVE IInv'
  BY <1>11 DEF ModuleInit, IInv, TypeOK, CachedFromSalt, HeldFromSalt, StoredFromSalt,
               CallsHaveWork, CachedKeysExpire
<1>12. ASSUME Restart PROVE IInv'
  <2>. DEFINE over == [NoCall EXCEPT !.pc = "done"]
  <2>1. /\ NoCall \in Call /\ NoCall.pc = "idle" /\ over \in Call /\ over.pc = "done"
    BY EmptyCall DEF NoCall, Call
  <2>. HIDE DEF over
  <2>2. /\ master' = FALSE /\ salts' = NoSalts /\ keys' = NoKeys /\ timers' = NoKeys
        /\ call' = [c \in Calls |-> IF call[c].pc = "idle" THEN NoCall ELSE over]
        /\ restarts' = restarts + 1 /\ UNCHANGED <<configured, stored, fresh>>
    BY <1>12 DEF Restart, over
  <2>3. call' \in [Calls -> Call] /\ \A c \in Calls : call'[c].pc \in {"idle", "done"}
    BY <2>1, <2>2
  <2>4. /\ salts' \in [Graphs -> [Tenants -> Nat]]
        /\ keys' \in [Graphs -> [Keys -> Nat]] /\ timers' \in [Graphs -> [Keys -> Nat]]
    BY <2>2 DEF NoSalts, NoKeys
  <2>5. configured' \in BOOLEAN /\ master' \in BOOLEAN
    BY <1>type, <2>2, Zenon DEF TypeOK
  <2>6. stored' \subseteq Ciphers /\ fresh' \in Nat \ {0} /\ restarts' \in Nat
    BY <1>type, <2>2 DEF TypeOK
  <2>7. TypeOK'
    BY <2>3, <2>4, <2>5, <2>6, Zenon DEF TypeOK
  <2>8. CachedFromSalt' /\ CachedKeysExpire'
    BY <2>2 DEF NoKeys, CachedFromSalt, CachedKeysExpire
  <2>9. HeldFromSalt' /\ CallsHaveWork'
    BY <2>3 DEF HeldFromSalt, CallsHaveWork
  <2>10. StoredFromSalt'
    BY <1>type, <2>2 DEF IInv, StoredFromSalt, TypeOK, Ciphers
  <2>. QED
    BY <2>7, <2>8, <2>9, <2>10 DEF IInv
<1>. QED
  BY <1>1, <1>2, <1>3, <1>4, <1>5, <1>6, <1>7, <1>8, <1>9, <1>10, <1>11, <1>12
  DEF Next, Resume

-----------------------------------------------------------------------------

\* The strengthened invariant holds in every behaviour.
THEOREM KeysComeFromSalts == Spec => []IInv
  BY InitIInv, NextIInv, PTL DEF Spec

\* The state of the service is well typed in every behaviour.
THEOREM CustodyTypeCorrect == Spec => []TypeOK
<1>1. IInv => TypeOK
  BY DEF IInv
<1>. QED
  BY <1>1, KeysComeFromSalts, PTL

\* An instance decrypts what it encrypted: the salt of a tenant is kept through
\* rotations, expiries and calls that interleave at every await.
THEOREM InstanceDecryptsItsOwn == Spec => []SameInstanceDecrypts
<1>1. IInv => SameInstanceDecrypts
  <2>1. SUFFICES ASSUME IInv, NEW c \in Calls,
                        call[c].op = "decrypt", call[c].pc = "use",
                        call[c].cipher.graph = call[c].graph, call[c].cipher.life = restarts
                 PROVE  call[c].key = call[c].cipher.salt
    BY DEF SameInstanceDecrypts
  <2>. QED
    BY <2>1 DEF IInv, HeldFromSalt, StoredFromSalt, CallsHaveWork
<1>. QED
  BY <1>1, KeysComeFromSalts, PTL

\* A cached key always has a deletion pending, so no key outlives its two hours
\* in memory, however often it was rotated or derived by two calls at once.
THEOREM KeysExpire == Spec => []CachedKeysExpire
<1>1. IInv => CachedKeysExpire
  BY DEF IInv
<1>. QED
  BY <1>1, KeysComeFromSalts, PTL
=============================================================================
