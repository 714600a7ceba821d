---------------------------- MODULE KeyRotation -----------------------------
(***************************************************************************)
(* KeyRotationService of s7-encryption: the two schedules of key rotation  *)
(* and the runs that timers, callers and emergencies start.  A run awaits  *)
(* one rotateKeys (KeyCustody!Rotate, which answers and never rejects)     *)
(* after another, so runs interleave with the shutdown and with each other.*)
(* Only the number of keys a run has left is kept.                         *)
(***************************************************************************)
EXTENDS Naturals

CONSTANTS
    Calls,         \* runs of a rotation
    TenantKeys,    \* length of the literal list of tenants (three in the code)
    SystemKeys,    \* length of the literal list of system contexts (four)
    AutoRotation   \* AUTO_KEY_ROTATION_ENABLED

VARIABLES
    schedule,   \* rotationSchedule: [Types -> Nat], 0 when there is no entry
    intervals,  \* live intervals: a set of <<type, id>>
    firsts,     \* [Types -> Nat], pending five-minute timers
    rotation,   \* [Calls -> Run]
    nextId, destroyed

vars == <<schedule, intervals, firsts, rotation, nextId, destroyed>>

Types == {"tenants", "system"}
Run   == [kind: {"none", "tenants", "system", "manual", "emergency", "over"},
          left: Nat, ok: BOOLEAN]
NoRun == [kind |-> "none", left |-> 0, ok |-> TRUE]
Over(b) == [kind |-> "over", left |-> 0, ok |-> b]

Keys(kind) == CASE kind = "tenants"   -> TenantKeys
                [] kind = "system"    -> SystemKeys
                [] kind = "manual"    -> 1
                [] kind = "emergency" -> TenantKeys + SystemKeys

\* The constructor has run: initializeKeyRotation with nothing scheduled.
Init ==
    /\ schedule = [t \in Types |-> IF ~AutoRotation THEN 0 ELSE IF t = "tenants" THEN 1 ELSE 2]
    /\ intervals = {<<t, schedule[t]>> : t \in Types} \ {<<t, 0>> : t \in Types}
    /\ firsts = [t \in Types |-> IF AutoRotation THEN 1 ELSE 0]
    /\ rotation = [c \in Calls |-> NoRun]
    /\ nextId = 3 /\ destroyed = FALSE

\* Mutant: scheduleRotation does not clear the interval it replaces.
ClearedMutantKeeps == intervals

\* clearInterval of every interval the map knows.
Cleared == {i \in intervals : i[2] # schedule[i[1]]}

\* scheduleRotation for both types, when it is enabled.
InitializeKeyRotation ==
    IF AutoRotation
    THEN /\ schedule' = [tenants |-> nextId, system |-> nextId + 1]
         /\ intervals' = Cleared \cup {<<"tenants", nextId>>, <<"system", nextId + 1>>}
         /\ firsts' = [t \in Types |-> firsts[t] + 1]
         /\ nextId' = nextId + 2
    ELSE UNCHANGED <<schedule, intervals, firsts, nextId>>

StopAllScheduledRotations ==
    /\ intervals' = Cleared
    /\ schedule' = [t \in Types |-> 0]
    /\ UNCHANGED <<firsts, nextId>>

Start(c, kind) ==
    /\ rotation[c].kind = "none"
    /\ rotation' = [rotation EXCEPT ![c] = [kind |-> kind, left |-> Keys(kind), ok |-> TRUE]]
    /\ UNCHANGED destroyed

\* performScheduledRotation, called by an interval.
Tick(c) ==
    /\ \E i \in intervals : Start(c, i[1])
    /\ UNCHANGED <<schedule, intervals, firsts, nextId>>

\* performScheduledRotation, called by a five-minute timer nobody can cancel.
FirstRun(c) == \E t \in Types :
    /\ firsts[t] > 0 /\ firsts' = [firsts EXCEPT ![t] = @ - 1]
    /\ Start(c, t)
    /\ UNCHANGED <<schedule, intervals, nextId>>

\* rotateSpecificTenantKeys and rotateSystemContextKeys.
Manual(c) == Start(c, "manual") /\ UNCHANGED <<schedule, intervals, firsts, nextId>>

\* emergencyKeyRotation, up to its first rotateKeys.
Emergency(c) == Start(c, "emergency") /\ StopAllScheduledRotations

\* One rotateKeys answers; a failure is remembered and the run goes on.
Rotated(c) ==
    /\ rotation[c].left > 0
    /\ \E ok \in {rotation[c].ok, FALSE} :
          rotation' = [rotation EXCEPT ![c].left = @ - 1, ![c].ok = ok]
    /\ UNCHANGED <<schedule, intervals, firsts, nextId, destroyed>>

\* Mutant: an emergency in which a key failed returns before the restart.
EndMutantOnlyOnSuccess(c) ==
    /\ rotation[c].kind \notin {"none", "over"} /\ rotation[c].left = 0
    /\ rotation' = [rotation EXCEPT ![c] = Over(@.ok)]
    /\ IF rotation[c].kind = "emergency" /\ rotation[c].ok
       THEN InitializeKeyRotation
       ELSE UNCHANGED <<schedule, intervals, firsts, nextId>>
    /\ UNCHANGED destroyed

\* The run is over; an emergency sets the schedules up again, failures or not.
End(c) ==
    /\ rotation[c].kind \notin {"none", "over"} /\ rotation[c].left = 0
    /\ rotation' = [rotation EXCEPT ![c] = Over(@.ok)]
    /\ IF rotation[c].kind = "emergency"
       THEN InitializeKeyRotation
       ELSE UNCHANGED <<schedule, intervals, firsts, nextId>>
    /\ UNCHANGED destroyed

\* onModuleDestroy: five-minute timers and runs in progress stay.
ModuleDestroy ==
    /\ ~destroyed /\ destroyed' = TRUE
    /\ StopAllScheduledRotations
    /\ UNCHANGED rotation

Next ==
    \/ \E c \in Calls : \/ Tick(c) \/ FirstRun(c) \/ Manual(c) \/ Emergency(c)
                        \/ Rotated(c) \/ End(c)
    \/ ModuleDestroy

Spec == Init /\ [][Next]_vars

-----------------------------------------------------------------------------
(* Properties.                                                             *)

\* Every variable holds a value of its kind.
TypeOK ==
    /\ schedule \in [Types -> Nat] /\ firsts \in [Types -> Nat]
    /\ intervals \subseteq Types \X Nat
    /\ rotation \in [Calls -> Run] /\ nextId \in Nat /\ destroyed \in BOOLEAN

Emergencies == {c \in Calls : rotation[c].kind = "emergency"}

\* A live interval is the one the map holds for its type, so that the next
\* emergency or a shutdown can stop it, even when emergencies overlap and end
\* one after the other (scheduleRotation, stopAllScheduledRotations).
IntervalsAreKnown == \A i \in intervals : schedule[i[1]] = i[2]

\* Rotation is switched off only by a shutdown or while an emergency is at work:
\* failing keys or overlapping emergencies do not leave it off.
RotationStaysOn ==
    AutoRotation /\ ~destroyed /\ Emergencies = {}
        => \A t \in Types : schedule[t] # 0 /\ <<t, schedule[t]>> \in intervals
=============================================================================
