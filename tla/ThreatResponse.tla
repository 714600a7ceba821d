--------------------------- MODULE ThreatResponse ----------------------------
(***************************************************************************)
(* AutomatedResponseService: a threat's level names a list of actions,     *)
(* which run one after the other and are then recorded.  Only BLOCK_IP     *)
(* does more than log: it asks BruteForceProtectionService to block an     *)
(* address, and that call answers nothing, whether it blocked or not.      *)
(* Threats are handled at once with others, and Redis may fail under any   *)
(* of them.                                                                *)
(***************************************************************************)
EXTENDS Naturals, Sequences

CONSTANTS
    Calls,       \* calls of the service
    Ips, NoIp,   \* addresses, and a threat that names none
    MaxFaults    \* bound on Redis failures

VARIABLES
    response,    \* [Calls -> where a call of the service is]
    connected,   \* isConnected of BruteForceProtectionService
    blocked,     \* the addresses with a blocked_ip key
    recorded,    \* calls with a THREAT_RESPONSE_EXECUTED, CRITICAL_..._HANDLED
    faults,
    blocks, excused   \* history: calls whose block was written, or met a Redis failure

vars == <<response, connected, blocked, recorded, faults, blocks, excused>>

redis == <<connected, blocked, faults, blocks, excused>>

\* responseActions; any other level has no action.
ResponseActions == [
    CRITICAL |-> <<"ISOLATE_TENANT", "BLOCK_IP", "LOCK_USER_ACCOUNT",
                   "ENABLE_EMERGENCY_MODE", "SEND_ADMIN_ALERT">>,
    HIGH     |-> <<"BLOCK_IP", "LOCK_USER_ACCOUNT", "INCREASE_MONITORING", "SEND_ADMIN_ALERT">>,
    MEDIUM   |-> <<"INCREASE_MONITORING", "LOG_DETAILED_AUDIT", "SEND_WARNING">>,
    LOW      |-> <<"LOG_EVENT", "CONTINUE_MONITORING">>,
    UNKNOWN  |-> <<>>]

Levels   == DOMAIN ResponseActions
Response == [pc: {"idle", "acting", "connect", "set", "done"}, level: Levels,
             ip: Ips \cup {NoIp}, next: 1 .. 6]
Idle     == [pc |-> "idle", level |-> "UNKNOWN", ip |-> NoIp, next |-> 1]

Init ==
    /\ response = [c \in Calls |-> Idle]
    /\ connected \in BOOLEAN /\ blocked = {}
    /\ recorded = {} /\ faults = 0 /\ blocks = {} /\ excused = {}

-----------------------------------------------------------------------------
(* AutomatedResponseService.                                               *)

ActionsOf(c) == ResponseActions[response[c].level]
At(c, p)   == response[c].pc = p

HandleThreat(c) ==
    /\ At(c, "idle")
    /\ \E l \in Levels, ip \in Ips \cup {NoIp} :
          response' = [response EXCEPT ![c] =
              [pc |-> "acting", level |-> l, ip |-> ip, next |-> 1]]
    /\ UNCHANGED <<recorded, redis>>

\* handleCriticalEvent and handleCriticalFailure log, and record that they did.
HandleCritical(c) ==
    /\ At(c, "idle")
    /\ response' = [response EXCEPT ![c].pc = "done"]
    /\ recorded' = recorded \cup {c}
    /\ UNCHANGED redis

\* executeResponseAction; without an address, BLOCK_IP returns.
ExecuteResponseAction(c) ==
    /\ At(c, "acting") /\ response[c].next <= Len(ActionsOf(c))
    /\ response' = IF ActionsOf(c)[response[c].next] = "BLOCK_IP" /\ response[c].ip # NoIp
                   THEN [response EXCEPT ![c].pc = "connect"]
                   ELSE [response EXCEPT ![c].next = @ + 1]
    /\ UNCHANGED <<recorded, redis>>

FinishedMutantNotAwaited(c) == response[c].pc \in {"acting", "connect", "set"}
Finished(c) == At(c, "acting") /\ response[c].next > Len(ActionsOf(c))

Executed(c) ==
    /\ Finished(c)
    /\ response' = [response EXCEPT ![c].pc = "done"]
    /\ recorded' = recorded \cup {c}
    /\ UNCHANGED redis

-----------------------------------------------------------------------------
(* BruteForceProtectionService.blockIpAddress.                             *)

Return(c) == response' = [response EXCEPT ![c].pc = "acting", ![c].next = @ + 1]

\* ensureConnection: a client that was disconnected may connect again or not.
EnsureConnection(c) ==
    /\ At(c, "connect")
    /\ \/ /\ connected' = TRUE
          /\ response' = [response EXCEPT ![c].pc = "set"]
          /\ UNCHANGED excused
       \/ /\ ~connected /\ Return(c)
          /\ excused' = excused \cup {c}
          /\ UNCHANGED connected
    /\ UNCHANGED <<blocked, recorded, faults, blocks>>

SetBlock(c) ==
    /\ At(c, "set") /\ Return(c)
    /\ blocked' = blocked \cup {response[c].ip}
    /\ blocks' = blocks \cup {c}
    /\ UNCHANGED <<connected, recorded, faults, excused>>

\* The error is logged; the caller is not told.
SetFails(c) ==
    /\ At(c, "set") /\ Return(c)
    /\ faults < MaxFaults /\ faults' = faults + 1
    /\ excused' = excused \cup {c}
    /\ UNCHANGED <<connected, blocked, recorded, blocks>>

\* The client's 'error' event, and the end of the sixty minutes of a block.
Disconnected ==
    /\ connected /\ connected' = FALSE
    /\ faults < MaxFaults /\ faults' = faults + 1
    /\ UNCHANGED <<response, blocked, recorded, blocks, excused>>

Unblocked(ip) ==
    /\ ip \in blocked /\ blocked' = blocked \ {ip}
    /\ UNCHANGED <<response, connected, recorded, faults, blocks, excused>>

Next ==
    \/ \E c \in Calls :
          \/ HandleThreat(c) \/ HandleCritical(c) \/ ExecuteResponseAction(c)
          \/ Executed(c) \/ EnsureConnection(c) \/ SetBlock(c) \/ SetFails(c)
    \/ Disconnected
    \/ \E ip \in Ips : Unblocked(ip)

Spec == Init /\ [][Next]_vars

-----------------------------------------------------------------------------
(* Properties.                                                             *)

\* Every variable holds a value of its kind.
TypeOK ==
    /\ response \in [Calls -> Response]
    /\ connected \in BOOLEAN /\ blocked \subseteq Ips
    /\ recorded \subseteq Calls /\ faults \in 0 .. MaxFaults
    /\ blocks \subseteq Calls /\ excused \subseteq Calls

\* A response to a critical or high threat from a known address is recorded only
\* after the address was blocked, unless Redis failed that very call.
RecordedAfterBlocking == \A c \in recorded :
    response[c].level \in {"CRITICAL", "HIGH"} /\ response[c].ip # NoIp
        => c \in blocks \cup excused
=============================================================================
