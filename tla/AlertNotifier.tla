---------------------------- MODULE AlertNotifier ----------------------------
(***************************************************************************)
(* AlertNotifierService: an alert is recorded as sent, then goes to every  *)
(* enabled channel its severity calls for, all at once; the first channel  *)
(* that fails ends the call with one ALERT_SEND_FAILURE while the others   *)
(* are still sending.  Channels are enabled by the configuration; email    *)
(* and SMS are switched off again when their credentials are missing.      *)
(***************************************************************************)
EXTENDS FiniteSets

CONSTANTS Alerts   \* the alerts sent

VARIABLES
    enabled,    \* the channels of this process
    phones,     \* SMS goes to this many numbers (0, 1 or more): adminPhones
    alert,      \* [Alerts -> the call of sendMultiChannelAlert]
    sending,    \* [Alerts -> [Channels -> how far the channel is]]
    failures    \* alerts with an ALERT_SEND_FAILURE

vars == <<enabled, phones, alert, sending, failures>>

Channels   == {"email", "sms", "slack", "telegram"}
Severities == {"CRITICAL", "HIGH", "MEDIUM", "LOW"}
Call       == [pc: {"idle", "sending", "returned"}, severity: Severities]
Progress   == {"unused", "sending", "partly", "delivered", "failed"}

\* The constructor: a channel is asked for or not, and email and SMS stay enabled only
\* with their credentials.
Init ==
    /\ \E asked \in SUBSET Channels, credentials \in SUBSET {"email", "sms"} :
          enabled = asked \ ({"email", "sms"} \ credentials)
    /\ phones \in {"none", "one", "several"}
    /\ alert = [a \in Alerts |-> [pc |-> "idle", severity |-> "LOW"]]
    /\ sending = [a \in Alerts |-> [c \in Channels |-> "unused"]]
    /\ failures = {}

Due(s) ==
    {c \in enabled : /\ s # "LOW"
                     /\ c = "sms" => s \in {"CRITICAL", "HIGH"}}

-----------------------------------------------------------------------------

\* sendMultiChannelAlert up to Promise.all; sendTestAlert sends a MEDIUM one.
SendMultiChannelAlert(a) ==
    /\ alert[a].pc = "idle"
    /\ \E s \in Severities :
          /\ alert' = [alert EXCEPT ![a] = [pc |-> "sending", severity |-> s]]
          /\ sending' = [sending EXCEPT ![a] =
                 [c \in Channels |-> IF c \in Due(s) THEN "sending" ELSE "unused"]]
    /\ UNCHANGED <<enabled, phones, failures>>

\* A channel has everything: SMS of each number, when there are several, comes apart.
Delivered(a, c) ==
    /\ \/ sending[a][c] = "partly"
       \/ sending[a][c] = "sending" /\ (c = "sms" => phones # "several")
    /\ sending' = [sending EXCEPT ![a][c] = "delivered"]
    /\ UNCHANGED <<enabled, phones, alert, failures>>

PartOfSms(a) ==
    /\ sending[a]["sms"] = "sending" /\ phones = "several"
    /\ sending' = [sending EXCEPT ![a]["sms"] = "partly"]
    /\ UNCHANGED <<enabled, phones, alert, failures>>

RejectMutantSwallows(a) == UNCHANGED <<alert, failures>>

\* Promise.all rejects once, with the first failure; the call records it and returns.
Reject(a) ==
    IF alert[a].pc = "returned" THEN UNCHANGED <<alert, failures>>
    ELSE /\ alert' = [alert EXCEPT ![a].pc = "returned"]
         /\ failures' = failures \cup {a}

\* Nothing is sent by SMS, and nothing fails, without a number.
Fails(a, c) ==
    /\ sending[a][c] \in {"sending", "partly"} /\ (c = "sms" => phones # "none")
    /\ sending' = [sending EXCEPT ![a][c] = "failed"]
    /\ Reject(a)
    /\ UNCHANGED <<enabled, phones>>

\* Promise.all resolves when no channel is left.
Return(a) ==
    /\ alert[a].pc = "sending"
    /\ \A c \in Channels : sending[a][c] \in {"unused", "delivered", "failed"}
    /\ alert' = [alert EXCEPT ![a].pc = "returned"]
    /\ UNCHANGED <<enabled, phones, sending, failures>>

Next == \E a \in Alerts :
    \/ SendMultiChannelAlert(a) \/ PartOfSms(a) \/ Return(a)
    \/ \E c \in Channels : Delivered(a, c) \/ Fails(a, c)

Spec == Init /\ [][Next]_vars

-----------------------------------------------------------------------------
(* Properties.                                                             *)

\* Every variable holds a value of its kind.
TypeOK ==
    /\ enabled \subseteq Channels /\ phones \in {"none", "one", "several"}
    /\ alert \in [Alerts -> Call]
    /\ sending \in [Alerts -> [Channels -> Progress]]
    /\ failures \subseteq Alerts

\* Whatever the channels do, and in whatever order, an alert that returned without a
\* recorded failure reached every enabled channel its severity calls for.
NoFailureIsSilent == \A a \in Alerts :
    alert[a].pc = "returned" /\ a \notin failures
        => \A c \in Due(alert[a].severity) : sending[a][c] = "delivered"
=============================================================================
