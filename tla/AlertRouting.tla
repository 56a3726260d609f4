---------------------------- MODULE AlertRouting ----------------------------
(***************************************************************************)
(* routeAlert of services/alertRouting.service.ts for alerts of one owner, *)
(* asset and type, which are what the suppression window compares.         *)
(*                                                                         *)
(* The primary channels of an alert are served concurrently, each with a   *)
(* look at the audit, a dispatch and an audit entry; then, perhaps, the    *)
(* fallback channels.  Alerts are routed concurrently.  A refused audit    *)
(* entry rejects routeAlert at once, while its other channels go on.       *)
(***************************************************************************)
EXTENDS Naturals, FiniteSets

CONSTANTS
  RoutedAlerts,
  Channels,           \* the routing channels; "in_app" is the default
  RoutingRules,       \* [channels, fallbackChannels, suppresses]
  Preferences,        \* the channels an owner may prefer
  MaxRoutingRefusals  \* bound: audit entries the database refuses

ASSUME RoutingAssumption ==
  /\ "in_app" \in Channels
  /\ \A rule \in RoutingRules :
        /\ rule.channels \subseteq Channels /\ rule.fallbackChannels \subseteq Channels
        /\ rule.suppresses \in BOOLEAN
  /\ Preferences \subseteq SUBSET Channels
  /\ MaxRoutingRefusals \in Nat

VARIABLES
  routing,     \* routeAlert of each alert: where it is, and its two sets of channels
  task,        \* dispatchChannelWithAudit of each alert and channel
  heard,       \* <<alert, channel>> that were queued or delivered
  auditRows,   \* alert_routing_audit: <<alert, channel>> with such a status, and
               \* whether it is within the suppression window
  routingRefusals

routingVars == <<routing, task, heard, auditRows, routingRefusals>>

TaskPlaces == {"none", "checking", "dispatching", "auditing", "ended"}
TaskStatuses == {"none", "suppressed", "sent", "failed"}

RoutingTypeOK ==
  /\ routing \in [RoutedAlerts ->
        [at : {"new", "primary", "fallback", "done", "filtered", "threw"},
         primary : SUBSET Channels, fallback : SUBSET Channels, suppresses : BOOLEAN]]
  /\ task \in [RoutedAlerts \X Channels -> [at : TaskPlaces, status : TaskStatuses]]
  /\ heard \subseteq RoutedAlerts \X Channels
  /\ auditRows \subseteq [of : heard, recent : BOOLEAN]
  /\ routingRefusals \in 0 .. MaxRoutingRefusals

NoTask == [at |-> "none", status |-> "none"]

RoutingInit ==
  /\ routing = [a \in RoutedAlerts |->
        [at |-> "new", primary |-> {}, fallback |-> {}, suppresses |-> FALSE]]
  /\ task = [t \in RoutedAlerts \X Channels |-> NoTask]
  /\ heard = {} /\ auditRows = {} /\ routingRefusals = 0

-----------------------------------------------------------------------------
(* routeAlert *)

\* The matching rule's channels that are preferred, else the rule's, else the
\* preferred ones, else the default.
PrimaryChannels(rules, preferred) ==
  LET fromRule == UNION {rule.channels : rule \in rules} IN
  CASE fromRule \cap preferred # {} -> fromRule \cap preferred
    [] fromRule \cap preferred = {} /\ fromRule # {} -> fromRule
    [] fromRule = {} /\ preferred # {} -> preferred
    [] OTHER -> {"in_app"}

FallbackChannels(rules) ==
  LET configured == UNION {rule.fallbackChannels : rule \in rules} IN
  IF configured # {} THEN configured ELSE {"in_app"}

\* Muted, or below the owner's severity threshold
FilterAlert(a) ==
  /\ routing[a].at = "new"
  /\ routing' = [routing EXCEPT ![a].at = "filtered"]
  /\ UNCHANGED <<task, heard, auditRows, routingRefusals>>

\* rules is empty, or the first active rule that matches.  Window 0 needs no look.
RouteAlert(a, rules, preferred) ==
  LET primary == PrimaryChannels(rules, preferred)
      suppresses == \E rule \in rules : rule.suppresses IN
  /\ routing[a].at = "new"
  /\ routing' = [routing EXCEPT ![a] =
        [at |-> "primary", primary |-> primary, suppresses |-> suppresses,
         fallback |-> FallbackChannels(rules) \ primary]]
  /\ task' = [t \in RoutedAlerts \X Channels |->
        IF t[1] = a /\ t[2] \in primary
          THEN [NoTask EXCEPT !.at = IF suppresses THEN "checking" ELSE "dispatching"]
          ELSE task[t]]
  /\ UNCHANGED <<heard, auditRows, routingRefusals>>

ResultsOf(a, channels) == {task[<<a, c>>].status : c \in channels}

AllEnded(a, channels) == \A c \in channels : task[<<a, c>>].at = "ended"

\* Seeded fault: one suppressed channel is enough to be done.
PrimaryEndsMuted(a) ==
  LET statuses == ResultsOf(a, routing[a].primary)
      settled == {"sent", "suppressed"} \cap statuses # {} IN
  /\ routing[a].at = "primary" /\ AllEnded(a, routing[a].primary)
  /\ routing' = [routing EXCEPT ![a].at = IF settled THEN "done" ELSE "fallback"]
  /\ task' = [t \in RoutedAlerts \X Channels |->
        IF ~settled /\ t[1] = a /\ t[2] \in routing[a].fallback
          THEN [NoTask EXCEPT !.at = "dispatching"] ELSE task[t]]
  /\ UNCHANGED <<heard, auditRows, routingRefusals>>

\* Something was sent, or everything suppressed: done.  Else the fallback.
PrimaryEnds(a) ==
  LET statuses == ResultsOf(a, routing[a].primary)
      settled == "sent" \in statuses \/ statuses = {"suppressed"} IN
  /\ routing[a].at = "primary" /\ AllEnded(a, routing[a].primary)
  /\ routing' = [routing EXCEPT ![a].at = IF settled THEN "done" ELSE "fallback"]
  /\ task' = [t \in RoutedAlerts \X Channels |->
        IF ~settled /\ t[1] = a /\ t[2] \in routing[a].fallback
          THEN [NoTask EXCEPT !.at = "dispatching"] ELSE task[t]]
  /\ UNCHANGED <<heard, auditRows, routingRefusals>>

FallbackEnds(a) ==
  /\ routing[a].at = "fallback" /\ AllEnded(a, routing[a].fallback)
  /\ routing' = [routing EXCEPT ![a].at = "done"]
  /\ UNCHANGED <<task, heard, auditRows, routingRefusals>>

-----------------------------------------------------------------------------
(* dispatchChannelWithAudit *)

\* isSuppressed: an entry of any alert of this kind, whatever its severity
CheckSuppression(t) ==
  /\ task[t].at = "checking"
  /\ task' = [task EXCEPT ![t] =
        IF \E row \in auditRows : row.recent /\ row.of[2] = t[2]
          THEN [at |-> "auditing", status |-> "suppressed"]
          ELSE [@ EXCEPT !.at = "dispatching"]]
  /\ UNCHANGED <<routing, heard, auditRows, routingRefusals>>

DispatchChannel(t, status) ==
  /\ task[t].at = "dispatching"
  /\ task' = [task EXCEPT ![t] = [at |-> "auditing", status |-> status]]
  /\ heard' = IF status = "sent" THEN heard \cup {t} ELSE heard
  /\ UNCHANGED <<routing, auditRows, routingRefusals>>

\* The entry is written, and later falls out of the window.
RecordAudit(t) ==
  /\ task[t].at = "auditing"
  /\ task' = [task EXCEPT ![t].at = "ended"]
  /\ auditRows' = IF task[t].status = "sent"
                    THEN auditRows \cup {[of |-> t, recent |-> TRUE]} ELSE auditRows
  /\ UNCHANGED <<routing, heard, routingRefusals>>

RecordAuditThrows(t) ==
  /\ routingRefusals < MaxRoutingRefusals
  /\ routingRefusals' = routingRefusals + 1
  /\ task[t].at = "auditing"
  /\ task' = [task EXCEPT ![t].at = "ended"]
  /\ routing' = [routing EXCEPT ![t[1]].at = "threw"]
  /\ UNCHANGED <<heard, auditRows>>

WindowElapses(row) ==
  /\ row \in auditRows /\ row.recent
  /\ auditRows' = (auditRows \ {row}) \cup {[row EXCEPT !.recent = FALSE]}
  /\ UNCHANGED <<routing, task, heard, routingRefusals>>

-----------------------------------------------------------------------------

RoutingNext ==
  \/ \E a \in RoutedAlerts :
        \/ FilterAlert(a) \/ PrimaryEnds(a) \/ FallbackEnds(a)
        \/ \E rules \in {{}} \cup {{rule} : rule \in RoutingRules}, preferred \in Preferences :
              RouteAlert(a, rules, preferred)
  \/ \E t \in RoutedAlerts \X Channels :
        \/ CheckSuppression(t) \/ RecordAudit(t) \/ RecordAuditThrows(t)
        \/ \E status \in {"sent", "failed"} : DispatchChannel(t, status)
  \/ \E row \in auditRows : WindowElapses(row)

RoutingSpec == RoutingInit /\ [][RoutingNext]_routingVars

-----------------------------------------------------------------------------
(* Properties *)

\* An alert whose routing ended normally was heard; or it was suppressed on
\* every channel in favour of others that were heard there; or every channel
\* that was not suppressed so, and every fallback channel, failed.  In
\* particular alerts that are routed at once never suppress each other.
HeardOrExhausted ==
  \A a \in RoutedAlerts : routing[a].at = "done" =>
    LET tried == routing[a].primary \cup routing[a].fallback
        mute == {c \in Channels : task[<<a, c>>].status = "suppressed"} IN
    /\ \A c \in mute : \E b \in RoutedAlerts \ {a} : <<b, c>> \in heard
    /\ \/ \E c \in Channels : <<a, c>> \in heard
       \/ mute = routing[a].primary
       \/ \A c \in tried \ mute : task[<<a, c>>].status = "failed"
==============================================================================
