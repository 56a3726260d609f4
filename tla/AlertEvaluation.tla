--------------------------- MODULE AlertEvaluation ---------------------------
(***************************************************************************)
(* evaluateAsset of services/alert.service.ts for one asset, with the      *)
(* in-memory duplicate check (services/duplicateAlertCheck.service.ts) and *)
(* the suppression rules (services/alertSuppression.service.ts).           *)
(*                                                                         *)
(* The supply job, the health service, the worker and the outbox handler   *)
(* evaluate concurrently; an evaluation is cut at each await.  It takes the*)
(* time once, when it has read its rules, and every event carries that     *)
(* time.  Metrics are reduced to the conditions they satisfy, suppression  *)
(* to its decision.  The duplicate rules are the three that come with the  *)
(* code.  Routing and the circuit breaker's queue, whose errors are caught,*)
(* are left out.                                                           *)
(***************************************************************************)
EXTENDS Integers, Sequences, FiniteSets

CONSTANTS
  Evaluators,      \* evaluations running at a time
  AlertRule,       \* id -> [conditions, conditionOp, priority, cooldownSeconds]
  Snapshots,       \* sets of conditions that hold together
  DedupWindow,     \* "exact", "crossSource", "escalate" -> windowMs
  MaxClock, MaxAlerts, MaxAlertFaults  \* bounds

ASSUME AlertAssumption ==
  /\ DOMAIN AlertRule # {}
  /\ AlertRule \in [DOMAIN AlertRule ->
       [conditions : Seq([metric : STRING, alertType : STRING]), conditionOp : {"AND", "OR"},
        priority : Nat, cooldownSeconds : Nat]]
  /\ DOMAIN DedupWindow = {"exact", "crossSource", "escalate"}
  /\ \A d \in DOMAIN DedupWindow : DedupWindow[d] \in Nat
  /\ MaxClock \in Nat /\ MaxAlerts \in Nat /\ MaxAlertFaults \in Nat

VARIABLES
  clock,
  lastTriggered,  \* alert_rules.last_triggered_at, or Never
  alerts,         \* alert_events, in the order of the inserts
  recent,         \* recentEvents: fingerprint -> time and priority, or NotSeen
  evaluation,     \* where each evaluation is and what it has read
  alertFaults

alertVars == <<clock, lastTriggered, alerts, recent, evaluation,
               alertFaults>>

AlertRules == DOMAIN AlertRule
DedupRules == DOMAIN DedupWindow
Never == -1

Conditions == UNION {{AlertRule[r].conditions[i] : i \in DOMAIN AlertRule[r].conditions} :
                       r \in AlertRules}
Priorities == {AlertRule[r].priority : r \in AlertRules}

Fingerprint(d, c) ==
  CASE d = "exact" -> <<c.alertType, c.metric>>
    [] d = "crossSource" -> <<c.metric>>
    [] d = "escalate" -> <<c.alertType>>

Fingerprints == {Fingerprint(d, c) : d \in DedupRules, c \in Conditions}

NotSeen == <<>>

Idle == [at |-> "idle", now |-> 0, holding |-> {}, todo |-> {}, rule |-> CHOOSE r \in AlertRules : TRUE,
         priority |-> 0, checked |-> 0, alert |-> 0, alone |-> TRUE]

Alert == [rule : AlertRules, condition : Conditions, priority : Priorities,
          time : 0 .. MaxClock, checked : 0 .. MaxClock,
          settled : BOOLEAN, remembered : BOOLEAN]

AlertTypeOK ==
  /\ clock \in 0 .. MaxClock
  /\ lastTriggered \in [AlertRules -> Never .. MaxClock]
  /\ alerts \in Seq(Alert) /\ Len(alerts) <= MaxAlerts
  /\ \A f \in Fingerprints :
        recent[f] = NotSeen \/ recent[f] \in [time : 0 .. MaxClock, priority : Priorities]
  /\ \A e \in Evaluators :
        /\ evaluation[e].at \in {"idle", "looping", "persisting", "marking"}
        /\ evaluation[e].todo \subseteq AlertRules
        /\ evaluation[e].now <= clock
  /\ alertFaults \in 0 .. MaxAlertFaults

AlertInit ==
  /\ clock = 0
  /\ lastTriggered = [r \in AlertRules |-> Never]
  /\ alerts = <<>>
  /\ recent = [f \in Fingerprints |-> NotSeen]
  /\ evaluation = [e \in Evaluators |-> Idle]
  /\ alertFaults = 0

-----------------------------------------------------------------------------
(* evaluateConditions *)

Holds(rule, holding) == {i \in DOMAIN rule.conditions : rule.conditions[i] \in holding}

RuleFires(rule, holding) ==
  /\ rule.conditions # <<>>
  /\ IF rule.conditionOp = "AND"
       THEN Holds(rule, holding) = DOMAIN rule.conditions
       ELSE Holds(rule, holding) # {}

\* The event reports the first condition that holds.
FirstTriggered(rule, holding) ==
  rule.conditions[CHOOSE i \in Holds(rule, holding) : \A j \in Holds(rule, holding) : i <= j]

Candidate(e, r) == FirstTriggered(AlertRule[r], evaluation[e].holding)

-----------------------------------------------------------------------------
(* DuplicateAlertCheckService *)

Evicted ==
  [f \in Fingerprints |->
     IF recent[f] # NotSeen /\ \A d \in DedupRules : clock - recent[f].time > DedupWindow[d]
       THEN NotSeen ELSE recent[f]]

\* Seeded fault: off by one, the end of the window does not match.
MatchesWithin(d, c) ==
  LET found == Evicted[Fingerprint(d, c)] IN
  found # NotSeen /\ clock - found.time < DedupWindow[d]

Matches(d, c) ==
  LET found == Evicted[Fingerprint(d, c)] IN
  found # NotSeen /\ clock - found.time <= DedupWindow[d]

\* The rules are tried in this order; the first that matches decides.
Decision(c) ==
  CASE Matches("exact", c) -> "exact"
    [] ~Matches("exact", c) /\ Matches("crossSource", c) -> "crossSource"
    [] ~Matches("exact", c) /\ ~Matches("crossSource", c) /\ Matches("escalate", c) -> "escalate"
    [] OTHER -> "allow"

Escalated(current, incoming) == IF incoming > current THEN incoming ELSE current

\* record: under the fingerprint of every rule
Recorded(c, time, priority) ==
  [f \in Fingerprints |->
     IF \E d \in DedupRules : f = Fingerprint(d, c)
       THEN [time |-> time, priority |-> priority] ELSE recent[f]]

-----------------------------------------------------------------------------
(* evaluateAsset *)

Evaluating(e) == evaluation[e].at # "idle"

\* The next rule, or the end of the evaluation
Proceed(e) ==
  evaluation' = [evaluation EXCEPT ![e] =
    IF @.todo = {} THEN Idle
    ELSE [@ EXCEPT !.at = "looping", !.rule = Idle.rule, !.priority = 0, !.checked = 0, !.alert = 0]]

\* The cooldown is compared with the time that is read before the loop.
CoolingDown(r, now) ==
  /\ lastTriggered[r] # Never /\ AlertRule[r].cooldownSeconds > 0
  /\ now - lastTriggered[r] < AlertRule[r].cooldownSeconds

\* What is read here decides which rules fire; the rest of the loop is about
\* those.  From here on the evaluations that are under way are not alone.
ReadActiveRules(e, holding) ==
  LET others == {f \in Evaluators : Evaluating(f)}
      firing == {r \in AlertRules : ~CoolingDown(r, clock) /\ RuleFires(AlertRule[r], holding)} IN
  /\ evaluation[e].at = "idle" /\ firing # {}
  /\ evaluation' = [f \in Evaluators |->
       IF f = e THEN [Idle EXCEPT !.at = "looping", !.now = clock, !.holding = holding,
                                  !.todo = firing, !.alone = (others = {})]
       ELSE IF f \in others THEN [evaluation[f] EXCEPT !.alone = FALSE] ELSE evaluation[f]]
  /\ UNCHANGED <<clock, lastTriggered, alerts, recent, alertFaults>>

\* The rules come in no particular order.
NextRule(e, r) ==
  evaluation[e].at = "looping" /\ r \in evaluation[e].todo

\* A suppression rule matches, and the audit has it; or a duplicate is blocked
\* or queued for review.
Skip(e, r) ==
  LET rest == evaluation[e].todo \ {r} IN
  evaluation' = [evaluation EXCEPT ![e] = IF rest = {} THEN Idle ELSE [@ EXCEPT !.todo = rest]]

Suppress(e, r) ==
  /\ NextRule(e, r)
  /\ Skip(e, r)
  /\ UNCHANGED <<clock, lastTriggered, alerts, recent, alertFaults>>

CheckDuplicate(e, r) ==
  LET c == Candidate(e, r)
      decision == Decision(c)
      own == AlertRule[r].priority IN
  /\ NextRule(e, r)
  /\ recent' = Evicted
  /\ IF decision \in {"exact", "crossSource"}
       THEN Skip(e, r)
       ELSE evaluation' = [evaluation EXCEPT
              ![e].at = "persisting", ![e].todo = @ \ {r}, ![e].rule = r, ![e].checked = clock,
              ![e].priority = IF decision = "escalate"
                THEN Escalated(Evicted[Fingerprint("escalate", c)].priority, own) ELSE own]
  /\ UNCHANGED <<clock, lastTriggered, alerts, alertFaults>>

\* persistEvent, and record as soon as it has resolved
PersistEvent(e) ==
  /\ evaluation[e].at = "persisting" /\ Len(alerts) < MaxAlerts
  /\ alerts' = Append(alerts,
        [rule |-> evaluation[e].rule, condition |-> Candidate(e, evaluation[e].rule), priority |-> evaluation[e].priority,
         time |-> evaluation[e].now, checked |-> evaluation[e].checked,
         settled |-> FALSE, remembered |-> TRUE])
  /\ recent' = Recorded(Candidate(e, evaluation[e].rule), evaluation[e].now, evaluation[e].priority)
  /\ evaluation' = [evaluation EXCEPT ![e].at = "marking", ![e].alert = Len(alerts')]
  /\ UNCHANGED <<clock, lastTriggered, alertFaults>>

\* Seeded fault: the rule is not marked.
LeaveRuleUnmarked(e) ==
  /\ evaluation[e].at = "marking"
  /\ alerts' = [alerts EXCEPT ![evaluation[e].alert].settled = evaluation[e].alone]
  /\ Proceed(e)
  /\ UNCHANGED <<clock, lastTriggered, recent, alertFaults>>

MarkRuleTriggered(e) ==
  /\ evaluation[e].at = "marking"
  /\ lastTriggered' = [lastTriggered EXCEPT ![evaluation[e].rule] = evaluation[e].now]
  /\ alerts' = [alerts EXCEPT ![evaluation[e].alert].settled = evaluation[e].alone]
  /\ Proceed(e)
  /\ UNCHANGED <<clock, recent, alertFaults>>

AlertFault == alertFaults < MaxAlertFaults /\ alertFaults' = alertFaults + 1

\* A refused statement ends the whole evaluation, the remaining rules with it.
EvaluationThrows(e) ==
  /\ AlertFault
  /\ evaluation[e].at # "idle"
  /\ evaluation' = [evaluation EXCEPT ![e] = Idle]
  /\ UNCHANGED <<clock, lastTriggered, alerts, recent>>

\* What was recorded is gone; what was inserted and marked stays.
EvaluatorRestarts ==
  /\ AlertFault
  /\ recent' = [f \in Fingerprints |-> NotSeen]
  /\ evaluation' = [e \in Evaluators |-> Idle]
  /\ alerts' = [i \in DOMAIN alerts |-> [alerts[i] EXCEPT !.remembered = FALSE]]
  /\ UNCHANGED <<clock, lastTriggered>>

Tick ==
  /\ clock < MaxClock /\ clock' = clock + 1
  /\ UNCHANGED <<lastTriggered, alerts, recent, evaluation, alertFaults>>

AlertNext ==
  \/ \E e \in Evaluators :
        \/ \E holding \in Snapshots : ReadActiveRules(e, holding)
        \/ \E r \in AlertRules : Suppress(e, r) \/ CheckDuplicate(e, r)
        \/ PersistEvent(e) \/ MarkRuleTriggered(e) \/ EvaluationThrows(e)
  \/ EvaluatorRestarts \/ Tick

AlertSpec == AlertInit /\ [][AlertNext]_alertVars

-----------------------------------------------------------------------------
(* Properties *)

\* Alert j was stored after alert i, and no other evaluation was under way from
\* the start of alert i's until its rule was marked.
After(i, j) == i < j /\ alerts[i].settled

\* Across evaluations, failures and restarts a rule keeps its cooldown towards
\* an alert that was settled: no other evaluation can then have put the mark back.
CooldownAfterSettled ==
  \A i, j \in DOMAIN alerts :
    (After(i, j) /\ alerts[i].rule = alerts[j].rule)
      => alerts[j].time - alerts[i].time >= AlertRule[alerts[i].rule].cooldownSeconds

\* Fingerprints do not carry their dedup rule: a less severe alert of another
\* type, about a metric with the name of alert i's type, takes over the entry under
\* which that type is escalated.
TakesOver(k, i) ==
  /\ alerts[k].condition.metric = alerts[i].condition.alertType
  /\ alerts[k].condition.alertType # alerts[i].condition.alertType
  /\ alerts[k].priority < alerts[i].priority

\* While the process lives, an alert does not repeat a settled alert within its
\* window, nor its type with a lower severity unless an alert stored in between
\* took over the entry.
DuplicateHeld ==
  \A i, j \in DOMAIN alerts :
    (After(i, j) /\ alerts[i].remembered) =>
      LET age == alerts[j].checked - alerts[i].time IN
      /\ alerts[i].condition = alerts[j].condition => age > DedupWindow["exact"]
      /\ (alerts[i].condition.alertType = alerts[j].condition.alertType
            /\ age <= DedupWindow["escalate"])
           => \/ alerts[j].priority >= alerts[i].priority
              \/ \E k \in DOMAIN alerts : i < k /\ k < j /\ TakesOver(k, i)

\* However evaluations overlap and fail, an alert that was settled holds back the
\* ones its cooldown and its windows forbid (evaluateAsset with the marks it read
\* before the loop, checkDuplicate).
SettledAlertsHold == CooldownAfterSettled /\ DuplicateHeld
==============================================================================
