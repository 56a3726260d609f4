---------------------------- MODULE OutboxPromise ----------------------------
(***************************************************************************)
(* What the outbox promises of each event, whatever the dispatcher, its    *)
(* queue and its workers do: a published event is owed a delivery; it is   *)
(* marked delivered only when a handler has returned for it or for an      *)
(* event with the same idempotency key, and then for good; it is abandoned *)
(* to the dead-letter table only after MaxRetries failures, and can be     *)
(* taken up again.  What is done to a delivered event all the same is      *)
(* bounded: each dispute about the event, a lost job lock or a retry       *)
(* request beside another one, can undo one delivery mark and no more.     *)
(***************************************************************************)
EXTENDS Integers

CONSTANTS Events, KeyOf, NoKey, MaxRetries

VARIABLES
  promise,    \* "none", "owed", "kept" or "abandoned" per event
  handled,    \* how often the handler has returned for an event
  failures,   \* how often an attempt has failed
  disputes    \* how many delivered marks may still be undone

promiseVars == <<promise, handled, failures, disputes>>

Covers(f, e) == f = e \/ (KeyOf[e] # NoKey /\ KeyOf[f] = KeyOf[e])

PromiseInit ==
  /\ promise = [e \in Events |-> "none"]
  /\ handled = [e \in Events |-> 0]
  /\ failures = [e \in Events |-> 0]
  /\ disputes = [e \in Events |-> 0]

Become(e, from, to) ==
  /\ promise[e] = from
  /\ promise' = [promise EXCEPT ![e] = to]
  /\ UNCHANGED <<handled, failures, disputes>>

Owe(e) == Become(e, "none", "owed")

Handle(e) ==
  /\ promise[e] = "owed"
  /\ handled' = [handled EXCEPT ![e] = @ + 1]
  /\ UNCHANGED <<promise, failures, disputes>>

Miss(e) ==
  /\ promise[e] = "owed"
  /\ failures' = [failures EXCEPT ![e] = @ + 1]
  /\ UNCHANGED <<promise, handled, disputes>>

KeepPromise(e) ==
  /\ \E f \in Events : Covers(f, e) /\ handled[f] > 0
  /\ Become(e, "owed", "kept")

Abandon(e) ==
  /\ failures[e] >= MaxRetries
  /\ Become(e, "owed", "abandoned")

TakeUp(e) == Become(e, "abandoned", "owed")

\* Another worker, or another request, has come between.
Contest(e) ==
  /\ disputes' = [disputes EXCEPT ![e] = @ + 1]
  /\ UNCHANGED <<promise, handled, failures>>

Undo(e, to) ==
  /\ promise[e] = "kept" /\ disputes[e] > 0
  /\ promise' = [promise EXCEPT ![e] = to]
  /\ disputes' = [disputes EXCEPT ![e] = @ - 1]
  /\ UNCHANGED <<handled, failures>>

Reopen(e) == Undo(e, "owed")

AbandonKept(e) == failures[e] >= MaxRetries /\ Undo(e, "abandoned")

PromiseNext ==
  \E e \in Events :
    \/ Owe(e) \/ Handle(e) \/ Miss(e) \/ KeepPromise(e) \/ Abandon(e) \/ TakeUp(e)
    \/ Contest(e) \/ Reopen(e) \/ AbandonKept(e)

PromiseSpec == PromiseInit /\ [][PromiseNext]_promiseVars

=============================================================================
