--------------------------- MODULE EventFederation ---------------------------
(***************************************************************************)
(* The event stream federation (services/eventFederation).  The Stellar    *)
(* connector keeps one payment and one ledger stream open and reopens both *)
(* after an error of either; the Ethereum connector polls for the latest   *)
(* block; every event passes a window of recently seen ids, enters the     *)
(* replay buffer and is forwarded to the listeners.                        *)
(*                                                                         *)
(* The liveness figures and counters of the sources are left out.          *)
(***************************************************************************)
EXTENDS Integers, Sequences, SequencesExt, FiniteSets

CONSTANTS
  WindowSize,            \* ids the deduplicator remembers
  ReplayCapacity,        \* events the replay buffer holds
  MaxReconnectAttempts,  \* MAX_RECONNECT_ATTEMPTS
  Polls,                 \* executions of _poll that may overlap
  MaxChainEvents,        \* bound: events of all the chains
  MaxStreamErrors        \* bound: stream errors

ASSUME FederationAssumption ==
  /\ WindowSize \in Nat \ {0} /\ ReplayCapacity \in Nat \ {0}
  /\ MaxReconnectAttempts \in Nat /\ MaxChainEvents \in Nat /\ MaxStreamErrors \in Nat

Streamed == {"payments", "ledgers"}
Feeds == Streamed \cup {"blocks"}
NoEvent == [feed |-> "none", number |-> 0]

VARIABLES
  produced,          \* [Feeds -> Nat]: events of the feed so far
  running,           \* of both connectors
  feedCursor,        \* paymentCursor and ledgerCursor; 0 stands for "now"
  streams,           \* the streams that are open: feed, opening, last event read
  closers,           \* the opening whose closers are held, 0 when they are null
  openings,          \* calls of _openStreams
  reconnectAttempt,
  armed,             \* the timer reconnectTimer holds has not fired yet
  strays,            \* pending timers that reconnectTimer holds no longer
  interval,          \* the poll timer is set
  poll,              \* [Polls -> what an execution of _poll waits for]
  lastBlock,
  ring, ringHead, seenIds,            \* of the deduplicator
  events, head, filled,               \* of the replay buffer
  forwarded,         \* history: the events given to the listeners, in order
  startedAt,         \* history: where the last stream opened at "now" began
  gaveUp,            \* history: a reconnect was refused
  errors             \* history: stream errors

connectorVars == <<running, feedCursor, streams, closers, openings, reconnectAttempt, armed,
                   strays, startedAt, gaveUp, errors>>
pollVars == <<interval, poll, lastBlock>>
windowVars == <<ring, ringHead, seenIds>>
bufferVars == <<events, head, filled>>
federationVars == <<produced, connectorVars, pollVars, windowVars, bufferVars, forwarded>>

Event(feed, number) == [feed |-> feed, number |-> number]
Produced == produced["payments"] + produced["ledgers"] + produced["blocks"]

FederationTypeOK ==
  /\ produced \in [Feeds -> 0..MaxChainEvents]
  /\ running \in BOOLEAN /\ armed \in BOOLEAN /\ interval \in BOOLEAN /\ gaveUp \in BOOLEAN
  /\ feedCursor \in [Streamed -> Nat] /\ startedAt \in [Streamed -> Nat]
  /\ streams \subseteq [feed : Streamed, opening : 1..openings, read : Nat]
  /\ closers \in 0..openings
  /\ reconnectAttempt \in 0..MaxReconnectAttempts /\ strays \in Nat
  /\ poll \in [Polls -> [pc : {"idle", "number", "block"}, number : Nat]]
  /\ ringHead \in 0..(WindowSize - 1) /\ DOMAIN ring = 0..(WindowSize - 1)
  /\ head \in 0..(ReplayCapacity - 1) /\ filled \in 0..ReplayCapacity

FederationInit ==
  /\ produced = [f \in Feeds |-> 0]
  /\ running = FALSE /\ streams = {} /\ closers = 0 /\ openings = 0
  /\ feedCursor = [f \in Streamed |-> 0]
  /\ reconnectAttempt = 0 /\ armed = FALSE /\ strays = 0
  /\ interval = FALSE /\ poll = [p \in Polls |-> [pc |-> "idle", number |-> 0]]
  /\ lastBlock = 0
  /\ ring = [i \in 0..(WindowSize - 1) |-> NoEvent] /\ ringHead = 0 /\ seenIds = {}
  /\ events = [i \in 0..(ReplayCapacity - 1) |-> NoEvent] /\ head = 0 /\ filled = 0
  /\ forwarded = <<>>
  /\ startedAt = [f \in Streamed |-> 0] /\ gaveUp = FALSE /\ errors = 0

-----------------------------------------------------------------------------
(* Deduplication, replay buffer, listeners *)

\* admit: the id takes the place of the oldest one of the window.
AdmitId(e) ==
  /\ ring' = [ring EXCEPT ![ringHead] = e]
  /\ ringHead' = (ringHead + 1) % WindowSize
  /\ seenIds' = (seenIds \ {ring[ringHead]}) \cup {e}

\* Mutant: the size goes on counting when the buffer is full.
PushCounting(e) ==
  /\ events' = [events EXCEPT ![head] = e]
  /\ head' = (head + 1) % ReplayCapacity
  /\ filled' = filled + 1

\* ReplayBuffer.push.
Push(e) ==
  /\ events' = [events EXCEPT ![head] = e]
  /\ head' = (head + 1) % ReplayCapacity
  /\ filled' = IF filled < ReplayCapacity THEN filled + 1 ELSE filled

\* _ingest: one event at a time, so the sort in process has nothing to order.
Ingest(e) ==
  \/ /\ e \in seenIds
     /\ UNCHANGED <<windowVars, bufferVars, forwarded>>
  \/ /\ e \notin seenIds
     /\ AdmitId(e) /\ Push(e)
     /\ forwarded' = Append(forwarded, e)

\* ReplayBuffer.snapshot: oldest first.
Snapshot ==
  IF filled < ReplayCapacity THEN [i \in 1..filled |-> events[i - 1]]
  ELSE LET tail == (head - filled + ReplayCapacity) % ReplayCapacity
       IN [i \in 1..filled |-> events[(tail + i - 1) % ReplayCapacity]]

-----------------------------------------------------------------------------
(* The chains *)

ChainMoves(feed) ==
  /\ Produced < MaxChainEvents
  /\ produced' = [produced EXCEPT ![feed] = @ + 1]
  /\ UNCHANGED <<connectorVars, pollVars, windowVars, bufferVars, forwarded>>

-----------------------------------------------------------------------------
(* The Stellar connector *)

\* Mutant: every stream is opened at "now".
ResumesNow(feed) == {produced[feed]}

\* Where Horizon resumes.  "now" is the end of the feed.  Payments resume after
\* their paging token.  The ledger cursor is a sequence number where Horizon
\* expects a paging token: it may resume there or at the start of history.
ResumesAt(feed) ==
  CASE feedCursor[feed] = 0 -> {produced[feed]}
    [] feedCursor[feed] # 0 /\ feed = "payments" -> {feedCursor[feed]}
    [] OTHER -> {0, feedCursor[feed]}

\* _openStreams: the closers of streams that are still open are overwritten.
OpenStreams ==
  /\ openings' = openings + 1
  /\ closers' = openings + 1
  /\ \E at \in [Streamed -> UNION {ResumesAt(f) : f \in Streamed}] :
       /\ \A f \in Streamed : at[f] \in ResumesAt(f)
       /\ streams' = streams \cup
            {[feed |-> f, opening |-> openings + 1, read |-> at[f]] : f \in Streamed}
  /\ startedAt' = [f \in Streamed |-> IF feedCursor[f] = 0 THEN produced[f]
                                      ELSE startedAt[f]]

\* start of the service: both connectors, the first poll included.
StartFederation ==
  /\ ~running /\ openings = 0
  /\ running' = TRUE /\ reconnectAttempt' = 0
  /\ OpenStreams
  /\ \E p \in Polls : poll' = [poll EXCEPT ![p].pc = "number"]
  /\ UNCHANGED <<produced, feedCursor, armed, strays, gaveUp, errors, interval, lastBlock,
                 windowVars, bufferVars, forwarded>>

\* stop: only the timer that reconnectTimer holds is cleared.
StopFederation ==
  /\ running
  /\ running' = FALSE
  /\ streams' = {s \in streams : s.opening # closers} /\ closers' = 0
  /\ armed' = FALSE
  /\ interval' = FALSE
  /\ UNCHANGED <<produced, feedCursor, openings, reconnectAttempt, strays, startedAt, gaveUp,
                 errors, poll, lastBlock, windowVars, bufferVars, forwarded>>

\* A stream delivers its next event: the cursor, then _emit.
StreamEvent(s) ==
  /\ s.read < produced[s.feed]
  /\ streams' = (streams \ {s}) \cup {[s EXCEPT !.read = s.read + 1]}
  /\ feedCursor' = [feedCursor EXCEPT ![s.feed] = s.read + 1]
  /\ reconnectAttempt' = 0
  /\ Ingest(Event(s.feed, s.read + 1))
  /\ UNCHANGED <<produced, running, closers, openings, armed, strays, startedAt, gaveUp, errors, pollVars>>

\* _scheduleReconnect, with the streams left once the failed one is gone.
ScheduleReconnect(left) ==
  \/ /\ ~running
     /\ streams' = left
     /\ UNCHANGED <<closers, reconnectAttempt, armed, strays, gaveUp>>
  \/ /\ running /\ reconnectAttempt >= MaxReconnectAttempts
     /\ gaveUp' = TRUE
     /\ streams' = left
     /\ UNCHANGED <<closers, reconnectAttempt, armed, strays>>
  \/ /\ running /\ reconnectAttempt < MaxReconnectAttempts
     /\ reconnectAttempt' = reconnectAttempt + 1
     /\ streams' = {s \in left : s.opening # closers} /\ closers' = 0
     /\ strays' = strays + (IF armed THEN 1 ELSE 0) /\ armed' = TRUE
     /\ UNCHANGED gaveUp

\* _handleStreamError; the client library may or may not keep the stream alive.
StreamError(s) ==
  /\ errors < MaxStreamErrors
  /\ errors' = errors + 1
  /\ \E left \in {streams, streams \ {s}} : ScheduleReconnect(left)
  /\ UNCHANGED <<produced, running, feedCursor, openings, startedAt, pollVars,
                 windowVars, bufferVars, forwarded>>

\* A reconnect timer fires.
ReconnectTimer ==
  /\ \/ armed /\ armed' = FALSE /\ UNCHANGED strays
     \/ strays > 0 /\ strays' = strays - 1 /\ UNCHANGED armed
  /\ \/ running /\ OpenStreams
     \/ ~running /\ UNCHANGED <<openings, closers, streams, startedAt>>
  /\ UNCHANGED <<produced, running, feedCursor, reconnectAttempt, gaveUp, errors,
                 pollVars, windowVars, bufferVars, forwarded>>

-----------------------------------------------------------------------------
(* The Ethereum connector *)

\* The poll timer fires.
PollTimer(p) ==
  /\ running /\ interval /\ poll[p].pc = "idle"
  /\ poll' = [poll EXCEPT ![p].pc = "number"]
  /\ UNCHANGED <<produced, connectorVars, interval, lastBlock, windowVars, bufferVars,
                 forwarded>>

\* getBlockNumber answers, and the answer is compared with lastBlock.
BlockNumber(p) ==
  /\ poll[p].pc = "number"
  /\ LET number == produced["blocks"]
     IN \/ /\ number <= lastBlock
           /\ poll' = [poll EXCEPT ![p].pc = "idle"] /\ interval' = running
        \/ /\ number > lastBlock
           /\ poll' = [poll EXCEPT ![p] = [pc |-> "block", number |-> number]]
           /\ UNCHANGED interval
  /\ UNCHANGED <<produced, connectorVars, lastBlock, windowVars, bufferVars, forwarded>>

\* getBlock answers: the event is emitted whatever lastBlock has become.
BlockAnswer(p) ==
  /\ poll[p].pc = "block"
  /\ poll' = [poll EXCEPT ![p] = [pc |-> "idle", number |-> 0]]
  /\ interval' = running
  /\ lastBlock' = poll[p].number
  /\ Ingest(Event("blocks", poll[p].number))
  /\ UNCHANGED <<produced, connectorVars>>

\* Either call fails or the block is not known yet: the poll ends.
PollFails(p) ==
  /\ poll[p].pc \in {"number", "block"}
  /\ poll' = [poll EXCEPT ![p] = [pc |-> "idle", number |-> 0]]
  /\ interval' = running
  /\ UNCHANGED <<produced, connectorVars, lastBlock, windowVars, bufferVars, forwarded>>

-----------------------------------------------------------------------------
FederationNext ==
  \/ \E f \in Feeds : ChainMoves(f)
  \/ StartFederation
  \/ StopFederation
  \/ \E s \in streams : StreamEvent(s) \/ StreamError(s)
  \/ ReconnectTimer
  \/ \E p \in Polls : PollTimer(p) \/ BlockNumber(p) \/ BlockAnswer(p) \/ PollFails(p)

FederationSpec == FederationInit /\ [][FederationNext]_federationVars

-----------------------------------------------------------------------------
(* Properties *)

\* An event is forwarded a second time only after as many others as the window
\* holds, and the replay buffer holds the latest events forwarded, oldest first.
WindowKept ==
  /\ \A i, j \in DOMAIN forwarded :
       i < j /\ forwarded[i] = forwarded[j] => j - i > WindowSize
  /\ LET n == Len(forwarded)
         kept == IF n < ReplayCapacity THEN n ELSE ReplayCapacity
     IN Snapshot = SubSeq(forwarded, n - kept + 1, n)

\* Past the place where a stream was last opened at "now", no payment is left
\* out between two that were forwarded.
NoGapAfterTheCursor ==
  LET read == {e.number : e \in {x \in Range(forwarded) : x.feed = "payments"}}
  IN \A m \in read, k \in 1..MaxChainEvents :
       startedAt["payments"] < k /\ k < m => k \in read

\* While the connector runs, both feeds are read or a reconnect is ahead, unless
\* a reconnect was once refused.
ReadsOrReconnects ==
  running /\ ~gaveUp =>
    \/ armed \/ strays > 0
    \/ \A f \in Streamed : \E s \in streams : s.feed = f

\* Whatever streams, leaked streams, stray timers and overlapping polls deliver,
\* listeners and replay buffer see what the window lets through
\* (deduplicator.ts:63, replayBuffer.ts:65), reconnects resume where the payment
\* cursor stands (stellarConnector.ts:109), and no feed is forgotten before the
\* attempts are used up (stellarConnector.ts:153).
FeedsKept == WindowKept /\ NoGapAfterTheCursor /\ ReadsOrReconnects
==============================================================================
