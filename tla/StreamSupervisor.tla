-------------------------- MODULE StreamSupervisor --------------------------
(***************************************************************************)
(* One supervised Horizon stream                                           *)
(* (services/horizonStreamSupervisor.service.ts): connect, read events,    *)
(* reconnect with a growing delay, watch for gaps, stop.                   *)
(*                                                                         *)
(* Everything runs on one event loop; an action is what happens between    *)
(* two awaits or in one timer callback.  Durations are left out: a timer   *)
(* that is set may fire.  HorizonStreamManager starts a supervisor once,   *)
(* when it adds it, and stops it once, when it removes it.                 *)
(***************************************************************************)
EXTENDS Naturals

CONSTANTS
  MaxReconnectAttempts,
  MaxEvents,    \* bound: events of the server
  MaxTroubles   \* bound: connections refused, broken, ended or too slow

ASSUME StreamAssumption ==
  MaxReconnectAttempts \in Nat /\ MaxEvents \in Nat /\ MaxTroubles \in Nat

VARIABLES
  streamStatus,   \* this.status
  link,           \* what the current _connect does
  reconnectCount,
  reconnectTimer, \* a reconnect is scheduled
  strayTimers,    \* connect timeouts whose fetch has failed: still set
  head,           \* the server's last event
  position,       \* the last event the connection has passed
  lastCursor,     \* the last event taken; 0 before the first
  gapDetected, stopped, outage,
  silent,         \* a connection has gone without an error
  troubles

streamVars == <<streamStatus, link, reconnectCount, reconnectTimer, strayTimers, head, position,
                lastCursor, gapDetected, stopped, outage, silent, troubles>>

StreamTypeOK ==
  /\ streamStatus \in {"connecting", "connected", "reconnecting", "closed", "error"}
  /\ link \in {"none", "fetching", "reading"}
  /\ reconnectCount \in 0 .. MaxReconnectAttempts
  /\ reconnectTimer \in BOOLEAN
  /\ strayTimers \in 0 .. MaxTroubles + 1
  /\ head \in 0 .. MaxEvents /\ position \in 0 .. MaxEvents /\ lastCursor \in 0 .. MaxEvents
  /\ gapDetected \in BOOLEAN /\ stopped \in BOOLEAN /\ outage \in BOOLEAN /\ silent \in BOOLEAN
  /\ troubles \in 0 .. MaxTroubles

StreamInit ==
  /\ streamStatus = "connecting" /\ link = "fetching"
  /\ reconnectCount = 0 /\ reconnectTimer = FALSE /\ strayTimers = 0
  /\ head = 0 /\ position = 0 /\ lastCursor = 0
  /\ gapDetected = FALSE /\ stopped = FALSE /\ outage = FALSE /\ silent = FALSE
  /\ troubles = 0

Trouble == troubles < MaxTroubles /\ troubles' = troubles + 1

schedule == <<streamStatus, reconnectCount, reconnectTimer, outage>>

\* The connection is gone.  A fetch that rejects skips clearTimeout.
Drop(from) ==
  /\ link = from
  /\ link' = "none"

LeaveTimer == strayTimers' = strayTimers + 1

-----------------------------------------------------------------------------
(* _connect *)

\* Seeded fault: every connection begins with what comes next.
ConnectedAtNow ==
  /\ link = "fetching"
  /\ link' = "reading"
  /\ position' = head
  /\ streamStatus' = "connected"
  /\ reconnectCount' = 0 /\ gapDetected' = FALSE
  /\ UNCHANGED <<reconnectTimer, strayTimers, head, lastCursor, stopped, outage, silent, troubles>>

\* Without a cursor the server begins with what comes next.
Connected ==
  /\ link = "fetching"
  /\ link' = "reading"
  /\ position' = IF lastCursor = 0 THEN head ELSE lastCursor
  /\ streamStatus' = "connected"
  /\ reconnectCount' = 0 /\ gapDetected' = FALSE
  /\ UNCHANGED <<reconnectTimer, strayTimers, head, lastCursor, stopped, outage, silent, troubles>>

\* _processLine: the cursor moves before the event is emitted.
ProcessLine ==
  /\ link = "reading" /\ position < head
  /\ position' = position + 1
  /\ lastCursor' = position'
  /\ gapDetected' = FALSE
  /\ UNCHANGED <<schedule, link, strayTimers, head, stopped, silent, troubles>>

\* Seeded fault: the attempts are used up and nothing is reported.
ScheduleOrForget ==
  IF reconnectCount >= MaxReconnectAttempts
    THEN UNCHANGED <<outage, streamStatus, reconnectCount, reconnectTimer>>
    ELSE /\ reconnectCount' = reconnectCount + 1
         /\ reconnectTimer' = TRUE /\ streamStatus' = "reconnecting"
         /\ UNCHANGED outage

\* After an error: a delay, or an outage.
ScheduleReconnect ==
  IF reconnectCount >= MaxReconnectAttempts
    THEN /\ outage' = TRUE /\ streamStatus' = "error"
         /\ UNCHANGED <<reconnectCount, reconnectTimer>>
    ELSE /\ reconnectCount' = reconnectCount + 1
         /\ reconnectTimer' = TRUE /\ streamStatus' = "reconnecting"
         /\ UNCHANGED outage

\* An error status, or the connection breaks while it is read.
Fails ==
  /\ Trouble
  /\ Drop("fetching") \/ Drop("reading")
  /\ ScheduleReconnect
  /\ UNCHANGED <<strayTimers, head, position, lastCursor, gapDetected, stopped, silent>>

Unreachable ==
  /\ Trouble
  /\ Drop("fetching") /\ LeaveTimer
  /\ ScheduleReconnect
  /\ UNCHANGED <<head, position, lastCursor, gapDetected, stopped, silent>>

\* The server ends the stream: the loop is left and nothing follows.
StreamEnds ==
  /\ Trouble
  /\ Drop("reading")
  /\ silent' = TRUE
  /\ UNCHANGED <<schedule, strayTimers, head, position, lastCursor, gapDetected, stopped>>

\* The fetch takes too long and is aborted: an AbortError is not an error.
ConnectTimesOut ==
  /\ Trouble
  /\ Drop("fetching")
  /\ silent' = TRUE
  /\ UNCHANGED <<schedule, strayTimers, head, position, lastCursor, gapDetected, stopped>>

\* The timer of a fetch that failed earlier aborts the connection there is now;
\* a fetch so aborted leaves its own timer in turn.
StrayTimerFires ==
  /\ strayTimers > 0
  /\ link' = "none"
  /\ strayTimers' = IF link = "fetching" THEN strayTimers ELSE strayTimers - 1
  /\ silent' = (silent \/ link # "none")
  /\ UNCHANGED <<schedule, head, position, lastCursor, gapDetected, stopped, troubles>>

ReconnectTimerFires ==
  /\ reconnectTimer
  /\ reconnectTimer' = FALSE
  /\ link' = "fetching" /\ streamStatus' = "connecting"
  /\ UNCHANGED <<reconnectCount, outage, strayTimers, head, position, lastCursor, gapDetected,
                 stopped, silent, troubles>>

-----------------------------------------------------------------------------
(* The gap check, stop, and the server *)

GapCheck ==
  /\ streamStatus = "connected" /\ lastCursor > 0 /\ ~gapDetected
  /\ gapDetected' = TRUE
  /\ UNCHANGED <<schedule, link, strayTimers, head, position, lastCursor, stopped, silent, troubles>>

Stop ==
  /\ ~stopped
  /\ stopped' = TRUE
  /\ streamStatus' = "closed" /\ reconnectTimer' = FALSE
  /\ link' = "none"
  /\ IF link = "fetching" THEN LeaveTimer ELSE UNCHANGED strayTimers
  /\ UNCHANGED <<reconnectCount, outage, head, position, lastCursor, gapDetected, silent, troubles>>

EventHappens ==
  /\ head < MaxEvents
  /\ head' = head + 1
  /\ UNCHANGED <<schedule, link, strayTimers, position, lastCursor, gapDetected, stopped, silent,
                 troubles>>

StreamNext ==
  \/ Connected \/ ProcessLine \/ Fails \/ Unreachable \/ StreamEnds \/ ConnectTimesOut
  \/ StrayTimerFires \/ ReconnectTimerFires \/ GapCheck \/ Stop \/ EventHappens

\* The server answers in the end, timers fire, events that have come are read.
StreamFairness ==
  /\ WF_streamVars(Connected) /\ WF_streamVars(ProcessLine)
  /\ WF_streamVars(ReconnectTimerFires) /\ WF_streamVars(GapCheck)
  /\ WF_streamVars(StrayTimerFires)

StreamSpec == StreamInit /\ [][StreamNext]_streamVars

FairStreamSpec == StreamSpec /\ StreamFairness

-----------------------------------------------------------------------------
(* Properties *)

\* Across reconnects no event is taken twice and none between two taken events
\* is left out (_processLine, _connect with the cursor).
NextEventFollows ==
  [][lastCursor' # lastCursor => lastCursor = 0 \/ lastCursor' = lastCursor + 1]_streamVars

\* A connection that is lost is replaced by one that reads, however connections
\* fail, or the stream is stopped, an outage is reported or a gap is noticed.  The
\* exception is a connection that goes without an error, ended by the server or
\* aborted by a timer, before the first event or while its status is connecting:
\* nothing reconnects it, and the gap check does not look at it (_connect,
\* _scheduleReconnect, _startGapCheck).
LostIsReadOrNoticed ==
  link = "none" ~>
    (\/ link = "reading" \/ stopped \/ outage \/ gapDetected
     \/ silent /\ (lastCursor = 0 \/ streamStatus = "connecting"))
==============================================================================
