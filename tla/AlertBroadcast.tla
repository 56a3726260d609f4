--------------------------- MODULE AlertBroadcast ---------------------------
(***************************************************************************)
(* The alerts channel of the WebSocket server (api/websocket): every       *)
(* instance of the server polls alert_events while it has subscribers,     *)
(* sends the alerts newer than its cursor to its own subscribers and       *)
(* publishes them for the other instances, which send them on.             *)
(*                                                                         *)
(* A client is one connection.  Tokens, rate limits and the other message  *)
(* types are left out: a subscription here is one that was accepted.       *)
(***************************************************************************)
EXTENDS Integers, Sequences, FiniteSets

CONSTANTS
  Instances,    \* server processes behind one Redis
  Clients,      \* WebSocket connections
  Fetches,      \* executions of fetchAndBroadcast that may overlap in an instance
  Alerts,       \* rows that enter alert_events
  FetchLimit,   \* alerts a fetch asks for (50)
  MaxTime,      \* bound: the times of the rows are 1..MaxTime
  NoHome        \* a connection that is not open

ASSUME BroadcastAssumption ==
  FetchLimit \in Nat \ {0} /\ MaxTime \in Nat \ {0} /\ NoHome \notin Instances

VARIABLES
  time,         \* [Alerts -> 0..MaxTime]: the rows, 0 for one that is not inserted yet
  listening,    \* [Instances -> BOOLEAN]: setupRedisSubscriber is through
  home,         \* [Clients -> the instance it is connected to]
  subscribers,  \* [Instances -> SUBSET Clients]: of the channel
  isActive,     \* [Instances -> BOOLEAN]: the channel polls
  lastSeenAt,   \* [Instances -> the cursor]
  fetch,        \* [Instances -> [Fetches -> the fetch]]
  inbox,        \* [Instances -> Seq(Alerts)]: published, not yet received
  left,         \* history: connections that were removed
  received,     \* history: [Clients -> [Alerts -> how often it was sent to the client]]
  sentBy        \* history: [Alerts -> the instances whose channel broadcast it]

wsVars == <<home, subscribers, isActive, left>>
pollingVars == <<lastSeenAt, fetch, sentBy>>
broadcastVars == <<time, listening, wsVars, pollingVars, inbox, received>>

NoFetch == [pc |-> "idle", rows |-> {}]
Inserted == {a \in Alerts : time[a] > 0}

BroadcastTypeOK ==
  /\ time \in [Alerts -> 0..MaxTime]
  /\ listening \in [Instances -> BOOLEAN] /\ isActive \in [Instances -> BOOLEAN]
  /\ home \in [Clients -> Instances \cup {NoHome}] /\ left \subseteq Clients
  /\ subscribers \in [Instances -> SUBSET Clients]
  /\ lastSeenAt \in [Instances -> 0..MaxTime]
  /\ fetch \in [Instances -> [Fetches ->
       [pc : {"idle", "query", "rows", "send", "publish"}, rows : SUBSET Alerts]]]
  /\ inbox \in [Instances -> Seq(Alerts)]
  /\ received \in [Clients -> [Alerts -> Nat]] /\ sentBy \in [Alerts -> SUBSET Instances]

BroadcastInit ==
  /\ time = [a \in Alerts |-> 0]
  /\ listening = [i \in Instances |-> FALSE]
  /\ home = [c \in Clients |-> NoHome] /\ left = {}
  /\ subscribers = [i \in Instances |-> {}]
  /\ isActive = [i \in Instances |-> FALSE]
  /\ lastSeenAt = [i \in Instances |-> 0]
  /\ fetch = [i \in Instances |-> [f \in Fetches |-> NoFetch]]
  /\ inbox = [i \in Instances |-> <<>>]
  /\ received = [c \in Clients |-> [a \in Alerts |-> 0]]
  /\ sentBy = [a \in Alerts |-> {}]

-----------------------------------------------------------------------------
(* Rows and connections *)

\* The alert service commits a row; its time was taken before.
AlertInserted(a) ==
  /\ time[a] = 0
  /\ \E t \in 1..MaxTime : time' = [time EXCEPT ![a] = t]
  /\ UNCHANGED <<listening, wsVars, pollingVars, inbox, received>>

\* setupRedisSubscriber gets through; when it fails nothing calls it again.
RedisReady(i) ==
  /\ ~listening[i]
  /\ listening' = [listening EXCEPT ![i] = TRUE]
  /\ UNCHANGED <<time, wsVars, pollingVars, inbox, received>>

\* handleConnection.
Connect(c, i) ==
  /\ home[c] = NoHome /\ c \notin left
  /\ home' = [home EXCEPT ![c] = i]
  /\ UNCHANGED <<time, listening, subscribers, isActive, left, pollingVars, inbox, received>>

\* addSubscription: start fetches at once when the channel was idle.
Subscribe(c) ==
  /\ home[c] # NoHome
  /\ LET i == home[c]
     IN /\ c \notin subscribers[i]
        /\ subscribers' = [subscribers EXCEPT ![i] = @ \cup {c}]
        /\ isActive' = [isActive EXCEPT ![i] = TRUE]
        /\ \/ isActive[i] /\ UNCHANGED fetch
           \/ ~isActive[i] /\ \E f \in Fetches :
                /\ fetch[i][f] = NoFetch
                /\ fetch' = [fetch EXCEPT ![i][f].pc = "query"]
  /\ UNCHANGED <<time, listening, home, left, lastSeenAt, sentBy, inbox, received>>

\* BaseChannel.removeSubscriber: the last subscriber stops the polling.
RemoveSubscriber(c) ==
  LET i == home[c]
  IN /\ subscribers' = [subscribers EXCEPT ![i] = @ \ {c}]
     /\ isActive' = [isActive EXCEPT ![i] = @ /\ subscribers[i] \ {c} # {}]

Unsubscribe(c) ==
  /\ home[c] # NoHome
  /\ RemoveSubscriber(c)
  /\ UNCHANGED <<time, listening, home, left, pollingVars, inbox, received>>

\* removeClient: the socket closed or failed, or missed its heartbeat.
RemoveClient(c) ==
  /\ home[c] # NoHome
  /\ RemoveSubscriber(c)
  /\ home' = [home EXCEPT ![c] = NoHome] /\ left' = left \cup {c}
  /\ UNCHANGED <<time, listening, pollingVars, inbox, received>>

-----------------------------------------------------------------------------
(* Fetching, broadcasting, receiving *)

\* broadcastLocal.
BroadcastLocal(i, a) ==
  received' = [c \in Clients |-> [received[c] EXCEPT
                 ![a] = IF c \in subscribers[i] THEN @ + 1 ELSE @]]

\* The polling timer fires.
FetchStart(i, f) ==
  /\ isActive[i] /\ subscribers[i] # {}
  /\ fetch[i][f] = NoFetch
  /\ fetch' = [fetch EXCEPT ![i][f].pc = "query"]
  /\ UNCHANGED <<time, listening, wsVars, lastSeenAt, sentBy, inbox, received>>

\* getRecentAlerts reads the newest rows, or fails and ends the fetch.
FetchRows(i, f) ==
  /\ fetch[i][f].pc = "query"
  /\ \/ \E rows \in SUBSET Inserted :
          /\ \A a \in rows, b \in Inserted \ rows : time[a] >= time[b]
          /\ \/ Cardinality(rows) = FetchLimit
             \/ rows = Inserted /\ Cardinality(rows) < FetchLimit
          /\ fetch' = [fetch EXCEPT ![i][f] = [pc |-> "rows", rows |-> rows]]
     \/ fetch' = [fetch EXCEPT ![i][f] = NoFetch]
  /\ UNCHANGED <<time, listening, wsVars, lastSeenAt, sentBy, inbox, received>>

\* Mutant: alerts of the cursor's own time pass.
NotOlder(i, rows) == {a \in rows : time[a] >= lastSeenAt[i]}

\* The rows past the cursor of the instance.
NewAlerts(i, rows) == {a \in rows : time[a] > lastSeenAt[i]}

\* The fetch resumes: the cursor it compares with is the one of this moment.
FilterNew(i, f) ==
  /\ fetch[i][f].pc = "rows"
  /\ LET newAlerts == NewAlerts(i, fetch[i][f].rows)
     IN IF newAlerts = {}
        THEN fetch' = [fetch EXCEPT ![i][f] = NoFetch] /\ UNCHANGED lastSeenAt
        ELSE /\ \E latest \in {time[a] : a \in newAlerts} :
                  /\ \A a \in newAlerts : time[a] <= latest
                  /\ lastSeenAt' = [lastSeenAt EXCEPT ![i] = latest]
             /\ fetch' = [fetch EXCEPT ![i][f] = [pc |-> "send", rows |-> newAlerts]]
  /\ UNCHANGED <<time, listening, wsVars, sentBy, inbox, received>>

\* broadcastToChannel, newest first: the local subscribers, then Redis, from
\* where it reaches the instances that listen and are connected, itself included.
BroadcastNext(i, f) ==
  /\ fetch[i][f].pc = "send"
  /\ \E a \in fetch[i][f].rows :
       /\ \A b \in fetch[i][f].rows : time[b] <= time[a]
       /\ BroadcastLocal(i, a)
       /\ sentBy' = [sentBy EXCEPT ![a] = @ \cup {i}]
       /\ \E reached \in SUBSET {j \in Instances : listening[j]} :
            inbox' = [j \in Instances |->
                        IF j \in reached THEN Append(inbox[j], a) ELSE inbox[j]]
       /\ fetch' = [fetch EXCEPT ![i][f] =
                      [pc |-> "publish", rows |-> fetch[i][f].rows \ {a}]]
  /\ UNCHANGED <<time, listening, wsVars, lastSeenAt>>

\* publish settled, well or not: the next alert, or the end.
Published(i, f) ==
  /\ fetch[i][f].pc = "publish"
  /\ fetch' = [fetch EXCEPT ![i][f] =
                 IF fetch[i][f].rows = {} THEN NoFetch ELSE [@ EXCEPT !.pc = "send"]]
  /\ UNCHANGED <<time, listening, wsVars, lastSeenAt, sentBy, inbox, received>>

\* The subscriber's "message" handler.
RedisMessage(i) ==
  /\ inbox[i] # <<>>
  /\ inbox' = [inbox EXCEPT ![i] = Tail(@)]
  /\ BroadcastLocal(i, Head(inbox[i]))
  /\ UNCHANGED <<time, listening, wsVars, pollingVars>>

-----------------------------------------------------------------------------
BroadcastNextState ==
  \/ \E a \in Alerts : AlertInserted(a)
  \/ \E c \in Clients :
       (\E i \in Instances : Connect(c, i)) \/ Subscribe(c) \/ Unsubscribe(c) \/ RemoveClient(c)
  \/ \E i \in Instances : RedisReady(i) \/ RedisMessage(i)
  \/ \E i \in Instances, f \in Fetches :
       \/ FetchStart(i, f) \/ FetchRows(i, f) \/ FilterNew(i, f)
       \/ BroadcastNext(i, f) \/ Published(i, f)

BroadcastSpec == BroadcastInit /\ [][BroadcastNextState]_broadcastVars

-----------------------------------------------------------------------------
(* Properties *)

\* A client is sent an alert at most once by every instance that broadcasts it,
\* and once more by its own, whose message comes back to it.
ReceivedPerBroadcast ==
  \A c \in Clients, a \in Alerts :
    received[c][a] <=
      Cardinality(sentBy[a]) + Cardinality(sentBy[a] \cap {home[c]})
        + (IF c \in left THEN 1 ELSE 0)

\* An instance polls exactly while it has subscribers, all connected to it.
PollsForItsSubscribers ==
  \A i \in Instances :
    /\ isActive[i] <=> subscribers[i] # {}
    /\ \A c \in subscribers[i] : home[c] = i

\* However fetches overlap and connections come and go, the cursor keeps an
\* instance from broadcasting an alert twice, and no polling outlives its
\* subscribers (alerts.channel.ts:47, base.channel.ts:70, websocket.server.ts:262).
BroadcastsBounded == ReceivedPerBroadcast /\ PollsForItsSubscribers
==============================================================================
