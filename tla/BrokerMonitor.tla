---------------------------- MODULE BrokerMonitor ----------------------------
(***************************************************************************)
(* The broker monitor (StartBrokerMonitor and buildMQTTClient in           *)
(* internal/server/broker_events.go, the session fields of                 *)
(* broker_diagnostics.go) and the alerts it raises.  The MQTT client runs  *)
(* its connect and connection-lost handlers in goroutines of their own:    *)
(* they update the hub step by step, taking its lock once per step, and    *)
(* may overlap.                                                            *)
(*                                                                         *)
(* The k-th change of the connection is the k-th handler: odd ones connect *)
(* and even ones lose the connection; 0 is StartBrokerMonitor itself.      *)
(***************************************************************************)
EXTENDS Alerter, SequencesExt

CONSTANT MaxChanges     \* bound: changes of the connection

Handler == 0 .. MaxChanges

ASSUME BrokerMonitorAssumption == MaxChanges \in Nat

VARIABLES
    changes,    \* how often the connection came up or was lost
    stopped,    \* the context of Run is cancelled, or the monitor gave up
    handler,    \* where a handler is; the status publishBrokerStatus and
                \* Publish found before theirs; the one it announces
    overlap,    \* history: a handler started while another one ran
    hub         \* the fields of the BrokerEventHub the handlers write, and the
                \* gauge and the counter of the metrics registry

monitorVars == <<changes, stopped, handler, overlap, hub, alerter>>

Up == changes % 2 = 1 /\ ~stopped   \* the MQTT connection

MonitorInit ==
    /\ changes = 0 /\ stopped = FALSE /\ overlap = FALSE
    /\ handler = [k \in Handler |->
                    [at |-> "new", prev |-> "none", was |-> "none", next |-> "none"]]
    /\ hub = [status |-> "disconnected", subscriptions |-> {},
              sysAvailable |-> FALSE, reconnects |-> 0,
              gauge |-> "disconnected", drops |-> 0]
    /\ NewWebhookAlerter

-----------------------------------------------------------------------------
(* The handlers of the MQTT client.                                        *)

Running(k) == handler[k].at \notin {"new", "done"}

Go(k, at) == handler' = [handler EXCEPT ![k].at = at]

\* publishBrokerStatus(s, ...) comes next.
Announce(k, s) ==
    handler' = [handler EXCEPT ![k].at = "snapshot", ![k].next = s]

\* The client connects, or loses the connection, and starts the handler.
ConnectionChanges ==
    /\ ~stopped /\ changes < MaxChanges
    /\ changes' = changes + 1
    /\ Go(changes + 1, "session")
    /\ overlap' = (overlap \/ \E k \in Handler : Running(k))
    /\ UNCHANGED <<stopped, hub, alerter>>

\* StartBrokerMonitor gives up: unusable TLS files, or a failed connect.
MonitorFails ==
    /\ changes = 0 /\ ~stopped /\ stopped' = TRUE
    /\ Announce(0, "disconnected")
    /\ UNCHANGED <<changes, overlap, hub, alerter>>

\* The context is cancelled: the monitor disconnects, no handler starts.
Stop ==
    /\ ~stopped /\ stopped' = TRUE
    /\ UNCHANGED <<changes, handler, overlap, hub, alerter>>

\* setMonitorSession(clientID, filters, connected, reason)
setMonitorSession(filters, connected) ==
    hub' = [hub EXCEPT !.subscriptions = filters,
                       !.reconnects = IF ~connected /\ hub.status = "connected"
                                      THEN @ + 1 ELSE @]

setSysSubscription(available) == hub' = [hub EXCEPT !.sysAvailable = available]

\* A handler that lost the connection.
LostSession(k) ==
    /\ k % 2 = 0 /\ handler[k].at = "session"
    /\ setMonitorSession({}, FALSE) /\ Go(k, "sys")

LostSysKept(k) ==               \* mutant: $SYS stays available
    /\ k % 2 = 0 /\ handler[k].at = "sys"
    /\ UNCHANGED hub /\ Announce(k, "disconnected")

LostSys(k) ==
    /\ k % 2 = 0 /\ handler[k].at = "sys"
    /\ setSysSubscription(FALSE) /\ Announce(k, "disconnected")

\* A handler that connected.
ConnectSession(k) ==
    /\ k % 2 = 1 /\ handler[k].at = "session"
    /\ setMonitorSession({"#"}, TRUE) /\ Go(k, "sys")

ConnectSys(k) ==
    /\ k % 2 = 1 /\ handler[k].at = "sys"
    /\ setSysSubscription(FALSE) /\ Go(k, "subscribe")

\* subscribeTopic(client, "#"): granted, or refused, failed or timed out.
SubscribeAll(k) ==
    /\ handler[k].at = "subscribe" /\ UNCHANGED hub
    /\ \/ Up /\ Go(k, "subscribeSys")
       \/ Go(k, "failedSession")

FailedSession(k) ==
    /\ handler[k].at = "failedSession"
    /\ setMonitorSession({}, FALSE) /\ Go(k, "failedSys")

FailedSys(k) ==
    /\ handler[k].at = "failedSys"
    /\ setSysSubscription(FALSE) /\ Announce(k, "disconnected")

\* subscribeTopic(client, "$SYS/#")
SubscribeSys(k) ==
    /\ handler[k].at = "subscribeSys" /\ UNCHANGED hub
    /\ \/ Up /\ Go(k, "fullSession")
       \/ Go(k, "refusedSys")

RefusedSys(k) ==
    /\ handler[k].at = "refusedSys"
    /\ setSysSubscription(FALSE) /\ Announce(k, "connected")

FullSession(k) ==
    /\ handler[k].at = "fullSession"
    /\ setMonitorSession({"#", "$SYS/#"}, TRUE) /\ Go(k, "fullSys")

FullSys(k) ==
    /\ handler[k].at = "fullSys"
    /\ setSysSubscription(TRUE) /\ Announce(k, "connected")

SessionStep(k) ==
    /\ \/ LostSession(k) \/ LostSys(k) \/ ConnectSession(k) \/ ConnectSys(k)
       \/ SubscribeAll(k) \/ FailedSession(k) \/ FailedSys(k)
       \/ SubscribeSys(k) \/ RefusedSys(k) \/ FullSession(k) \/ FullSys(k)
    /\ UNCHANGED <<changes, stopped, overlap, alerter>>

-----------------------------------------------------------------------------
(* publishBrokerStatus: a snapshot, the status, its metrics (outside the   *)
(* lock), a log line, and an alert unless the snapshot had that status.    *)

TakeSnapshot(k) ==
    /\ handler[k].at = "snapshot"
    /\ handler' = [handler EXCEPT ![k].at = "publish",
                                  ![k].prev = hub.status]
    /\ UNCHANGED <<changes, stopped, overlap, hub, alerter>>

PublishStatus(k) ==
    /\ handler[k].at = "publish"
    /\ hub' = [hub EXCEPT !.status = handler[k].next]
    /\ handler' = [handler EXCEPT ![k].at = "metrics",
                                  ![k].was = hub.status]
    /\ UNCHANGED <<changes, stopped, overlap, alerter>>

SetMetrics(k) ==
    /\ handler[k].at = "metrics"
    /\ hub' = [hub EXCEPT !.gauge = handler[k].next,
                          !.drops = IF handler[k].next # "connected"
                                       /\ handler[k].was = "connected"
                                    THEN @ + 1 ELSE @]
    /\ Go(k, "log")
    /\ UNCHANGED <<changes, stopped, overlap, alerter>>

PublishLog(k) ==
    /\ handler[k].at = "log"
    /\ Go(k, IF handler[k].prev = handler[k].next THEN "done" ELSE "alert")
    /\ UNCHANGED <<changes, stopped, overlap, hub, alerter>>

Alert(k) ==
    /\ handler[k].at = "alert"
    /\ Enqueue(handler[k].next)
    /\ Go(k, "done")
    /\ UNCHANGED <<changes, stopped, overlap, hub>>

-----------------------------------------------------------------------------

HandlerStep(k) ==
    SessionStep(k) \/ TakeSnapshot(k) \/ PublishStatus(k) \/ SetMetrics(k)
        \/ PublishLog(k) \/ Alert(k)

RunStep ==
    /\ RunTake \/ RunDeliver \/ RunExit
    /\ UNCHANGED <<changes, stopped, handler, overlap, hub>>

\* shutdownHTTPServerAndAlerts, once the context is cancelled.
ShutdownStep ==
    /\ stopped
    /\ Shutdown \/ ShutdownReturns
    /\ UNCHANGED <<changes, stopped, handler, overlap, hub>>

MonitorNext ==
    \/ ConnectionChanges \/ MonitorFails \/ Stop
    \/ \E k \in Handler : HandlerStep(k)
    \/ RunStep \/ ShutdownStep

MonitorSpec == MonitorInit /\ [][MonitorNext]_monitorVars

\* Once Shutdown returned, Run returns and main exits (run.go, main.go): a
\* goroutine may still take steps then, or none any more.
Living == alerter.shut \in {"no", "waiting"}

\* While the process lives its goroutines are scheduled, a subscription is
\* answered or times out after five seconds, and a webhook post ends within its
\* timeout.  Nothing is assumed of the end of Shutdown's context.
MonitorFairSpec ==
    /\ MonitorSpec /\ WF_monitorVars(Living /\ RunStep)
    /\ \A k \in Handler : WF_monitorVars(Living /\ HandlerStep(k))

-----------------------------------------------------------------------------
(* Properties *)

Statuses == {"connected", "disconnected"}

\* Types of the monitor's variables.
MonitorTypeOK ==
    /\ changes \in 0 .. MaxChanges
    /\ stopped \in BOOLEAN /\ overlap \in BOOLEAN
    /\ handler \in [Handler ->
            [at : {"new", "session", "sys", "subscribe", "failedSession",
                   "failedSys", "subscribeSys", "refusedSys", "fullSession",
                   "fullSys", "snapshot", "publish", "metrics", "log", "alert",
                   "done"},
             prev : Statuses \cup {"none"}, was : Statuses \cup {"none"},
             next : Statuses \cup {"none"}]]
    /\ hub \in [status : Statuses, subscriptions : SUBSET {"#", "$SYS/#"},
                sysAvailable : BOOLEAN, reconnects : Nat,
                gauge : Statuses, drops : Nat]
    /\ Len(alerter.queue) <= QueueSize

LastAlert ==
    IF alerter.accepted = <<>> THEN "disconnected" ELSE Last(alerter.accepted)

Quiet == \A k \in Handler : ~Running(k)

\* Once the handlers of the connection ran, one after the other, everything
\* MCM reports of it agrees: the status, the gauge, the session, the
\* availability of $SYS, the two reconnect counters and the last alert.
SerialHandlersAgree ==
    Quiet /\ ~overlap =>
        /\ hub.gauge = hub.status
        /\ hub.status = "connected" => Up \/ stopped
        /\ (hub.subscriptions # {}) <=> (hub.status = "connected")
        /\ hub.sysAvailable <=> "$SYS/#" \in hub.subscriptions
        /\ hub.reconnects = hub.drops
        /\ alerter.full \/ alerter.closed \/ LastAlert = hub.status

\* No alert is sent on the queue that Shutdown closed, which would panic, and
\* run() ends only after it tried to deliver every alert that was accepted, once
\* and in order.
AlertsSound ==
    /\ ~alerter.panicked
    /\ alerter.done => alerter.posted = alerter.accepted

\* Unless its context ends before the deliveries do, Shutdown lets run() finish,
\* whatever is queued; then the process exits with every alert attempted.
ShutdownDrains ==
    alerter.shut # "no" ~> alerter.done \/ alerter.shut = "expired"

\* "1 when the configured Mosquitto broker is connected, 0 otherwise"
\* (internal/metrics/metrics.go:52): when no handler runs, neither the gauge nor
\* the last alert tells of a connection that was lost.  Not kept: the handlers
\* of two changes overlap, and the older one may write last.
ReportsTellConnection ==
    Quiet /\ ~stopped /\ ~Up =>
        /\ hub.gauge = "disconnected"
        /\ alerter.full \/ LastAlert = "disconnected"
=============================================================================
