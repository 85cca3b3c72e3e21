------------------------------- MODULE Alerter -------------------------------
(***************************************************************************)
(* The webhook alerter (internal/alerting/webhook_alerts.go): a bounded    *)
(* queue that any goroutine may add to and that one goroutine empties, and *)
(* the shutdown that closes it while both still run.                       *)
(***************************************************************************)
EXTENDS Naturals, Sequences

CONSTANT QueueSize      \* webhookAlertQueueSize

ASSUME AlerterAssumption == QueueSize \in Nat \ {0}

\* The fields queue, closed and done of the alerter; sending, the alert run()
\* holds between its receive and the end of deliver; shut, how far Shutdown
\* is.  History: panicked, a send on the closed channel; full, an alert was
\* dropped; accepted and posted, what Enqueue took and deliver was called with.
VARIABLE alerter

NewWebhookAlerter ==
    alerter = [queue |-> <<>>, closed |-> FALSE, sending |-> <<>>,
               done |-> FALSE, shut |-> "no", panicked |-> FALSE,
               full |-> FALSE, accepted |-> <<>>, posted |-> <<>>]

\* A non-blocking send on the queue, which panics once the queue is closed.
Sent(alert) ==
    IF alerter.closed THEN [alerter EXCEPT !.panicked = TRUE]
    ELSE IF Len(alerter.queue) = QueueSize
         THEN [alerter EXCEPT !.full = TRUE]
         ELSE [alerter EXCEPT !.queue = Append(@, alert),
                              !.accepted = Append(@, alert)]

\* The critical section of Enqueue: after Shutdown an alert is ignored, and
\* with a full queue it is dropped.
Enqueue(alert) ==
    IF alerter.closed THEN UNCHANGED alerter ELSE alerter' = Sent(alert)

\* run(): receive, deliver once (a failure is logged and forgotten), and
\* leave when the closed queue is empty.
RunTake ==
    /\ alerter.sending = <<>> /\ alerter.queue # <<>>
    /\ alerter' = [alerter EXCEPT !.sending = <<Head(alerter.queue)>>,
                                  !.queue = Tail(@)]

RunDeliver ==
    /\ alerter.sending # <<>>
    /\ alerter' = [alerter EXCEPT !.sending = <<>>,
                                  !.posted = @ \o alerter.sending]

RunExitOnClose ==        \* mutant: the select sees the close before the queue
    /\ alerter.closed /\ alerter.sending = <<>> /\ ~alerter.done
    /\ alerter' = [alerter EXCEPT !.done = TRUE]

RunExit ==
    /\ alerter.closed /\ alerter.queue = <<>> /\ alerter.sending = <<>>
    /\ ~alerter.done
    /\ alerter' = [alerter EXCEPT !.done = TRUE]

\* Shutdown closes the queue under the lock and then waits for done or for
\* its context.
ShutdownKeepsQueue ==       \* mutant: the queue is not closed
    /\ alerter.shut = "no"
    /\ alerter' = [alerter EXCEPT !.shut = "waiting"]

Shutdown ==
    /\ alerter.shut = "no"
    /\ alerter' = [alerter EXCEPT !.closed = TRUE, !.shut = "waiting"]

ShutdownReturns ==
    /\ alerter.shut = "waiting"
    /\ \/ /\ alerter.done
          /\ alerter' = [alerter EXCEPT !.shut = "clean"]
       \/ alerter' = [alerter EXCEPT !.shut = "expired"]
=============================================================================
