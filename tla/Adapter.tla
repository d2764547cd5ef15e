------------------------------ MODULE Adapter ------------------------------
(***************************************************************************)
(* The OllinAI adapter (modules/ollinai/adapter.go, poller.go, webhook.go) *)
(* around the emitter: webhook handlers and the poller emit events, and    *)
(* Shutdown stops the webhook server, cancels the poller, flushes the      *)
(* buffer and closes NATS, in this order.                                  *)
(*                                                                         *)
(* The webhook server waits for its active requests.  The poller is only   *)
(* told to stop: a poll whose answer has arrived emits all of its events,  *)
(* because Emit does not look at the context.                              *)
(*                                                                         *)
(* The emitter is handed in with AdapterConfig, so its owner shares it and *)
(* may call the exported Flush and DrainBuffer at any time: the adapter    *)
(* itself flushes only once, at its end.                                   *)
(***************************************************************************)
EXTENDS NATSEmitter

CONSTANTS
  Poller,                \* the producer that polls; the others are handlers
  WebhookEmitMaxRetries, \* how often a handler calls Emit for one request
  MaxOwnerCalls          \* bound: calls of the emitter's owner

(* Payloads come from SerializePayload and serialize.  The timestamp of a  *)
(* webhook event comes from the request and may lie after the year 9999    *)
(* once it is in UTC; that of a poller event is the time of the poll.      *)
ASSUME AdapterAssumption ==
  /\ Poller \in Producers
  /\ WebhookEmitMaxRetries \in Nat \ {0}
  /\ MaxOwnerCalls \in Nat

Handlers == Producers \ {Poller}

VARIABLES
  shutdown,    \* where Shutdown is
  pollerCtx,   \* "live" or "cancelled"
  polling,     \* the poller is between a fetch and its last Emit
  active,      \* per handler: its request [pc, bad, attempts]
  closed,      \* NATSCloser.Close() was called
  fromWebhook, \* history: events emitted by handlers
  ownerCalls,  \* calls of the emitter's owner so far
  clean        \* history: since Shutdown began no connection was lost, no
               \* publish failed and no deadline passed

adapterVars == <<shutdown, pollerCtx, polling, active, closed, fromWebhook, clean, ownerCalls>>
allVars     == <<vars, adapterVars>>

NoRequest == [pc |-> "idle", bad |-> FALSE, attempts |-> 0]

AdapterInit ==
  /\ Init
  /\ shutdown = "running"
  /\ pollerCtx = "live"
  /\ polling = FALSE
  /\ active = [h \in Handlers |-> NoRequest]
  /\ closed = FALSE
  /\ fromWebhook = {}
  /\ clean = TRUE
  /\ ownerCalls = 0

(* the server accepts a request; its timestamp may be a bad one *)
AcceptRequest(h) ==
  /\ shutdown = "running"
  /\ active[h].pc = "idle"
  /\ \E bad \in BOOLEAN :
       active' = [active EXCEPT ![h] = [pc |-> "handling", bad |-> bad, attempts |-> 0]]
  /\ UNCHANGED <<vars, shutdown, pollerCtx, polling, closed, fromWebhook, clean, ownerCalls>>

(* handleWebhook calls Emit, again while it returns an error; every call   *)
(* gives the event an id of its own                                        *)
HandlerEmits(h) ==
  /\ active[h].pc = "handling"
  /\ active[h].attempts < WebhookEmitMaxRetries
  /\ EmitStart(h, active[h].bad)
  /\ active' = [active EXCEPT ![h].pc = "emitting",
                              ![h].attempts = active[h].attempts + 1]
  /\ fromWebhook' = fromWebhook \cup {emitted'}
  /\ UNCHANGED <<shutdown, pollerCtx, polling, closed, clean, ownerCalls>>

(* it refuses the request, or answers it: 200, or 202 after the last error *)
AnswerRequest(h) ==
  /\ \/ active[h].pc = "handling" /\ active[h].attempts \in {0, WebhookEmitMaxRetries}
     \/ active[h].pc = "emitted"
  /\ active' = [active EXCEPT ![h] = NoRequest]
  /\ UNCHANGED <<vars, shutdown, pollerCtx, polling, closed, fromWebhook, clean, ownerCalls>>

(* a tick of the poller: the API has answered with entries *)
BeginPoll ==
  /\ ~polling
  /\ pollerCtx = "live"
  /\ polling' = TRUE
  /\ UNCHANGED <<vars, shutdown, pollerCtx, active, closed, fromWebhook, clean, ownerCalls>>

PollerEmits ==
  /\ polling
  /\ EmitStart(Poller, FALSE)
  /\ UNCHANGED adapterVars

EndPoll ==
  /\ polling
  /\ emitting[Poller].pc = "idle"
  /\ polling' = FALSE
  /\ UNCHANGED <<vars, shutdown, pollerCtx, active, closed, fromWebhook, clean, ownerCalls>>

(* Emit has returned to a handler: with an error when it refused the event *)
AfterEmit(p) ==
  IF p = Poller \/ emitting'[p].pc # "idle" THEN active
  ELSE [active EXCEPT ![p].pc = IF gone'["refused"] = gone["refused"] THEN "emitted"
                                ELSE "handling"]

(* a producer goes on with its Emit; a failed publish is not clean *)
Continue(p) ==
  /\ EmitPublish(p) \/ EmitBuffer(p)
  /\ active' = AfterEmit(p)
  /\ clean' = (clean /\ (shutdown = "running" \/ emitting'[p].pc # "buffer"))
  /\ UNCHANGED <<shutdown, pollerCtx, polling, closed, fromWebhook, ownerCalls>>

Connection ==
  /\ ~closed
  /\ Connect \/ Disconnect
  /\ clean' = (clean /\ shutdown = "running")
  /\ UNCHANGED <<shutdown, pollerCtx, polling, active, closed, fromWebhook, ownerCalls>>

-----------------------------------------------------------------------------
(* The owner of the emitter: it flushes, or drains the buffer *)

OwnerCalls ==
  /\ ownerCalls < MaxOwnerCalls
  /\ ownerCalls' = ownerCalls + 1
  /\ UNCHANGED <<shutdown, pollerCtx, polling, active, closed, fromWebhook, clean>>

OwnerFlushes == FlushStart /\ OwnerCalls

OwnerFlushStep ==
  /\ shutdown # "flushing"              \* e.mu is held by the owner's Flush
  /\ Flush
  /\ UNCHANGED adapterVars

OwnerDrains == DrainBuffer /\ OwnerCalls

-----------------------------------------------------------------------------
(* Shutdown *)

(* step 1: webhook.Shutdown, no new request is accepted *)
BeginShutdown ==
  /\ shutdown = "running"
  /\ shutdown' = "webhook"
  /\ clean' = connected
  /\ UNCHANGED <<vars, pollerCtx, polling, active, closed, fromWebhook, ownerCalls>>

(* it returns when no request is active, or at the deadline of its context *)
MutWebhookStopped ==                    \* does not wait for active requests
  /\ shutdown = "webhook"
  /\ shutdown' = "poller"
  /\ UNCHANGED <<vars, pollerCtx, polling, active, closed, fromWebhook, clean, ownerCalls>>
WebhookStopped ==
  /\ shutdown = "webhook"
  /\ shutdown' = "poller"
  /\ clean' = (clean /\ \A h \in Handlers : active[h].pc = "idle")
  /\ UNCHANGED <<vars, pollerCtx, polling, active, closed, fromWebhook, ownerCalls>>

(* step 2: pollerCancel() *)
CancelPoller ==
  /\ shutdown = "poller"
  /\ pollerCtx' = "cancelled"
  /\ shutdown' = "flush"
  /\ UNCHANGED <<vars, polling, active, closed, fromWebhook, clean, ownerCalls>>

(* step 3: Flush under a deadline of its own, an error when disconnected *)
MutBeginFlush ==                        \* waits for the connection
  /\ shutdown = "flush"
  /\ FlushStart
  /\ shutdown' = "flushing"
  /\ UNCHANGED <<pollerCtx, polling, active, closed, fromWebhook, clean, ownerCalls>>
BeginFlush ==
  /\ shutdown = "flush"
  /\ \/ /\ FlushStart
        /\ shutdown' = "flushing"
     \/ /\ Unlocked
        /\ ~connected
        /\ shutdown' = "close"
        /\ UNCHANGED vars
  /\ UNCHANGED <<pollerCtx, polling, active, closed, fromWebhook, clean, ownerCalls>>

(* an event that stays behind, or a deadline, is not clean *)
FlushStep ==
  /\ shutdown = "flushing"
  /\ Flush
  /\ shutdown' = IF flush'.pc = "idle" THEN "close" ELSE shutdown
  /\ clean' = (clean /\ Len(flush'.remaining) = Len(flush.remaining) /\ flushCtx = "live")
  /\ UNCHANGED <<pollerCtx, polling, active, closed, fromWebhook, ownerCalls>>

FlushTimesOut ==
  /\ FlushDeadline
  /\ UNCHANGED adapterVars

(* step 4: close NATS *)
CloseNATS ==
  /\ shutdown = "close"
  /\ closed' = TRUE
  /\ connected' = FALSE
  /\ shutdown' = "done"
  /\ UNCHANGED <<emitVars, pollerCtx, polling, active, fromWebhook, clean, ownerCalls>>

ShutdownStep ==
  WebhookStopped \/ CancelPoller \/ BeginFlush \/ FlushStep \/ CloseNATS

AdapterNext ==
  \/ \E h \in Handlers : AcceptRequest(h) \/ HandlerEmits(h) \/ AnswerRequest(h)
  \/ BeginPoll \/ PollerEmits \/ EndPoll
  \/ \E p \in Producers : Continue(p)
  \/ Connection
  \/ OwnerFlushes \/ OwnerFlushStep \/ OwnerDrains
  \/ BeginShutdown \/ ShutdownStep \/ FlushTimesOut

AdapterSpec == AdapterInit /\ [][AdapterNext]_allVars

(* Shutdown and a Flush of the owner are scheduled, and sync.Mutex does    *)
(* not let Shutdown wait for e.mu for ever while others take it; of        *)
(* handlers and poller nothing is assumed                                  *)
AdapterFairSpec ==
  /\ AdapterSpec
  /\ SF_allVars(ShutdownStep)
  /\ WF_allVars(OwnerFlushStep)

-----------------------------------------------------------------------------
(* Every variable of the adapter and of its emitter has its type. *)
AdapterTypeOK ==
  /\ TypeOK
  /\ shutdown \in {"running", "webhook", "poller", "flush", "flushing", "close", "done"}
  /\ pollerCtx \in {"live", "cancelled"}
  /\ polling \in BOOLEAN
  /\ active \in [Handlers -> [pc : {"idle", "handling", "emitting", "emitted"},
                            bad : BOOLEAN, attempts : 0..WebhookEmitMaxRetries]]
  /\ closed \in BOOLEAN
  /\ fromWebhook \in SUBSET (1..emitted)
  /\ clean \in BOOLEAN
  /\ ownerCalls \in 0..MaxOwnerCalls

LeftBehind == {e \in 1..emitted : e \in Buffered \/ \E p \in Producers : e \in InHand(p)}
(* After a shutdown during which NATS stayed connected, no publish failed  *)
(* and no deadline passed, no event of a webhook is left behind: it was    *)
(* published, or had been given up before. (adapter.go Shutdown)           *)
WebhookEventsSaved ==
  shutdown = "done" /\ clean => LeftBehind \cap fromWebhook = {}

(* A shutdown that has begun comes to its end, with or without NATS.       *)
(* (adapter.go Shutdown)                                                   *)
ShutdownEnds == shutdown = "webhook" ~> shutdown = "done"

=============================================================================
