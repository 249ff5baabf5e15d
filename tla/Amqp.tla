-------------------------------- MODULE Amqp --------------------------------
(* How requests reach the agent: the supervised connection                   *)
(* (rabbitmq/connection.go), the consumer that resubscribes (consumer.go) and *)
(* the message loop of the service (cmd/agent/main.go), with a broker that    *)
(* redelivers what was not acknowledged. Connections and subscriptions are    *)
(* numbered, 0 is nil. The two ends of a connection notice its loss at        *)
(* different times. Between the first connection and the consumer runAgent    *)
(* declares its queues, and ends the service when a declaration fails.        *)
EXTENDS Integers, FiniteSets

CONSTANTS Requests,      \* requests the backend may send, once each
          Malformed,     \* those that do not decode
          Operation,     \* what each request would do to which VM, NoOperation for a read
          NoOperation,
          NoRequest,     \* no request in hand
          MaxFaults,     \* bound on cut connections, closed channels, failing broker calls and restarts
          MaxErrors,     \* bound on failing calls of the job store
          MaxStops       \* bound on restarts of the service among them

ASSUME RequestAssumption == Malformed \subseteq Requests /\ NoRequest \notin Requests
ASSUME BoundAssumption == MaxFaults \in Nat /\ MaxErrors \in Nat /\ MaxStops \in Nat

VARIABLES
  up,         \* the broker can be reached
  linked,     \* connections over which bytes still pass
  live,       \* connections the client library holds open (IsClosed is false)
  subs,       \* subscriptions the broker knows
  msg,        \* where the broker has each request
  holder,     \* the subscription a delivered request was sent to
  returns,    \* how often each request went back to the queue
  dials,      \* connections opened so far
  conn,       \* Connection.conn
  chan,       \* the connection Connection.channel was opened on
  chanOpen,   \* that channel has not been closed by the broker
  note,       \* Connection.connClose: the connection whose end it announces
  sup,        \* step of the supervisor (at first, of Connect)
  watch,      \* the supervisor's closeCh
  fresh,      \* the connection dial is about to publish
  csm,        \* step of Consumer.Run
  sub,        \* its subscription
  subOpen,    \* the channel of the subscription has not been closed by the broker
  subCount,   \* subscriptions opened so far
  hand,       \* the delivery pump holds
  lpc,        \* step of the message loop
  req,        \* the request it handles
  from,       \* the subscription the request came by
  rows,       \* rows created for each request
  open,       \* how many of them are not terminal
  told,       \* requests whose conflict answer reached the broker
  given,      \* requests given up without an answer that reached the broker
  faults, errors, stops

brokerVars == <<up, linked, subs, msg, holder, returns>>
connVars   == <<dials, conn, chan, chanOpen, note, sup, watch, fresh>>
csmVars    == <<csm, sub, subOpen, subCount, hand>>
loopVars   == <<lpc, req, from>>
storeVars  == <<rows, open>>
answerVars == <<told, given>>
countVars  == <<faults, errors, stops>>
vars == <<brokerVars, live, connVars, csmVars, loopVars, storeVars, answerVars, countVars>>

NoSub == [id |-> 0, on |-> 0]
Fault == faults < MaxFaults /\ faults' = faults + 1 /\ UNCHANGED <<errors, stops>>
StoreError == errors < MaxErrors /\ errors' = errors + 1 /\ UNCHANGED <<faults, stops>>

-----------------------------------------------------------------------------
(* State formulas *)

\* The library and the network both still carry this connection.
Works(k) == k \in live \cap linked

\* Channel: the shared channel, unless it is nil or closed.
Channel == IF chan \in live /\ chanOpen THEN chan ELSE 0

\* What arrives on subscription s reaches the broker, which still knows it.
Passes(s) == s \in subs /\ Works(s.on)

\* The broker puts back what it had sent to subscriptions S and forgets them.
Requeue(S) ==
  LET back == {r \in Requests : msg[r] = "held" /\ \E s \in S : s.id = holder[r]}
  IN  /\ subs' = subs \ S
      /\ msg' = [r \in Requests |-> IF r \in back THEN "ready" ELSE msg[r]]
      /\ returns' = [r \in Requests |-> IF r \in back THEN returns[r] + 1 ELSE returns[r]]
      /\ UNCHANGED holder

\* HasConflict: a row of this operation on this VM is queued or running, whoever asked for it.
ConflictOfOthers(r) ==      \* mutant: a request's own row is not looked at
  /\ Operation[r] # NoOperation
  /\ \E s \in Requests \ {r} : Operation[s] = Operation[r] /\ open[s] > 0
Conflict(r) ==
  /\ Operation[r] # NoOperation
  /\ \E s \in Requests : Operation[s] = Operation[r] /\ open[s] > 0

Init ==
  /\ up = TRUE /\ linked = {} /\ live = {} /\ subs = {}
  /\ msg = [r \in Requests |-> "unsent"]
  /\ holder = [r \in Requests |-> 0]
  /\ returns = [r \in Requests |-> 0]
  /\ dials = 0 /\ conn = 0 /\ chan = 0 /\ chanOpen = FALSE /\ note = 0
  /\ sup = "dial" /\ watch = 0 /\ fresh = 0
  /\ csm = "off" /\ sub = NoSub /\ subOpen = FALSE /\ subCount = 0 /\ hand = NoRequest
  /\ lpc = "off" /\ req = NoRequest /\ from = NoSub
  /\ rows = [r \in Requests |-> 0] /\ open = [r \in Requests |-> 0]
  /\ told = {} /\ given = {}
  /\ faults = 0 /\ errors = 0 /\ stops = 0

-----------------------------------------------------------------------------
(* Backend, broker and network *)

Send(r) ==
  /\ msg[r] = "unsent"
  /\ msg' = [msg EXCEPT ![r] = "ready"]
  /\ UNCHANGED <<up, linked, subs, holder, returns, live, connVars, csmVars, loopVars,
                 storeVars, answerVars, countVars>>

BrokerDown ==
  /\ up /\ Fault
  /\ up' = FALSE /\ linked' = {}
  /\ Requeue(subs)
  /\ UNCHANGED <<live, connVars, csmVars, loopVars, storeVars, answerVars>>

BrokerUp ==
  /\ ~up
  /\ up' = TRUE
  /\ UNCHANGED <<linked, subs, msg, holder, returns, live, connVars, csmVars, loopVars,
                 storeVars, answerVars, countVars>>

\* The network drops a connection; neither end knows yet.
Cut(k) ==
  /\ k \in linked /\ Fault
  /\ linked' = linked \ {k}
  /\ UNCHANGED <<up, subs, msg, holder, returns, live, connVars, csmVars, loopVars,
                 storeVars, answerVars>>

\* The library misses heartbeats and closes the connection.
ClientNotices(k) ==
  /\ k \in live \ linked
  /\ live' = live \ {k}
  /\ UNCHANGED <<brokerVars, connVars, csmVars, loopVars, storeVars, answerVars, countVars>>

BrokerNotices(k) ==
  LET gone == {s \in subs : s.on = k}
  IN  /\ gone # {} /\ ~Works(k)
      /\ Requeue(gone)
      /\ UNCHANGED <<up, linked, live, connVars, csmVars, loopVars, storeVars, answerVars,
                     countVars>>

\* The broker closes the shared channel, for example after a declaration that does not match.
ChannelException ==
  /\ Works(chan) /\ chanOpen /\ Fault
  /\ chanOpen' = FALSE
  /\ UNCHANGED <<brokerVars, live, dials, conn, chan, note, sup, watch, fresh, csmVars,
                 loopVars, storeVars, answerVars>>

\* The broker closes the consumer's channel, for example when an acknowledgement took too long.
ConsumerException ==
  /\ Passes(sub) /\ subOpen /\ Fault
  /\ subOpen' = FALSE
  /\ Requeue({sub})
  /\ UNCHANGED <<up, linked, live, connVars, csm, sub, subCount, hand, loopVars, storeVars,
                 answerVars>>

-----------------------------------------------------------------------------
(* Connection: Connect, then the supervisor *)

\* amqp.Dial
Dial ==
  /\ sup = "dial" /\ up
  /\ dials' = dials + 1
  /\ fresh' = dials' /\ sup' = "open"
  /\ linked' = linked \cup {dials'} /\ live' = live \cup {dials'}
  /\ UNCHANGED <<up, subs, msg, holder, returns, conn, chan, chanOpen, note, watch, csmVars,
                 loopVars, storeVars, answerVars, countVars>>

DialFails ==
  /\ sup = "dial" /\ ~up
  /\ sup' = "backoff"
  /\ UNCHANGED <<brokerVars, live, dials, conn, chan, chanOpen, note, watch, fresh, csmVars,
                 loopVars, storeVars, answerVars, countVars>>

\* What is left of the open connections once an old one is closed.
ClosedNotAtAll(old) == live      \* mutant: the old connection is forgotten, not closed
Closed(old) == live \ {old}

\* conn.Channel on the new connection
OpenChannel ==
  /\ sup = "open" /\ Works(fresh)
  /\ sup' = "publish"
  /\ UNCHANGED <<brokerVars, live, dials, conn, chan, chanOpen, note, watch, fresh, csmVars,
                 loopVars, storeVars, answerVars, countVars>>

OpenChannelFails ==
  /\ sup = "open" /\ ~Works(fresh)
  /\ live' = Closed(fresh) /\ fresh' = 0
  /\ sup' = "backoff"
  /\ UNCHANGED <<brokerVars, dials, conn, chan, chanOpen, note, watch, csmVars, loopVars,
                 storeVars, answerVars, countVars>>

Redial ==
  /\ sup = "backoff"
  /\ sup' = "dial"
  /\ UNCHANGED <<brokerVars, live, dials, conn, chan, chanOpen, note, watch, fresh, csmVars,
                 loopVars, storeVars, answerVars, countVars>>

\* NotifyClose, then conn, channel and connClose are replaced and the old connection closed.
\* NotifyClose on a connection that is closed already closes the receiver at once, so watching
\* it announces the end of the connection either way. The first time, Connect returns and
\* runAgent goes on to declare its queues while the supervisor already runs.
Publish ==
  /\ sup = "publish"
  /\ conn' = fresh /\ chan' = fresh /\ chanOpen' = TRUE /\ note' = fresh
  /\ live' = Closed(conn)
  /\ sup' = "look" /\ fresh' = 0
  /\ lpc' = IF lpc = "off" THEN "declare" ELSE lpc
  /\ UNCHANGED <<brokerVars, dials, watch, csmVars, req, from, storeVars, answerVars, countVars>>

SupLook ==
  /\ sup = "look"
  /\ watch' = note /\ sup' = "select"
  /\ UNCHANGED <<brokerVars, live, dials, conn, chan, chanOpen, note, fresh, csmVars, loopVars,
                 storeVars, answerVars, countVars>>

SupNotified ==
  /\ sup = "select" /\ watch # 0 /\ watch \notin live
  /\ sup' = "recover"
  /\ UNCHANGED <<brokerVars, live, dials, conn, chan, chanOpen, note, watch, fresh, csmVars,
                 loopVars, storeVars, answerVars, countVars>>

\* healthy: where the watchdog goes after its look at the connection and the shared channel.
DiagnosisConnOnly == IF conn \in live THEN "look" ELSE "recover"   \* mutant: channel not looked at
Diagnosis ==
  CASE conn \notin live                   -> "recover"
    [] conn \in live /\ Channel # conn    -> "reopen"
    [] OTHER                              -> "look"

SupTick ==
  /\ sup = "select"
  /\ sup' = Diagnosis
  /\ UNCHANGED <<brokerVars, live, dials, conn, chan, chanOpen, note, watch, fresh, csmVars,
                 loopVars, storeVars, answerVars, countVars>>

SupReopen ==
  /\ sup = "reopen" /\ Works(conn)
  /\ chan' = conn /\ chanOpen' = TRUE /\ sup' = "look"
  /\ UNCHANGED <<brokerVars, live, dials, conn, note, watch, fresh, csmVars, loopVars,
                 storeVars, answerVars, countVars>>

SupReopenFails ==
  /\ sup = "reopen" /\ ~Works(conn)
  /\ sup' = "recover"
  /\ UNCHANGED <<brokerVars, live, dials, conn, chan, chanOpen, note, watch, fresh, csmVars,
                 loopVars, storeVars, answerVars, countVars>>

\* recover
SupRecover ==
  /\ sup = "recover"
  /\ conn' = 0 /\ chan' = 0 /\ chanOpen' = FALSE /\ note' = 0
  /\ live' = Closed(conn)
  /\ sup' = "dial"
  /\ UNCHANGED <<brokerVars, dials, watch, fresh, csmVars, loopVars, storeVars, answerVars,
                 countVars>>

-----------------------------------------------------------------------------
(* The start of runAgent and its end *)

\* The process is gone, and its connections with it; what it had in hand goes back, at the
\* latest when the broker notices.
ProcessGone ==
  /\ live' = {}
  /\ conn' = 0 /\ chan' = 0 /\ chanOpen' = FALSE
  /\ note' = 0 /\ watch' = 0 /\ fresh' = 0
  /\ csm' = "off" /\ sub' = NoSub /\ subOpen' = FALSE /\ hand' = NoRequest
  /\ req' = NoRequest /\ from' = NoSub
  /\ UNCHANGED <<brokerVars, dials, subCount, storeVars, answerVars, errors>>

\* DeclareQueue, DeclareStateQueue, DeclarePlainQueue, each on the channel shared at that
\* moment: the last one succeeds, and the consumer and the message loop start.
Declare ==
  /\ lpc = "declare" /\ Channel \in linked
  /\ csm' = "subscribe" /\ lpc' = "idle"
  /\ UNCHANGED <<brokerVars, live, connVars, sub, subOpen, subCount, hand, req, from, storeVars,
                 answerVars, countVars>>

\* One of them fails, without a channel, on a lost connection or because the broker refuses
\* it: runAgent returns the error and the service exits. Nothing starts it again.
DeclareFails ==
  /\ lpc = "declare"
  /\ \/ Channel \notin linked /\ UNCHANGED <<faults, stops>>
     \/ Channel \in linked /\ faults < MaxFaults /\ faults' = faults + 1 /\ UNCHANGED stops
  /\ ProcessGone
  /\ sup' = "off" /\ lpc' = "exited"

\* The service is stopped or dies, and somebody starts it; or it had exited.
Restart ==
  /\ stops < MaxStops /\ stops' = stops + 1
  /\ faults < MaxFaults /\ faults' = faults + 1
  /\ ProcessGone
  /\ sup' = "dial" /\ lpc' = "off"

-----------------------------------------------------------------------------
(* Consumer *)

\* subscribe: a channel of its own, Qos(1), QueueDeclare, Consume.
Subscribe ==
  /\ csm = "subscribe" /\ Works(conn)
  /\ subCount' = subCount + 1
  /\ sub' = [id |-> subCount', on |-> conn] /\ subOpen' = TRUE
  /\ subs' = subs \cup {sub'}
  /\ csm' = "pump"
  /\ UNCHANGED <<up, linked, msg, holder, returns, live, connVars, hand, loopVars, storeVars,
                 answerVars, countVars>>

SubscribeFails ==
  /\ csm = "subscribe"
  /\ \/ ~Works(conn) /\ UNCHANGED countVars
     \/ Works(conn) /\ Fault
  /\ csm' = "backoff"
  /\ UNCHANGED <<brokerVars, live, connVars, sub, subOpen, subCount, hand, loopVars, storeVars,
                 answerVars>>

SubscribeAgain ==
  /\ csm = "backoff"
  /\ csm' = "subscribe"
  /\ UNCHANGED <<brokerVars, live, connVars, sub, subOpen, subCount, hand, loopVars, storeVars,
                 answerVars, countVars>>

\* Consume without autoAck: the broker keeps what it sent until it is acknowledged.
SentAutoAck(r) == [msg EXCEPT ![r] = "gone"]      \* mutant: autoAck
Sent(r) == [msg EXCEPT ![r] = "held"]

\* The broker sends the next request to a subscription with nothing unacknowledged.
PrefetchedAny(s) == TRUE      \* mutant: no Qos(1)
Prefetched(s) == \A r \in Requests : ~(msg[r] = "held" /\ holder[r] = s.id)

Deliver(r) ==
  /\ msg[r] = "ready"
  /\ csm = "pump" /\ subOpen /\ Passes(sub)
  /\ Prefetched(sub)
  /\ msg' = Sent(r) /\ holder' = [holder EXCEPT ![r] = sub.id]
  /\ hand' = r /\ csm' = "forward"
  /\ UNCHANGED <<up, linked, subs, returns, live, connVars, sub, subOpen, subCount, loopVars,
                 storeVars, answerVars, countVars>>

HandAfterKept == hand      \* mutant: the pump still holds what it handed over
HandAfter == NoRequest

\* pump hands the delivery to the message loop, which must be waiting for one; the
\* subscription may be gone by then.
Forward ==
  /\ csm = "forward" /\ lpc = "idle"
  /\ req' = hand /\ from' = sub /\ lpc' = "decode"
  /\ hand' = HandAfter /\ csm' = "pump"
  /\ UNCHANGED <<brokerVars, live, connVars, sub, subOpen, subCount, storeVars, answerVars,
                 countVars>>

\* The deliveries end with the subscription's channel: the consumer closes it and starts over.
AfterPumpStops == "off"      \* mutant: nobody subscribes again
AfterPump == "subscribe"

PumpEnds ==
  /\ csm = "pump" /\ ~(sub.on \in live /\ subOpen)
  /\ csm' = AfterPump
  /\ UNCHANGED <<brokerVars, live, connVars, sub, subOpen, subCount, hand, loopVars, storeVars,
                 answerVars, countVars>>

-----------------------------------------------------------------------------
(* Message loop *)

LoopTo(step) == lpc' = step /\ UNCHANGED <<req, from>>

\* A request that does not decode is given up.
Decode ==
  /\ lpc = "decode"
  /\ IF req \in Malformed
     THEN LoopTo("nack") /\ given' = given \cup {req}
     ELSE LoopTo("check") /\ UNCHANGED given
  /\ UNCHANGED <<brokerVars, live, connVars, csmVars, storeVars, told, countVars>>

\* HasConflict, for writes; an error of it reads as no conflict.
Check ==
  /\ lpc = "check"
  /\ LoopTo(IF Conflict(req) THEN "refuse" ELSE "create")
  /\ UNCHANGED <<brokerVars, live, connVars, csmVars, storeVars, answerVars, countVars>>

CheckFails ==
  /\ lpc = "check" /\ Operation[req] # NoOperation /\ StoreError
  /\ LoopTo("create")
  /\ UNCHANGED <<brokerVars, live, connVars, csmVars, storeVars, answerVars>>

\* publishConflictResponse, without a confirm and without a look at its error: on a channel
\* that is closed, or that no longer reaches the broker, the answer is lost.
Refuse ==
  /\ lpc = "refuse"
  /\ IF Channel \in linked
     THEN told' = told \cup {req} /\ UNCHANGED given
     ELSE given' = given \cup {req} /\ UNCHANGED told
  /\ LoopTo("ack")
  /\ UNCHANGED <<brokerVars, live, connVars, csmVars, storeVars, countVars>>

Create ==
  /\ lpc = "create"
  /\ rows' = [rows EXCEPT ![req] = @ + 1] /\ open' = [open EXCEPT ![req] = @ + 1]
  /\ LoopTo("ack")
  /\ UNCHANGED <<brokerVars, live, connVars, csmVars, answerVars, countVars>>

CreateFails ==
  /\ lpc = "create" /\ StoreError
  /\ given' = given \cup {req}
  /\ LoopTo("nack")
  /\ UNCHANGED <<brokerVars, live, connVars, csmVars, storeVars, told>>

\* An acknowledgement, or Nack without requeue, makes the broker forget the request, if it
\* arrives and the request is still with that subscription. Its error is ignored.
Acknowledged(r, s) == Passes(s) /\ msg[r] = "held" /\ holder[r] = s.id
ForgottenRequeued ==      \* mutant: Nack with requeue
  IF Acknowledged(req, from) THEN [msg EXCEPT ![req] = "ready"] ELSE msg
Forgotten ==
  IF Acknowledged(req, from) THEN [msg EXCEPT ![req] = "gone"] ELSE msg

Settle ==
  /\ lpc \in {"ack", "nack"}
  /\ msg' = Forgotten
  /\ lpc' = "idle" /\ req' = NoRequest /\ from' = NoSub
  /\ UNCHANGED <<up, linked, subs, holder, returns, live, connVars, csmVars, storeVars,
                 answerVars, countVars>>

\* A job of the request ends.
JobEnds(r) ==
  /\ open[r] > 0
  /\ open' = [open EXCEPT ![r] = @ - 1]
  /\ UNCHANGED <<brokerVars, live, connVars, csmVars, loopVars, rows, answerVars, countVars>>

-----------------------------------------------------------------------------
Connecting == Dial \/ DialFails \/ OpenChannel \/ OpenChannelFails \/ Redial \/ Publish
Supervising == SupLook \/ SupNotified \/ SupTick \/ SupReopen \/ SupReopenFails \/ SupRecover
Consuming ==
  \/ Subscribe \/ SubscribeFails \/ SubscribeAgain \/ Forward \/ PumpEnds
  \/ \E r \in Requests : Deliver(r)
Starting == Declare \/ DeclareFails
Handling == Decode \/ Check \/ CheckFails \/ Refuse \/ Create \/ CreateFails \/ Settle
Network ==
  \/ BrokerDown \/ BrokerUp \/ ChannelException \/ ConsumerException
  \/ \E k \in 1..dials : Cut(k) \/ ClientNotices(k) \/ BrokerNotices(k)
Outside == Restart \/ \E r \in Requests : Send(r) \/ JobEnds(r)

Next == Connecting \/ Supervising \/ Starting \/ Consuming \/ Handling \/ Network \/ Outside

\* The goroutines go on, the watchdog's ticker fires, both ends notice a lost connection in
\* time, an unreachable broker comes back and has somebody to send to. Jobs need not end, and
\* nobody need start a service that has exited: it is installed without recovery actions.
Fairness ==
  /\ WF_vars(Connecting) /\ WF_vars(Starting) /\ WF_vars(Handling)
  /\ WF_vars(SupLook) /\ WF_vars(SupNotified) /\ WF_vars(SupTick)
  /\ WF_vars(SupReopen \/ SupReopenFails) /\ WF_vars(SupRecover)
  /\ WF_vars(Subscribe \/ SubscribeFails) /\ WF_vars(SubscribeAgain)
  /\ WF_vars(Forward) /\ WF_vars(PumpEnds) /\ WF_vars(BrokerUp)
  /\ WF_vars(\E k \in 1..dials : ClientNotices(k) \/ BrokerNotices(k))
  /\ \A r \in Requests : WF_vars(Deliver(r))

Spec == Init /\ [][Next]_vars
FairSpec == Spec /\ Fairness

-----------------------------------------------------------------------------
(* Properties *)

Conns == 0..dials
SubIds == [id : 0..subCount, on : Conns]

BrokerTypeOK ==
  /\ up \in BOOLEAN /\ linked \subseteq Conns \ {0} /\ live \subseteq Conns \ {0}
  /\ subs \subseteq SubIds
  /\ msg \in [Requests -> {"unsent", "ready", "held", "gone"}]
  /\ holder \in [Requests -> 0..subCount] /\ returns \in [Requests -> Nat]
\* No consumer and no message loop yet, or no longer.
Down == lpc \in {"off", "declare", "exited"}
Exited == lpc = "exited"

ConnTypeOK ==
  /\ dials \in Nat /\ conn \in Conns /\ chan \in Conns /\ chanOpen \in BOOLEAN
  /\ note \in Conns /\ watch \in Conns /\ fresh \in Conns
  /\ sup \in {"dial", "backoff", "open", "publish", "look", "select", "reopen", "recover",
             "off"}
  /\ (sup = "off") = Exited
ClientTypeOK ==
  /\ csm \in {"off", "subscribe", "backoff", "pump", "forward"} /\ (csm = "off") = Down
  /\ sub \in SubIds /\ subOpen \in BOOLEAN /\ subCount \in Nat
  /\ hand \in Requests \cup {NoRequest} /\ (csm = "forward") = (hand # NoRequest)
  /\ lpc \in {"off", "declare", "exited", "idle", "decode", "check", "refuse", "create", "ack",
              "nack"}
  /\ req \in Requests \cup {NoRequest} /\ (Down \/ lpc = "idle") = (req = NoRequest)
  /\ from \in SubIds
LedgerTypeOK ==
  /\ rows \in [Requests -> Nat] /\ open \in [Requests -> Nat]
  /\ told \subseteq Requests /\ given \subseteq Requests
  /\ faults \in 0..MaxFaults /\ errors \in 0..MaxErrors /\ stops \in 0..MaxStops

\* Every variable stays in its range; the consumer runs when the loop does, and both hold a
\* request exactly at the steps that need one (consumer.go:104-120, main.go:383-470).
TypeOK == BrokerTypeOK /\ ConnTypeOK /\ ClientTypeOK /\ LedgerTypeOK

\* The agent keeps at most one connection open: the published one and, while dial runs, the
\* one about to replace it. None is forgotten open (connection.go:103-147, 229-245).
NoLeakedConnection == live \subseteq {conn, fresh}

\* A request is handled once per delivery: rows, conflict answers and requests given up add
\* up to no more than the times the broker sent it (main.go:383-470, consumer.go:104-120).
OneOutcomePerDelivery ==
  \A r \in Requests :
    rows[r] + (IF r \in told THEN 1 ELSE 0) + (IF r \in given THEN 1 ELSE 0) <= returns[r] + 1

\* A write that is delivered again, because its acknowledgement was lost, does not run beside
\* itself: unless the check itself failed, one operation on one VM has one open row
\* (main.go:425-434).
NoTwinJobs ==
  errors = 0 =>
    \A r, s \in Requests :
      (open[r] > 0 /\ Operation[r] # NoOperation) =>
         open[r] = 1 /\ (s # r /\ Operation[s] = Operation[r] => open[s] = 0)

\* With one request at a time, nothing else is taken from the broker while the loop still
\* works on a delivery of this subscription (consumer.go:79-81).
OneAtATime ==
  (csm = "forward" /\ lpc # "idle") => from # sub

\* The agent's handling of requests implements the promise of Delivery.
Promise == INSTANCE Delivery WITH
  pending <- {r \in Requests : msg[r] \in {"ready", "held"}},
  settled <- {r \in Requests : msg[r] = "gone"},
  accepted <- {r \in Requests : rows[r] > 0},
  refused <- told, discarded <- given

\* A request leaves the broker only after it has a row, an answer or was given up, and
\* nothing is done for it afterwards, whatever crashes, cuts and redeliveries happen.
ImplementsDelivery == Promise!Spec

\* The agent never stays disconnected or deaf: after the last fault it is connected, has a
\* usable shared channel and is subscribed for good (connection.go:20-23, 150-181,
\* consumer.go:23-28), or a fault hit the declarations of its start and the service has
\* exited for good (main.go:201-220, windows.go:50-56).
Serving == Works(conn) /\ Channel = conn /\ csm \in {"pump", "forward"} /\ Passes(sub)
EventuallyServing == <>[]Serving \/ <>[](Exited /\ faults > 0)

\* Every request that was sent is settled in the end (main.go:383-470), unless a fault ends
\* the service during its start and nobody starts it again (main.go:201-220).
RequestsSettle ==
  \/ \A r \in Requests : msg[r] = "ready" ~> msg[r] = "gone"
  \/ <>[](Exited /\ faults > 0)
=============================================================================
