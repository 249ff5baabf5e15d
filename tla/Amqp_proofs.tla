----------------------------- MODULE Amqp_proofs -----------------------------
(* The safety of Amqp, for every set of requests and every bound: one          *)
(* connection at a time, one outcome per delivery, no twin jobs, and that the  *)
(* agent keeps the promise of Delivery.                                        *)
EXTENDS Amqp, TLAPS

Looping == ~Down /\ lpc # "idle"
Undecided == lpc \in {"decode", "check", "refuse", "create"}

\* A connection that is not being replaced is the only one, and it is the published one.
ConnInv ==
  /\ sup \notin {"open", "publish"} => fresh = 0
  /\ live \subseteq {conn, fresh}

\* Subscriptions are numbered, and the consumer's is the only one with its number.
SubInv == \A s \in subs : s.id > 0 /\ (s.id = sub.id => s = sub)

\* What the pump holds was sent to the subscription it serves, what the loop holds to the one
\* it came by; they are the same only while the pump holds nothing.
HoldInv ==
  /\ csm = "forward" => /\ holder[hand] = sub.id
                        /\ sub \in subs => msg[hand] = "held"
  /\ Looping /\ from.id = sub.id /\ sub \in subs => msg[req] = "held" /\ holder[req] = sub.id
  /\ csm = "forward" /\ Looping => from.id # sub.id

\* The broker still has the request in the pump's or the loop's hands, at its subscription or,
\* once that is gone, in the queue.
PendInv ==
  /\ csm = "forward" => msg[hand] \in {"ready", "held"}
  /\ Looping => msg[req] \in {"ready", "held"}

Outcome(r) == rows[r] > 0 \/ r \in told \/ r \in given

\* A request is acknowledged when something was done about it.
OutInv == lpc \in {"ack", "nack"} => Outcome(req)

\* Nothing that is open conflicts with the row that is about to be created.
TwinInv ==
  /\ NoTwinJobs
  /\ errors = 0 /\ lpc = "create" /\ Operation[req] # NoOperation =>
       \A s \in Requests : Operation[s] = Operation[req] => open[s] = 0

\* A request's outcomes, and those it may still get without going back to the queue.
One(b) == IF b THEN 1 ELSE 0
DueInv ==
  \A r \in Requests :
    rows[r] + One(r \in told) + One(r \in given) + One(hand = r) + One(Undecided /\ req = r)
      + One(msg[r] \in {"unsent", "ready"}) <= returns[r] + 1

IInv == TypeOK /\ ConnInv /\ SubInv /\ HoldInv /\ PendInv /\ OutInv /\ TwinInv /\ DueInv

-----------------------------------------------------------------------------
(* Types *)

\* What Requeue puts back goes from "held" to "ready".
LEMMA RequeueTypes ==
  ASSUME NEW S, BrokerTypeOK, Requeue(S)
  PROVE  /\ subs' \subseteq subs /\ holder' = holder
         /\ msg' \in [Requests -> {"unsent", "ready", "held", "gone"}]
         /\ returns' \in [Requests -> Nat]
BY DEF BrokerTypeOK, Requeue

\* The broker and the two ends of its connections.
LEMMA BrokerTypes == ASSUME TypeOK, [Next]_vars PROVE BrokerTypeOK'
<1>. BrokerTypeOK /\ dials \in Nat /\ subCount \in Nat /\ req \in Requests \cup {NoRequest}
  BY DEF TypeOK, ConnTypeOK, ClientTypeOK
<1>1. CASE UNCHANGED <<brokerVars, live, dials, subCount>>
  BY <1>1 DEF BrokerTypeOK, brokerVars, Conns, SubIds
<1>2. CASE Connecting
  <2>1. CASE Dial
    BY <2>1 DEF Dial, csmVars, BrokerTypeOK, Conns, SubIds
  <2>2. CASE DialFails \/ OpenChannel \/ Redial
    BY <1>1, <2>2 DEF DialFails, OpenChannel, Redial, csmVars
  <2>3. CASE OpenChannelFails
    BY <2>3 DEF OpenChannelFails, brokerVars, csmVars, Closed, BrokerTypeOK, Conns, SubIds
  <2>4. CASE Publish
    BY <2>4 DEF Publish, brokerVars, csmVars, Closed, BrokerTypeOK, Conns, SubIds
  <2>. QED  BY <1>2, <2>1, <2>2, <2>3, <2>4 DEF Connecting
<1>3. CASE Supervising
  BY <1>3 DEF Supervising, SupLook, SupNotified, SupTick, SupReopen, SupReopenFails, SupRecover,
     brokerVars, csmVars, Closed, BrokerTypeOK, Conns, SubIds
<1>4. CASE Consuming
  <2>1. CASE Subscribe
    BY <1>4, <2>1 DEF Subscribe, TypeOK, ConnTypeOK, connVars, BrokerTypeOK, Conns, SubIds
  <2>2. ASSUME NEW r \in Requests, Deliver(r) PROVE BrokerTypeOK'
    BY <2>2 DEF Deliver, Sent, TypeOK, ClientTypeOK, connVars, BrokerTypeOK, Conns, SubIds
  <2>3. CASE SubscribeFails \/ SubscribeAgain \/ Forward \/ PumpEnds
    BY <1>1, <2>3 DEF SubscribeFails, SubscribeAgain, Forward, PumpEnds, connVars
  <2>. QED  BY <1>4, <2>1, <2>2, <2>3 DEF Consuming
<1>5. CASE Handling
  <2>1. CASE Settle
    BY <2>1 DEF Settle, Forgotten, BrokerTypeOK, connVars, csmVars, Conns, SubIds
  <2>. QED
    BY <1>1, <1>5, <2>1 DEF Handling, Decode, Check, CheckFails, Refuse, Create, CreateFails,
       connVars, csmVars
<1>6. CASE Network
  <2>1. CASE BrokerDown
    BY <2>1, RequeueTypes DEF BrokerDown, BrokerTypeOK, connVars, csmVars, Conns, SubIds
  <2>2. CASE ConsumerException
    BY <2>2, RequeueTypes DEF ConsumerException, BrokerTypeOK, connVars, Conns, SubIds
  <2>3. ASSUME NEW k \in 1..dials, BrokerNotices(k) PROVE BrokerTypeOK'
    BY <2>3, RequeueTypes DEF BrokerNotices, BrokerTypeOK, connVars, csmVars, Conns, SubIds
  <2>4. ASSUME NEW k \in 1..dials, Cut(k) \/ ClientNotices(k) PROVE BrokerTypeOK'
    BY <2>4 DEF Cut, ClientNotices, BrokerTypeOK, brokerVars, connVars, csmVars, Conns, SubIds
  <2>5. CASE BrokerUp \/ ChannelException
    BY <2>5 DEF BrokerUp, ChannelException, BrokerTypeOK, brokerVars, connVars, csmVars, Conns,
       SubIds
  <2>. QED  BY <1>6, <2>1, <2>2, <2>3, <2>4, <2>5 DEF Network
<1>7. CASE Outside
  <2>1. CASE Restart
    BY <2>1 DEF Restart, ProcessGone, BrokerTypeOK, brokerVars, Conns, SubIds
  <2>2. ASSUME NEW r \in Requests, Send(r) PROVE BrokerTypeOK'
    BY <2>2 DEF Send, BrokerTypeOK, connVars, csmVars, Conns, SubIds
  <2>3. ASSUME NEW r \in Requests, JobEnds(r) PROVE BrokerTypeOK'
    BY <1>1, <2>3 DEF JobEnds, connVars, csmVars
  <2>. QED  BY <1>7, <2>1, <2>2, <2>3 DEF Outside
<1>8. CASE UNCHANGED vars
  BY <1>1, <1>8 DEF vars, connVars, csmVars
<1>9. CASE Starting
  <2>1. CASE Declare
    BY <1>1, <2>1 DEF Declare, connVars
  <2>2. CASE DeclareFails
    BY <2>2 DEF DeclareFails, ProcessGone, BrokerTypeOK, brokerVars, Conns, SubIds
  <2>. QED  BY <1>9, <2>1, <2>2 DEF Starting
<1>. QED  BY <1>2, <1>3, <1>4, <1>5, <1>6, <1>7, <1>8, <1>9 DEF Next

\* The fields of Connection and the supervisor, which ends with the process.
LEMMA ConnTypes == ASSUME TypeOK, [Next]_vars PROVE ConnTypeOK'
<1>. ConnTypeOK /\ ClientTypeOK
  BY DEF TypeOK
<1>0. dials \in Nat /\ 0 \in 0..dials
  BY DEF ConnTypeOK
<1>1. CASE UNCHANGED connVars /\ Exited' = Exited
  BY <1>1 DEF ConnTypeOK, connVars, Conns
<1>2. CASE Connecting
  <2>1. CASE Dial
    BY <2>1 DEF Dial, loopVars, Exited, ConnTypeOK, Conns
  <2>2. CASE DialFails \/ OpenChannel \/ OpenChannelFails \/ Redial
    BY <2>2 DEF DialFails, OpenChannel, OpenChannelFails, Redial, loopVars, Exited, ConnTypeOK,
       Conns
  <2>3. CASE Publish
    BY <2>3 DEF Publish, Exited, ConnTypeOK, Conns
  <2>. QED  BY <1>2, <2>1, <2>2, <2>3 DEF Connecting
<1>3. CASE Supervising
  <2>1. CASE SupTick
    BY <2>1 DEF SupTick, Diagnosis, loopVars, Exited, ConnTypeOK, Conns
  <2>2. CASE SupLook
    BY <2>2 DEF SupLook, loopVars, Exited, ConnTypeOK, Conns
  <2>3. CASE SupNotified
    BY <2>3 DEF SupNotified, loopVars, Exited, ConnTypeOK, Conns
  <2>4. CASE SupReopen
    BY <2>4 DEF SupReopen, loopVars, Exited, ConnTypeOK, Conns
  <2>5. CASE SupReopenFails
    BY <2>5 DEF SupReopenFails, loopVars, Exited, ConnTypeOK, Conns
  <2>6. CASE SupRecover
    <3>1. /\ dials' = dials /\ sup = "recover" /\ sup' = "dial" /\ chanOpen' = FALSE
          /\ conn' = 0 /\ chan' = 0 /\ note' = 0 /\ watch' = watch /\ fresh' = fresh
          /\ lpc' = lpc
      BY <2>6 DEF SupRecover, loopVars
    <3>. QED  BY <1>0, <3>1 DEF ConnTypeOK, Conns, Exited
  <2>. QED  BY <1>3, <2>1, <2>2, <2>3, <2>4, <2>5, <2>6 DEF Supervising
<1>4. CASE Consuming
  BY <1>1, <1>4 DEF Consuming, Subscribe, Deliver, SubscribeFails, SubscribeAgain, Forward,
     PumpEnds, loopVars, Exited
<1>5. CASE Handling
  BY <1>1, <1>5 DEF Handling, Decode, Check, CheckFails, Refuse, Create, CreateFails, Settle,
     LoopTo, Exited
<1>6. CASE Network
  BY <1>1, <1>6 DEF Network, BrokerDown, BrokerUp, Cut, ClientNotices, BrokerNotices,
     ChannelException, ConsumerException, loopVars, Exited, ConnTypeOK, Conns
<1>7. CASE Outside
  <2>1. CASE Restart
    <3>1. /\ dials' = dials /\ sup' = "dial" /\ lpc' = "off" /\ chanOpen' = FALSE
          /\ conn' = 0 /\ chan' = 0 /\ note' = 0 /\ watch' = 0 /\ fresh' = 0
      BY <2>1 DEF Restart, ProcessGone
    <3>. QED  BY <1>0, <3>1 DEF ConnTypeOK, Conns, Exited
  <2>. QED  BY <1>1, <1>7, <2>1 DEF Outside, Send, JobEnds, loopVars, Exited
<1>8. CASE Starting
  <2>1. CASE Declare
    BY <1>1, <2>1 DEF Declare, Exited
  <2>2. CASE DeclareFails
    <3>1. /\ dials' = dials /\ sup' = "off" /\ lpc' = "exited" /\ chanOpen' = FALSE
          /\ conn' = 0 /\ chan' = 0 /\ note' = 0 /\ watch' = 0 /\ fresh' = 0
      BY <2>2 DEF DeclareFails, ProcessGone
    <3>. QED  BY <1>0, <3>1 DEF ConnTypeOK, Conns, Exited
  <2>. QED  BY <1>8, <2>1, <2>2 DEF Starting
<1>9. CASE UNCHANGED vars
  BY <1>1, <1>9 DEF vars, loopVars, Exited
<1>. QED  BY <1>2, <1>3, <1>4, <1>5, <1>6, <1>7, <1>8, <1>9 DEF Next

\* nil is a subscription in range.
LEMMA NoSubTyped == ASSUME TypeOK PROVE NoSub \in SubIds
BY DEF TypeOK, ConnTypeOK, ClientTypeOK, SubIds, Conns, NoSub

\* The consumer and the message loop.
LEMMA ClientTypes == ASSUME TypeOK, [Next]_vars PROVE ClientTypeOK'
<1>. ClientTypeOK /\ ConnTypeOK /\ NoRequest \notin Requests
  BY RequestAssumption DEF TypeOK
<1>1. CASE UNCHANGED <<csmVars, loopVars, dials>>
  BY <1>1 DEF ClientTypeOK, Down, csmVars, loopVars, Conns, SubIds
<1>2. CASE Connecting
  <2>1. CASE Dial
    BY <2>1 DEF Dial, csmVars, loopVars, ClientTypeOK, Down, ConnTypeOK, Conns, SubIds
  <2>2. CASE Publish
    <3>1. /\ UNCHANGED <<dials, csm, sub, subOpen, subCount, hand, req, from>>
          /\ lpc' = lpc \/ (lpc = "off" /\ lpc' = "declare")
      BY <2>2 DEF Publish, csmVars
    <3>. QED  BY <3>1 DEF ClientTypeOK, Down, Conns, SubIds
  <2>. QED
    BY <1>1, <1>2, <2>1, <2>2 DEF Connecting, DialFails, OpenChannel, OpenChannelFails, Redial
<1>3. CASE Supervising
  BY <1>1, <1>3 DEF Supervising, SupLook, SupNotified, SupTick, SupReopen, SupReopenFails,
     SupRecover
<1>4. CASE Consuming
  <2>1. CASE Subscribe
    BY <2>1 DEF Subscribe, connVars, loopVars, ClientTypeOK, Down, ConnTypeOK, Conns, SubIds
  <2>2. ASSUME NEW r \in Requests, Deliver(r) PROVE ClientTypeOK'
    BY <2>2 DEF Deliver, connVars, loopVars, ClientTypeOK, Down, Conns, SubIds
  <2>3. CASE Forward
    BY <2>3 DEF Forward, HandAfter, connVars, ClientTypeOK, Down, Conns, SubIds
  <2>4. CASE SubscribeFails \/ SubscribeAgain \/ PumpEnds
    BY <2>4 DEF SubscribeFails, SubscribeAgain, PumpEnds, AfterPump, connVars, loopVars,
       ClientTypeOK, Down, Conns, SubIds
  <2>. QED  BY <1>4, <2>1, <2>2, <2>3, <2>4 DEF Consuming
<1>5. CASE Handling
  <2>1. CASE Settle
    <3>1. /\ UNCHANGED <<dials, csm, sub, subOpen, subCount, hand>>
          /\ lpc \in {"ack", "nack"} /\ lpc' = "idle" /\ req' = NoRequest /\ from' = NoSub
      BY <2>1 DEF Settle, connVars, csmVars
    <3>. QED  BY <3>1, NoSubTyped DEF ClientTypeOK, Down, Conns, SubIds
  <2>2. CASE ~Settle
    <3>1. /\ UNCHANGED <<dials, csm, sub, subOpen, subCount, hand, req, from>>
          /\ Undecided
          /\ lpc' \in {"check", "refuse", "create", "ack", "nack"}
      BY <1>5, <2>2 DEF Handling, Decode, Check, CheckFails, Refuse, Create, CreateFails, LoopTo,
         connVars, csmVars, Undecided
    <3>. QED  BY <3>1 DEF ClientTypeOK, Down, Conns, SubIds, Undecided
  <2>. QED  BY <2>1, <2>2
<1>6. CASE Network
  <2>1. CASE ConsumerException
    BY <2>1 DEF ConsumerException, connVars, loopVars, ClientTypeOK, Down, Conns, SubIds
  <2>. QED
    BY <1>1, <1>6, <2>1 DEF Network, BrokerDown, BrokerUp, Cut, ClientNotices, BrokerNotices,
       ChannelException, connVars
<1>7. CASE Outside
  <2>1. CASE Restart
    <3>1. /\ UNCHANGED <<dials, subCount>>
          /\ csm' = "off" /\ sub' = NoSub /\ subOpen' = FALSE /\ hand' = NoRequest
          /\ lpc' = "off" /\ req' = NoRequest /\ from' = NoSub
      BY <2>1 DEF Restart, ProcessGone
    <3>. QED  BY <3>1, NoSubTyped DEF ClientTypeOK, Down, Conns, SubIds
  <2>. QED  BY <1>1, <1>7, <2>1 DEF Outside, Send, JobEnds, connVars
<1>8. CASE Starting
  <2>1. CASE Declare
    BY <2>1 DEF Declare, connVars, ClientTypeOK, Down, Conns, SubIds
  <2>2. CASE DeclareFails
    <3>1. /\ UNCHANGED <<dials, subCount>>
          /\ csm' = "off" /\ sub' = NoSub /\ subOpen' = FALSE /\ hand' = NoRequest
          /\ lpc' = "exited" /\ req' = NoRequest /\ from' = NoSub
      BY <2>2 DEF DeclareFails, ProcessGone
    <3>. QED  BY <3>1, NoSubTyped DEF ClientTypeOK, Down, Conns, SubIds
  <2>. QED  BY <1>8, <2>1, <2>2 DEF Starting
<1>. QED  BY <1>1, <1>2, <1>3, <1>4, <1>5, <1>6, <1>7, <1>8 DEF Next, vars, connVars

\* The job store, the answers and the counters.
LEMMA LedgerTypes == ASSUME TypeOK, [Next]_vars PROVE LedgerTypeOK'
<1>. /\ LedgerTypeOK /\ req \in Requests \cup {NoRequest}
     /\ (Down \/ lpc = "idle") = (req = NoRequest)
  BY DEF TypeOK, ClientTypeOK
<1>. MaxFaults \in Nat /\ MaxErrors \in Nat /\ MaxStops \in Nat
  BY BoundAssumption
<1>1. CASE UNCHANGED <<storeVars, answerVars, countVars>>
  BY <1>1 DEF LedgerTypeOK, storeVars, answerVars, countVars
<1>2. CASE UNCHANGED <<storeVars, answerVars>> /\ Fault
  BY <1>2 DEF LedgerTypeOK, storeVars, answerVars, Fault
<1>3. CASE Handling
  <2>. (~Down /\ lpc # "idle") => req \in Requests
    OBVIOUS
  <2>1. CASE Decode
    BY <2>1 DEF Decode, storeVars, countVars, Down, LedgerTypeOK
  <2>2. CASE CheckFails
    BY <2>2 DEF CheckFails, StoreError, storeVars, answerVars, Down, LedgerTypeOK
  <2>3. CASE Refuse
    BY <2>3 DEF Refuse, storeVars, countVars, Down, LedgerTypeOK
  <2>4. CASE Create
    BY <2>4 DEF Create, answerVars, countVars, Down, LedgerTypeOK
  <2>5. CASE CreateFails
    BY <2>5 DEF CreateFails, StoreError, storeVars, Down, LedgerTypeOK
  <2>. QED  BY <1>1, <1>3, <2>1, <2>2, <2>3, <2>4, <2>5 DEF Handling, Check, Settle
<1>4. CASE Network
  BY <1>1, <1>2, <1>4 DEF Network, BrokerDown, BrokerUp, Cut, ClientNotices, BrokerNotices,
     ChannelException, ConsumerException
<1>5. CASE Outside
  <2>1. CASE Restart
    <3>1. /\ UNCHANGED <<rows, open, told, given, errors>>
          /\ stops < MaxStops /\ stops' = stops + 1
          /\ faults < MaxFaults /\ faults' = faults + 1
      BY <2>1 DEF Restart, ProcessGone, storeVars, answerVars
    <3>. QED  BY <3>1 DEF LedgerTypeOK
  <2>2. ASSUME NEW r \in Requests, JobEnds(r) PROVE LedgerTypeOK'
    BY <2>2 DEF JobEnds, answerVars, countVars, LedgerTypeOK
  <2>. QED  BY <1>1, <1>5, <2>1, <2>2 DEF Outside, Send
<1>6. CASE Connecting \/ Supervising
  BY <1>1, <1>6 DEF Connecting, Dial, DialFails, OpenChannel, OpenChannelFails, Redial, Publish,
     Supervising, SupLook, SupNotified, SupTick, SupReopen, SupReopenFails, SupRecover
<1>7. CASE Consuming
  BY <1>1, <1>2, <1>7 DEF Consuming, Subscribe, SubscribeFails, SubscribeAgain, Forward,
     PumpEnds, Deliver
<1>8. CASE Starting
  <2>1. CASE DeclareFails
    <3>1. /\ UNCHANGED <<rows, open, told, given, errors, stops>>
          /\ faults' = faults \/ (faults < MaxFaults /\ faults' = faults + 1)
      BY <2>1 DEF DeclareFails, ProcessGone, storeVars, answerVars
    <3>. QED  BY <3>1 DEF LedgerTypeOK
  <2>. QED  BY <1>1, <1>8, <2>1 DEF Starting, Declare
<1>. QED  BY <1>1, <1>3, <1>4, <1>5, <1>6, <1>7, <1>8 DEF Next, vars

\* Every variable stays in its range.
LEMMA TypeStep == ASSUME TypeOK, [Next]_vars PROVE TypeOK'
BY BrokerTypes, ConnTypes, ClientTypes, LedgerTypes DEF TypeOK

\* Every variable starts in its range.
LEMMA TypeInit == ASSUME Init PROVE TypeOK
<1>0. 0 \in Conns /\ 0 \in 0..subCount /\ NoSub \in SubIds
  BY DEF Init, Conns, SubIds, NoSub
<1>1. BrokerTypeOK
  BY <1>0 DEF Init, BrokerTypeOK
<1>2. ConnTypeOK
  BY <1>0 DEF Init, ConnTypeOK, Exited
<1>3. ClientTypeOK
  BY <1>0 DEF Init, ClientTypeOK, Down
<1>4. LedgerTypeOK
  BY BoundAssumption DEF Init, LedgerTypeOK
<1>. QED  BY <1>1, <1>2, <1>3, <1>4 DEF TypeOK

-----------------------------------------------------------------------------
(* Connections and subscriptions *)

\* A replaced, refused or given up connection is closed before the field forgets it.
LEMMA ConnStep == ASSUME TypeOK, ConnInv, [Next]_vars PROVE ConnInv'
<1>0. 0 \notin live
  BY DEF TypeOK, BrokerTypeOK
<1>1. CASE UNCHANGED <<live, conn, fresh, sup>>
  BY <1>1 DEF ConnInv
<1>2. CASE Connecting
  <2>1. CASE Dial
    BY <1>0, <2>1 DEF Dial, ConnInv
  <2>2. CASE DialFails
    BY <2>2 DEF DialFails, ConnInv
  <2>3. CASE OpenChannel
    BY <2>3 DEF OpenChannel, ConnInv
  <2>4. CASE OpenChannelFails
    BY <2>4 DEF OpenChannelFails, Closed, ConnInv
  <2>5. CASE Redial
    BY <2>5 DEF Redial, ConnInv
  <2>6. CASE Publish
    BY <2>6 DEF Publish, Closed, ConnInv
  <2>. QED  BY <1>2, <2>1, <2>2, <2>3, <2>4, <2>5, <2>6 DEF Connecting
<1>3. CASE Supervising
  <2>1. CASE SupTick
    BY <2>1 DEF SupTick, Diagnosis, ConnInv
  <2>2. CASE SupLook
    BY <2>2 DEF SupLook, ConnInv
  <2>3. CASE SupNotified
    BY <2>3 DEF SupNotified, ConnInv
  <2>4. CASE SupReopen
    BY <2>4 DEF SupReopen, ConnInv
  <2>5. CASE SupReopenFails
    BY <2>5 DEF SupReopenFails, ConnInv
  <2>6. CASE SupRecover
    BY <1>0, <2>6 DEF SupRecover, Closed, ConnInv
  <2>. QED  BY <1>3, <2>1, <2>2, <2>3, <2>4, <2>5, <2>6 DEF Supervising
<1>4. CASE Consuming \/ Handling
  BY <1>1, <1>4 DEF Consuming, Subscribe, SubscribeFails, SubscribeAgain, Forward, PumpEnds,
     Deliver, Handling, Decode, Check, CheckFails, Refuse, Create, CreateFails, Settle, connVars
<1>5. CASE Network
  <2>1. ASSUME NEW k \in 1..dials, ClientNotices(k) PROVE ConnInv'
    BY <2>1 DEF ClientNotices, connVars, ConnInv
  <2>. QED
    BY <1>1, <1>5, <2>1 DEF Network, BrokerDown, BrokerUp, Cut, BrokerNotices, ChannelException,
       ConsumerException, connVars
<1>6. CASE Outside
  <2>1. CASE Restart
    BY <2>1 DEF Restart, ProcessGone, ConnInv
  <2>. QED  BY <1>1, <1>6, <2>1 DEF Outside, Send, JobEnds, connVars
<1>7. CASE Starting
  BY <1>1, <1>7 DEF Starting, Declare, DeclareFails, ProcessGone, connVars, ConnInv
<1>. QED  BY <1>1, <1>2, <1>3, <1>4, <1>5, <1>6, <1>7 DEF Next, vars, connVars

\* A new subscription has a new number; the broker only forgets old ones.
LEMMA SubStep == ASSUME TypeOK, SubInv, [Next]_vars PROVE SubInv'
<1>1. CASE subs' \subseteq subs /\ sub' = sub
  BY <1>1 DEF SubInv
<1>2. CASE Connecting \/ Supervising \/ Handling
  BY <1>1, <1>2 DEF Connecting, Dial, DialFails, OpenChannel, OpenChannelFails, Redial, Publish,
     Supervising, SupLook, SupNotified, SupTick, SupReopen, SupReopenFails, SupRecover, Handling,
     Decode, Check, CheckFails, Refuse, Create, CreateFails, Settle, brokerVars, csmVars
<1>3. CASE Consuming
  <2>1. CASE Subscribe
    <3>1. subCount \in Nat /\ \A s \in subs : s.id \in 0..subCount
      BY DEF TypeOK, BrokerTypeOK, ClientTypeOK, SubIds
    <3>2. sub' = [id |-> subCount + 1, on |-> conn] /\ subs' = subs \cup {sub'}
      BY <2>1 DEF Subscribe
    <3>3. sub'.id = subCount + 1
      BY <3>2
    <3>. QED  BY <3>1, <3>2, <3>3 DEF SubInv
  <2>. QED
    BY <1>1, <1>3, <2>1 DEF Consuming, SubscribeFails, SubscribeAgain, Forward, PumpEnds,
       Deliver, brokerVars
<1>4. CASE Network
  BY <1>1, <1>4 DEF Network, BrokerDown, BrokerUp, Cut, ClientNotices, BrokerNotices,
     ChannelException, ConsumerException, Requeue, brokerVars, csmVars
<1>5. CASE Outside
  <2>1. CASE Restart
    BY <2>1 DEF Restart, ProcessGone, SubInv, NoSub, brokerVars
  <2>. QED  BY <1>1, <1>5, <2>1 DEF Outside, Send, JobEnds, brokerVars, csmVars
<1>6. CASE Starting
  <2>1. CASE DeclareFails
    BY <2>1 DEF DeclareFails, ProcessGone, SubInv, NoSub, brokerVars
  <2>. QED  BY <1>1, <1>6, <2>1 DEF Starting, Declare, brokerVars
<1>. QED  BY <1>1, <1>2, <1>3, <1>4, <1>5, <1>6 DEF Next, vars, brokerVars, csmVars

-----------------------------------------------------------------------------
(* Requests *)

\* Steps at which nothing happens to a request.
Aside ==
  /\ UNCHANGED <<subs, msg, holder, returns, sub, hand, req, from, storeVars, answerVars, errors>>
  /\ csm' = csm \/ (csm # "forward" /\ csm' # "forward")
  /\ lpc' = lpc \/ (Down /\ lpc' \in {"declare", "idle"})

\* Steps at which the process ends, by itself or from outside.
Ends == ProcessGone /\ lpc' \in {"off", "exited"}

\* Steps at which the broker loses subscriptions.
Back ==
  /\ \E S \in SUBSET subs : Requeue(S)
  /\ UNCHANGED <<csm, sub, hand, loopVars, storeVars, answerVars, errors>>

\* What a step can do to requests.
LEMMA RequestSteps ==
  ASSUME TypeOK, [Next]_vars
  PROVE  \/ Aside \/ Back \/ Subscribe \/ Forward \/ Handling \/ Ends
         \/ \E r \in Requests : Deliver(r) \/ Send(r) \/ JobEnds(r)
<1>1. CASE Connecting
  <2>1. CASE Publish
    BY <2>1 DEF Publish, Aside, Down, brokerVars, csmVars, countVars
  <2>. QED
    BY <1>1, <2>1 DEF Connecting, Dial, DialFails, OpenChannel, OpenChannelFails, Redial, Aside,
       brokerVars, csmVars, loopVars, countVars
<1>2. CASE Supervising
  BY <1>2 DEF Supervising, SupLook, SupNotified, SupTick, SupReopen, SupReopenFails, SupRecover,
     Aside, brokerVars, csmVars, loopVars, countVars
<1>3. CASE Consuming
  BY <1>3 DEF Consuming, SubscribeFails, SubscribeAgain, PumpEnds, AfterPump, Fault, Aside,
     brokerVars, loopVars, countVars
<1>4. CASE Network
  <2>1. CASE BrokerDown
    BY <2>1 DEF BrokerDown, Back, Fault, csmVars
  <2>2. CASE ConsumerException
    BY <2>2 DEF ConsumerException, Passes, Back, Fault
  <2>3. ASSUME NEW k \in 1..dials, BrokerNotices(k) PROVE Back
    BY <2>3 DEF BrokerNotices, Back, csmVars, countVars
  <2>4. ASSUME NEW k \in 1..dials, Cut(k) \/ ClientNotices(k) PROVE Aside
    BY <2>4 DEF Cut, ClientNotices, Fault, Aside, brokerVars, csmVars, loopVars, countVars
  <2>5. CASE BrokerUp \/ ChannelException
    BY <2>5 DEF BrokerUp, ChannelException, Fault, Aside, brokerVars, csmVars, loopVars, countVars
  <2>. QED  BY <1>4, <2>1, <2>2, <2>3, <2>4, <2>5 DEF Network
<1>5. CASE UNCHANGED vars
  BY <1>5 DEF vars, Aside, brokerVars, csmVars, loopVars, countVars
<1>6. CASE Starting
  <2>1. CASE Declare
    BY <2>1 DEF Declare, Aside, Down, brokerVars, countVars, TypeOK, ClientTypeOK
  <2>. QED  BY <1>6, <2>1 DEF Starting, DeclareFails, Ends
<1>7. CASE Restart
  BY <1>7 DEF Restart, Ends
<1>. QED  BY <1>1, <1>2, <1>3, <1>4, <1>5, <1>6, <1>7 DEF Next, Outside

\* What a step of the message loop before the acknowledgement leaves alone.
LEMMA DecidingSteps ==
  ASSUME Handling, ~Settle
  PROVE  /\ UNCHANGED <<subs, msg, holder, returns, csm, sub, hand, req, from>>
         /\ Undecided /\ lpc' \in {"check", "refuse", "create", "ack", "nack"}
BY DEF Handling, Decode, Check, CheckFails, Refuse, Create, CreateFails, LoopTo, brokerVars,
   csmVars, Undecided

\* A request in the hands of the pump or of the loop is one of the requests.
LEMMA InHand ==
  ASSUME TypeOK
  PROVE  /\ csm = "forward" => hand \in Requests
         /\ csm # "forward" => hand = NoRequest
         /\ Looping => req \in Requests
         /\ ~Looping => req = NoRequest
         /\ NoRequest \notin Requests
BY RequestAssumption DEF TypeOK, ClientTypeOK, Looping, Down

\* A request is put back only when its subscription goes.
LEMMA BackKeeps ==
  ASSUME TypeOK, NEW S \in SUBSET subs, Requeue(S), NEW r \in Requests
  PROVE  /\ subs' = subs \ S /\ holder' = holder
         /\ \/ msg'[r] = msg[r] /\ returns'[r] = returns[r]
            \/ /\ msg[r] = "held" /\ msg'[r] = "ready" /\ returns'[r] = returns[r] + 1
               /\ \E s \in S : s.id = holder[r]
BY DEF Requeue

\* An acknowledgement settles the request of the loop and no other.
LEMMA SettleStep ==
  ASSUME TypeOK, HoldInv, Settle
  PROVE  /\ lpc \in {"ack", "nack"} /\ req \in Requests /\ Looping
         /\ lpc' = "idle" /\ req' = NoRequest /\ from' = NoSub
         /\ UNCHANGED <<subs, holder, returns, csm, sub, hand, storeVars, answerVars, errors>>
         /\ \A r \in Requests \ {req} : msg'[r] = msg[r]
         /\ \/ msg'[req] = msg[req]
            \/ msg[req] = "held" /\ msg'[req] = "gone" /\ (csm = "forward" => hand # req)
<1>1. /\ lpc \in {"ack", "nack"} /\ req \in Requests /\ Looping
      /\ lpc' = "idle" /\ req' = NoRequest /\ from' = NoSub
      /\ UNCHANGED <<subs, holder, returns, csm, sub, hand, storeVars, answerVars, errors>>
      /\ msg' = Forgotten
  BY InHand DEF Settle, Looping, Down, csmVars, countVars
<1>2. msg \in [Requests -> {"unsent", "ready", "held", "gone"}]
  BY DEF TypeOK, BrokerTypeOK
<1>3. CASE Acknowledged(req, from)
  BY <1>1, <1>2, <1>3 DEF Forgotten, Acknowledged, HoldInv
<1>4. CASE ~Acknowledged(req, from)
  BY <1>1, <1>4 DEF Forgotten
<1>. QED  BY <1>1, <1>3, <1>4

\* What the pump and the loop hold is with the subscription they believe it is with.
LEMMA HoldStep == ASSUME TypeOK, SubInv, HoldInv, PendInv, [Next]_vars PROVE HoldInv'
<1>1. CASE Aside
  BY <1>1 DEF Aside, HoldInv, Looping, Down
<1>2. CASE Back
  <2>1. PICK S \in SUBSET subs : Requeue(S)
    BY <1>2 DEF Back
  <2>2. UNCHANGED <<csm, sub, hand, lpc, req, from>>
    BY <1>2 DEF Back, loopVars
  <2>3. subs' = subs \ S /\ holder' = holder
    BY <2>1 DEF Requeue
  <2>4. ASSUME sub \in subs', NEW r \in Requests, holder[r] = sub.id
        PROVE  msg'[r] = msg[r]
    BY <2>1, <2>3, <2>4, BackKeeps DEF SubInv
  <2>. QED  BY <2>2, <2>3, <2>4, InHand DEF HoldInv, Looping, Down
<1>3. CASE Subscribe
  <2>1. subCount \in Nat /\ from.id \in 0..subCount
    BY DEF TypeOK, ClientTypeOK, SubIds
  <2>2. csm' # "forward" /\ sub'.id = subCount + 1 /\ UNCHANGED <<lpc, from>>
    BY <1>3 DEF Subscribe, loopVars
  <2>. QED  BY <2>1, <2>2 DEF HoldInv, Looping, Down
<1>4. ASSUME NEW r \in Requests, Deliver(r) PROVE HoldInv'
  <2>1. /\ sub \in subs /\ Prefetched(sub) /\ hand' = r
        /\ UNCHANGED <<subs, sub, lpc, req, from>>
        /\ msg' = [msg EXCEPT ![r] = "held"] /\ holder' = [holder EXCEPT ![r] = sub.id]
    BY <1>4 DEF Deliver, Passes, Sent, loopVars
  <2>2. msg'[r] = "held" /\ holder'[r] = sub.id
    BY <2>1 DEF TypeOK, BrokerTypeOK
  <2>3. Looping => from.id # sub.id
    BY <2>1, InHand DEF HoldInv, Prefetched
  <2>. QED  BY <2>1, <2>2, <2>3 DEF HoldInv, Looping, Down
<1>5. CASE Forward
  BY <1>5 DEF Forward, brokerVars, HoldInv
<1>6. CASE Handling /\ ~Settle
  BY <1>6, DecidingSteps DEF HoldInv, Undecided, Looping, Down
<1>7. CASE Settle
  BY <1>7, SettleStep, InHand DEF HoldInv, Looping, Down
<1>8. ASSUME NEW r \in Requests, Send(r) PROVE HoldInv'
  BY <1>8, InHand DEF Send, PendInv, HoldInv, Looping, Down, TypeOK, BrokerTypeOK, csmVars, loopVars
<1>9. ASSUME NEW r \in Requests, JobEnds(r) PROVE HoldInv'
  BY <1>9 DEF JobEnds, HoldInv, Looping, Down, brokerVars, csmVars, loopVars
<1>10. CASE Ends
  BY <1>10 DEF Ends, ProcessGone, HoldInv, Looping, Down
<1>. QED
  BY <1>1, <1>2, <1>3, <1>4, <1>5, <1>6, <1>7, <1>8, <1>9, <1>10, RequestSteps DEF Handling

\* A request in hand stays with the broker until it is settled.
LEMMA PendStep == ASSUME TypeOK, HoldInv, PendInv, [Next]_vars PROVE PendInv'
<1>0. msg \in [Requests -> {"unsent", "ready", "held", "gone"}]
  BY DEF TypeOK, BrokerTypeOK
<1>1. CASE Aside
  BY <1>1 DEF Aside, PendInv, Looping, Down
<1>2. CASE Back
  <2>1. PICK S \in SUBSET subs : Requeue(S)
    BY <1>2 DEF Back
  <2>2. UNCHANGED <<csm, hand, lpc, req>>
    BY <1>2 DEF Back, loopVars
  <2>3. \A r \in Requests : msg[r] \in {"ready", "held"} => msg'[r] \in {"ready", "held"}
    BY <2>1, BackKeeps
  <2>. QED  BY <2>2, <2>3, InHand DEF PendInv, Looping, Down
<1>3. CASE Subscribe
  BY <1>3 DEF Subscribe, loopVars, PendInv, Looping, Down
<1>4. ASSUME NEW r \in Requests, Deliver(r) PROVE PendInv'
  BY <1>0, <1>4, InHand DEF Deliver, Sent, loopVars, PendInv, Looping, Down
<1>5. CASE Forward
  BY <1>5 DEF Forward, brokerVars, PendInv
<1>6. CASE Handling /\ ~Settle
  BY <1>6, DecidingSteps DEF PendInv, Undecided, Looping, Down
<1>7. CASE Settle
  BY <1>7, SettleStep, InHand DEF PendInv, Looping, Down
<1>8. ASSUME NEW r \in Requests, Send(r) PROVE PendInv'
  BY <1>0, <1>8, InHand DEF Send, PendInv, Looping, Down, csmVars, loopVars
<1>9. ASSUME NEW r \in Requests, JobEnds(r) PROVE PendInv'
  BY <1>9 DEF JobEnds, PendInv, Looping, Down, brokerVars, csmVars, loopVars
<1>10. CASE Ends
  BY <1>10 DEF Ends, ProcessGone, PendInv, Looping, Down
<1>. QED
  BY <1>1, <1>2, <1>3, <1>4, <1>5, <1>6, <1>7, <1>8, <1>9, <1>10, RequestSteps DEF Handling

\* The loop turns to the acknowledgement only by a step that decides.
LEMMA OutStep == ASSUME TypeOK, OutInv, [Next]_vars PROVE OutInv'
<1>0. rows \in [Requests -> Nat]
  BY DEF TypeOK, LedgerTypeOK
<1>1. CASE Aside
  BY <1>1 DEF Aside, storeVars, answerVars, OutInv, Outcome
<1>2. CASE Back
  BY <1>2 DEF Back, loopVars, storeVars, answerVars, OutInv, Outcome
<1>3. CASE Subscribe
  BY <1>3 DEF Subscribe, loopVars, storeVars, answerVars, OutInv, Outcome
<1>4. ASSUME NEW r \in Requests, Deliver(r) \/ Send(r) PROVE OutInv'
  BY <1>4 DEF Deliver, Send, loopVars, storeVars, answerVars, OutInv, Outcome
<1>5. CASE Forward
  BY <1>5 DEF Forward, OutInv
<1>6. CASE Handling
  <2>1. CASE Decode
    BY <2>1 DEF Decode, LoopTo, OutInv, Outcome
  <2>2. CASE Check
    BY <2>2 DEF Check, LoopTo, OutInv
  <2>3. CASE CheckFails
    BY <2>3 DEF CheckFails, LoopTo, OutInv
  <2>4. CASE Refuse
    BY <2>4 DEF Refuse, LoopTo, OutInv, Outcome
  <2>5. CASE Create
    <3>. req \in Requests
      BY <2>5, InHand DEF Create, Looping, Down
    <3>. QED  BY <1>0, <2>5 DEF Create, LoopTo, OutInv, Outcome
  <2>6. CASE CreateFails
    BY <2>6 DEF CreateFails, LoopTo, OutInv, Outcome
  <2>7. CASE Settle
    BY <2>7 DEF Settle, OutInv
  <2>. QED  BY <1>6, <2>1, <2>2, <2>3, <2>4, <2>5, <2>6, <2>7 DEF Handling
<1>7. ASSUME NEW r \in Requests, JobEnds(r) PROVE OutInv'
  BY <1>7 DEF JobEnds, loopVars, answerVars, OutInv, Outcome
<1>8. CASE Ends
  BY <1>8 DEF Ends, OutInv
<1>. QED  BY <1>1, <1>2, <1>3, <1>4, <1>5, <1>6, <1>7, <1>8, RequestSteps

\* The check and the creation of a row are one critical section of the message loop.
LEMMA TwinStep == ASSUME TypeOK, TwinInv, [Next]_vars PROVE TwinInv'
<1>0. open \in [Requests -> Nat] /\ errors \in Nat
  BY BoundAssumption DEF TypeOK, LedgerTypeOK
<1>1. CASE UNCHANGED <<open, errors>> /\ (lpc' = "create" => UNCHANGED <<lpc, req>>)
  BY <1>1 DEF TwinInv, NoTwinJobs
<1>2. CASE Aside
  BY <1>1, <1>2 DEF Aside, storeVars
<1>3. CASE Back \/ Subscribe \/ Forward \/ Ends
  BY <1>1, <1>3 DEF Back, Subscribe, Forward, Ends, ProcessGone, loopVars, storeVars, countVars
<1>4. ASSUME NEW r \in Requests, Deliver(r) \/ Send(r) PROVE TwinInv'
  BY <1>1, <1>4 DEF Deliver, Send, loopVars, storeVars, countVars
<1>5. CASE Handling
  <2>1. CASE Check
    <3>1. UNCHANGED <<open, errors, req>> /\ (lpc' = "create" => ~Conflict(req))
      BY <2>1 DEF Check, LoopTo, storeVars, countVars
    <3>. QED  BY <1>0, <3>1 DEF Conflict, TwinInv, NoTwinJobs
  <2>2. CASE CheckFails \/ CreateFails
    BY <1>0, <2>2 DEF CheckFails, CreateFails, StoreError, TwinInv, NoTwinJobs
  <2>3. CASE Create
    <3>1. /\ lpc = "create" /\ lpc' = "ack" /\ errors' = errors
          /\ open' = [open EXCEPT ![req] = @ + 1] /\ req \in Requests
      BY <2>3, InHand DEF Create, LoopTo, countVars, Looping, Down
    <3>. QED  BY <1>0, <3>1 DEF TwinInv, NoTwinJobs
  <2>. QED
    BY <1>1, <1>5, <2>1, <2>2, <2>3 DEF Handling, Decode, Refuse, Settle, LoopTo, storeVars,
       countVars
<1>6. ASSUME NEW r \in Requests, JobEnds(r) PROVE TwinInv'
  <2>1. UNCHANGED <<errors, lpc, req>> /\ open' = [open EXCEPT ![r] = @ - 1] /\ open[r] > 0
    BY <1>6 DEF JobEnds, loopVars, countVars
  <2>2. \A s \in Requests : open'[s] \in Nat /\ open'[s] <= open[s]
    BY <1>0, <2>1
  <2>. QED  BY <1>0, <2>1, <2>2 DEF TwinInv, NoTwinJobs
<1>. QED  BY <1>2, <1>3, <1>4, <1>5, <1>6, RequestSteps

\* What may still come of a request never exceeds what its deliveries allow.
LEMMA DueStep == ASSUME TypeOK, DueInv, [Next]_vars PROVE DueInv'
<1>0. /\ rows \in [Requests -> Nat] /\ returns \in [Requests -> Nat]
      /\ msg \in [Requests -> {"unsent", "ready", "held", "gone"}]
      /\ told \subseteq Requests /\ given \subseteq Requests
  BY DEF TypeOK, LedgerTypeOK, BrokerTypeOK
<1>1. CASE Aside
  BY <1>1 DEF Aside, Down, storeVars, answerVars, DueInv, One, Undecided
<1>2. CASE Back
  <2>1. PICK S \in SUBSET subs : Requeue(S)
    BY <1>2 DEF Back
  <2>2. UNCHANGED <<hand, lpc, req, rows, told, given>>
    BY <1>2 DEF Back, loopVars, storeVars, answerVars
  <2>3. \A r \in Requests : \/ msg'[r] = msg[r] /\ returns'[r] = returns[r]
                            \/ msg[r] = "held" /\ returns'[r] = returns[r] + 1
    BY <2>1, BackKeeps
  <2>. QED  BY <1>0, <2>2, <2>3 DEF DueInv, One, Undecided
<1>3. CASE Subscribe
  BY <1>3 DEF Subscribe, loopVars, storeVars, answerVars, DueInv, One, Undecided
<1>4. ASSUME NEW r \in Requests, Deliver(r) PROVE DueInv'
  <2>1. /\ hand = NoRequest /\ hand' = r /\ msg[r] = "ready" /\ msg' = [msg EXCEPT ![r] = "held"]
        /\ UNCHANGED <<lpc, req, rows, told, given, returns>>
    BY <1>4, InHand DEF Deliver, Sent, loopVars, storeVars, answerVars
  <2>. QED  BY <1>0, <2>1, RequestAssumption DEF DueInv, One, Undecided
<1>5. CASE Forward
  <2>1. /\ hand' = NoRequest /\ req' = hand /\ lpc = "idle" /\ lpc' = "decode"
        /\ UNCHANGED <<msg, rows, told, given, returns>>
    BY <1>5 DEF Forward, HandAfter, brokerVars, storeVars, answerVars
  <2>. QED  BY <1>0, <2>1, RequestAssumption DEF DueInv, One, Undecided
<1>6. CASE Handling /\ ~Settle
  <2>1. UNCHANGED <<msg, returns, hand, req>> /\ Undecided /\ req \in Requests
    BY <1>6, DecidingSteps, InHand DEF Undecided, Looping, Down
  <2>2. CASE Check \/ CheckFails
    <3>1. UNCHANGED <<rows, told, given>>
      BY <2>2 DEF Check, CheckFails, storeVars, answerVars
    <3>. QED  BY <1>0, <2>1, <3>1 DEF DueInv, One
  <2>3. CASE Decode
    <3>1. /\ UNCHANGED <<rows, told>>
          /\ \/ ~Undecided' /\ given' = given \cup {req}
             \/ given' = given
      BY <2>3 DEF Decode, LoopTo, storeVars, Undecided
    <3>. QED  BY <1>0, <2>1, <3>1 DEF DueInv, One
  <2>4. CASE Refuse
    <3>1. /\ rows' = rows /\ ~Undecided'
          /\ \/ told' = told \cup {req} /\ given' = given
             \/ told' = told /\ given' = given \cup {req}
      BY <2>4 DEF Refuse, LoopTo, storeVars, Undecided
    <3>. QED  BY <1>0, <2>1, <3>1 DEF DueInv, One
  <2>5. CASE Create
    <3>1. rows' = [rows EXCEPT ![req] = @ + 1] /\ UNCHANGED <<told, given>> /\ ~Undecided'
      BY <2>5 DEF Create, LoopTo, answerVars, Undecided
    <3>. QED  BY <1>0, <2>1, <3>1 DEF DueInv, One
  <2>6. CASE CreateFails
    <3>1. UNCHANGED <<rows, told>> /\ given' = given \cup {req} /\ ~Undecided'
      BY <2>6 DEF CreateFails, LoopTo, storeVars, Undecided
    <3>. QED  BY <1>0, <2>1, <3>1 DEF DueInv, One
  <2>. QED  BY <1>6, <2>2, <2>3, <2>4, <2>5, <2>6 DEF Handling
<1>7. CASE Settle
  <2>1. /\ UNCHANGED <<returns, hand, rows, told, given>> /\ ~Undecided'
        /\ \A r \in Requests : msg'[r] = msg[r] \/ msg'[r] = "gone"
    BY <1>7 DEF Settle, Forgotten, Undecided, csmVars, storeVars, answerVars
  <2>. QED  BY <1>0, <2>1 DEF DueInv, One
<1>8. ASSUME NEW r \in Requests, Send(r) PROVE DueInv'
  BY <1>0, <1>8 DEF Send, csmVars, loopVars, storeVars, answerVars, DueInv, One, Undecided
<1>9. ASSUME NEW r \in Requests, JobEnds(r) PROVE DueInv'
  BY <1>9 DEF JobEnds, brokerVars, csmVars, loopVars, answerVars, DueInv, One, Undecided
<1>10. CASE Ends
  <2>1. UNCHANGED <<msg, returns, rows, told, given>> /\ hand' = NoRequest /\ ~Undecided'
    BY <1>10 DEF Ends, ProcessGone, Undecided, brokerVars, storeVars, answerVars
  <2>. QED  BY <1>0, <2>1, RequestAssumption DEF DueInv, One
<1>. QED
  BY <1>1, <1>2, <1>3, <1>4, <1>5, <1>6, <1>7, <1>8, <1>9, <1>10, RequestSteps DEF Handling

-----------------------------------------------------------------------------
(* The theorems *)

\* The inductive invariant holds initially.
LEMMA IInvInit == ASSUME Init PROVE IInv
<1>1. TypeOK
  BY TypeInit
<1>2. ConnInv /\ SubInv /\ HoldInv /\ PendInv /\ OutInv /\ TwinInv
  BY DEF Init, ConnInv, SubInv, HoldInv, PendInv, OutInv, TwinInv, NoTwinJobs, Looping, Down
<1>3. DueInv
  BY RequestAssumption DEF Init, DueInv, One, Undecided
<1>. QED  BY <1>1, <1>2, <1>3 DEF IInv

\* Every step keeps it.
LEMMA IInvStep == ASSUME IInv, [Next]_vars PROVE IInv'
BY TypeStep, ConnStep, SubStep, HoldStep, PendStep, OutStep, TwinStep, DueStep DEF IInv

\* It holds of every state the agent can reach.
THEOREM AmqpInvariant == Spec => []IInv
BY IInvInit, IInvStep, PTL DEF Spec

\* Every variable stays in its range, whatever connections, crashes and redeliveries do.
THEOREM AmqpTypeCorrect == Spec => []TypeOK
BY AmqpInvariant, PTL DEF IInv

\* The agent never leaves a connection open that it has forgotten (connection.go:103-147).
THEOREM OneConnectionKept == Spec => []NoLeakedConnection
<1>1. IInv => NoLeakedConnection
  BY DEF IInv, ConnInv, NoLeakedConnection
<1>. QED  BY <1>1, AmqpInvariant, PTL

\* The pump takes nothing from the broker while the loop works on a delivery of the same
\* subscription (consumer.go:79-81).
THEOREM OneAtATimeKept == Spec => []OneAtATime
<1>1. IInv => OneAtATime
  BY DEF IInv, TypeOK, ClientTypeOK, HoldInv, Looping, Down, OneAtATime
<1>. QED  BY <1>1, AmqpInvariant, PTL

\* A redelivered write does not run beside itself (main.go:425-434).
THEOREM NoTwinsKept == Spec => []NoTwinJobs
<1>1. IInv => NoTwinJobs
  BY DEF IInv, TwinInv
<1>. QED  BY <1>1, AmqpInvariant, PTL

\* A request is handled at most once per delivery (main.go:383-470).
THEOREM OneOutcomeKept == Spec => []OneOutcomePerDelivery
<1>1. ASSUME IInv PROVE OneOutcomePerDelivery
  <2>1. /\ rows \in [Requests -> Nat] /\ returns \in [Requests -> Nat]
        /\ msg \in [Requests -> {"unsent", "ready", "held", "gone"}]
    BY <1>1 DEF IInv, TypeOK, LedgerTypeOK, BrokerTypeOK
  <2>. QED  BY <1>1, <2>1 DEF IInv, DueInv, One, OneOutcomePerDelivery
<1>. QED  BY <1>1, AmqpInvariant, PTL

-----------------------------------------------------------------------------
(* The refinement of Delivery *)

Stutter == UNCHANGED Promise!vars

\* A step that decides nothing and settles nothing is not seen by the promise.
LEMMA Unseen ==
  ASSUME UNCHANGED <<rows, told, given>>,
         \A r \in Requests : msg'[r] = msg[r] \/ {msg[r], msg'[r]} = {"ready", "held"}
  PROVE  Stutter
<1>1. \A r \in Requests : /\ msg'[r] \in {"ready", "held"} <=> msg[r] \in {"ready", "held"}
                          /\ msg'[r] = "gone" <=> msg[r] = "gone"
  OBVIOUS
<1>2. {r \in Requests : msg'[r] \in {"ready", "held"}}
        = {r \in Requests : msg[r] \in {"ready", "held"}}
  BY <1>1
<1>3. {r \in Requests : msg'[r] = "gone"} = {r \in Requests : msg[r] = "gone"}
  BY <1>1
<1>. QED  BY <1>2, <1>3 DEF Stutter, Promise!vars

\* Every step of the agent is one of the promise's, or a stutter.
LEMMA PromiseStep == ASSUME IInv, [Next]_vars PROVE Promise!Next \/ Stutter
<1>. /\ TypeOK /\ HoldInv /\ PendInv /\ OutInv
     /\ msg \in [Requests -> {"unsent", "ready", "held", "gone"}] /\ rows \in [Requests -> Nat]
     /\ told \subseteq Requests /\ given \subseteq Requests
  BY DEF IInv, TypeOK, BrokerTypeOK, LedgerTypeOK
<1>1. CASE Aside \/ Subscribe \/ Forward \/ Ends
  BY <1>1, Unseen DEF Aside, Subscribe, Forward, Ends, ProcessGone, brokerVars, storeVars, answerVars
<1>2. CASE Back
  <2>1. PICK S \in SUBSET subs : Requeue(S)
    BY <1>2 DEF Back
  <2>2. \A r \in Requests : msg'[r] = msg[r] \/ {msg[r], msg'[r]} = {"ready", "held"}
    BY <2>1, BackKeeps
  <2>. QED  BY <1>2, <2>2, Unseen DEF Back, storeVars, answerVars
<1>3. ASSUME NEW r \in Requests, Deliver(r) PROVE Stutter
  <2>1. msg[r] = "ready" /\ msg' = [msg EXCEPT ![r] = "held"] /\ UNCHANGED <<rows, told, given>>
    BY <1>3 DEF Deliver, Sent, storeVars, answerVars
  <2>2. \A s \in Requests : msg'[s] = msg[s] \/ {msg[s], msg'[s]} = {"ready", "held"}
    BY <2>1
  <2>. QED  BY <2>1, <2>2, Unseen
<1>4. ASSUME NEW r \in Requests, JobEnds(r) PROVE Stutter
  BY <1>4, Unseen DEF JobEnds, brokerVars, answerVars
<1>5. ASSUME NEW r \in Requests, Send(r) PROVE Promise!Submit(r)
  <2>1. msg[r] = "unsent" /\ msg' = [msg EXCEPT ![r] = "ready"] /\ UNCHANGED <<rows, told, given>>
    BY <1>5 DEF Send, storeVars, answerVars
  <2>. QED  BY <2>1 DEF Promise!Submit
<1>6. CASE Handling /\ ~Settle
  <2>1. msg' = msg /\ req \in Requests /\ msg[req] \in {"ready", "held"}
    BY <1>6, DecidingSteps, InHand DEF Undecided, Looping, Down, PendInv
  <2>2. CASE Check \/ CheckFails
    BY <2>1, <2>2, Unseen DEF Check, CheckFails, storeVars, answerVars
  <2>3. CASE Decode
    <3>1. UNCHANGED <<rows, told>> /\ (given' = given \/ given' = given \cup {req})
      BY <2>3 DEF Decode, storeVars
    <3>2. CASE given' = given
      BY <2>1, <3>1, <3>2, Unseen
    <3>3. CASE given' = given \cup {req}
      BY <2>1, <3>1, <3>3 DEF Promise!Next, Promise!Discard
    <3>. QED  BY <3>1, <3>2, <3>3
  <2>4. CASE Refuse
    <3>1. /\ rows' = rows
          /\ \/ told' = told \cup {req} /\ given' = given
             \/ told' = told /\ given' = given \cup {req}
      BY <2>4 DEF Refuse, storeVars
    <3>. QED  BY <2>1, <3>1 DEF Promise!Next, Promise!Refuse, Promise!Discard
  <2>5. CASE Create
    <3>1. rows' = [rows EXCEPT ![req] = @ + 1] /\ UNCHANGED <<told, given>>
      BY <2>5 DEF Create, answerVars
    <3>2. {r \in Requests : rows'[r] > 0} = {r \in Requests : rows[r] > 0} \cup {req}
      BY <2>1, <3>1
    <3>. QED  BY <2>1, <3>1, <3>2 DEF Promise!Next, Promise!Accept
  <2>6. CASE CreateFails
    <3>1. UNCHANGED <<rows, told>> /\ given' = given \cup {req}
      BY <2>6 DEF CreateFails, storeVars
    <3>. QED  BY <2>1, <3>1 DEF Promise!Next, Promise!Discard
  <2>. QED  BY <1>6, <2>2, <2>3, <2>4, <2>5, <2>6 DEF Handling
<1>7. CASE Settle
  <2>1. /\ req \in Requests /\ Outcome(req) /\ UNCHANGED <<rows, told, given>>
        /\ \A r \in Requests \ {req} : msg'[r] = msg[r]
        /\ msg'[req] = msg[req] \/ (msg[req] = "held" /\ msg'[req] = "gone")
    BY <1>7, SettleStep DEF OutInv, storeVars, answerVars
  <2>2. CASE msg'[req] = msg[req]
    BY <2>1, <2>2, Unseen
  <2>3. CASE msg[req] = "held" /\ msg'[req] = "gone"
    <3>1. {r \in Requests : msg'[r] \in {"ready", "held"}}
            = {r \in Requests : msg[r] \in {"ready", "held"}} \ {req}
      BY <2>1, <2>3
    <3>2. {r \in Requests : msg'[r] = "gone"} = {r \in Requests : msg[r] = "gone"} \cup {req}
      BY <2>1, <2>3
    <3>. QED  BY <2>1, <2>3, <3>1, <3>2 DEF Outcome, Promise!Next, Promise!Settle
  <2>. QED  BY <2>1, <2>2, <2>3
<1>. QED
  BY <1>1, <1>2, <1>3, <1>4, <1>5, <1>6, <1>7, RequestSteps DEF Handling, Promise!Next

\* A request leaves the broker only after it has a row, an answer or was given up, and nothing
\* is done for it afterwards (main.go:383-470): the agent implements Delivery.
THEOREM DeliveryKept == Spec => ImplementsDelivery
<1>1. Init => Promise!Init
  BY DEF Init, Promise!Init
<1>2. IInv /\ [Next]_vars => [Promise!Next]_(Promise!vars)
  BY PromiseStep DEF Stutter
<1>. QED  BY <1>1, <1>2, AmqpInvariant, PTL DEF Spec, ImplementsDelivery, Promise!Spec

=============================================================================
