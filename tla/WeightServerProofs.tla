------------------------- MODULE WeightServerProofs -------------------------
(***************************************************************************)
(* WeightServer's safety properties, proved for every set of requests and  *)
(* weights and every queue capacity.  The inductive invariant is proved    *)
(* part by part: each lemma assumes the parts before it.                   *)
(***************************************************************************)
EXTENDS WeightServer, SequenceTheorems, TLAPS

USE DEF Receiving, Running, EngineStep, channelVars, engineVars, queryVars, updateVars,
        Settle

\* Sending on the watch channel appends a vector to it or changes nothing.
LEMMA PublishAppends ==
  ASSUME TypeOK, NEW u \in Updates, Publish(u)
  PROVE  /\ sent' \in Seq(Weights) /\ ackVer' \in [Updates -> Nat]
         /\ lone' \in SUBSET Updates
         /\ Len(sent') >= Len(sent)
         /\ \A i \in 1 .. Len(sent) : sent'[i] = sent[i]
<1>1. CASE Receiving
  <2>1. /\ Append(sent, body[u]) \in Seq(Weights)
        /\ Len(Append(sent, body[u])) = Len(sent) + 1
        /\ \A i \in 1 .. Len(sent) : Append(sent, body[u])[i] = sent[i]
    BY AppendProperties DEF TypeOK
  <2>2. Len(sent) \in Nat
    BY LenProperties DEF TypeOK
  <2>3. ackVer' \in [Updates -> Nat]
    <3>1. ackVer \in [Updates -> Nat] /\ Len(sent) + 1 \in Nat
      BY <2>2 DEF TypeOK
    <3>2. ackVer' = [ackVer EXCEPT ![u] = Len(sent) + 1]
      BY <1>1 DEF Publish
    <3> QED
      BY <3>1, <3>2
  <2>4. lone' \in SUBSET Updates
    BY <1>1 DEF Publish, TypeOK
  <2> QED
    BY <1>1, <2>1, <2>2, <2>3, <2>4 DEF Publish
<1>2. CASE ~Receiving
  BY <1>2 DEF Publish, TypeOK
<1> QED
  BY <1>1, <1>2

\* Every variable keeps its type in every step of the handlers, the clients
\* and the engine thread, and the thread never borrows from an empty channel.
LEMMA TypeAndUnseen == Spec => [](TypeOK /\ Unseen)
<1> DEFINE Inv == TypeOK /\ Unseen
<1> USE DEF TypeOK, Stamped, Requests, Unseen, HasChanged
<1>1. Init => Inv
  <2> SUFFICES ASSUME Init PROVE Inv
    OBVIOUS
  <2>1. sent = <<>> /\ queue = <<>> /\ log = <<>> /\ Len(sent) = 0 /\ Len(queue) = 0
    BY EmptySeq DEF Init
  <2>2. /\ sent \in Seq(Weights) /\ queue \in Seq(Queries)
        /\ log \in Seq([query : Queries, ver : Nat, published : Nat])
    BY <2>1, EmptySeq
  <2>3. /\ latest \in Weights \cup {NoWeights} /\ seen \in Nat
        /\ taken \in Stamped /\ applied \in Stamped /\ Len(queue) <= QueueCap
    BY <2>1, BaselineAssumption, QueueCapAssumption DEF Init
  <2>4. /\ active \in BOOLEAN /\ alive \in BOOLEAN /\ up \in BOOLEAN /\ crossed \in BOOLEAN
        /\ engine = "check" /\ processed \in Nat
        /\ current \in SUBSET Queries /\ lone \in SUBSET Updates
    BY DEF Init
  <2>5. /\ reply \in [Queries -> {"pending", "route", "invalid", "dropped"}]
        /\ pc \in [Requests -> {"idle", "customize", "reset", "send", "reply", "done", "gone"}]
        /\ body \in [Updates -> Weights]
        /\ answer \in [Requests -> {"none", "accepted", "refused", "unavailable",
                                    "route", "invalid", "empty"}]
        /\ ackVer \in [Updates -> Nat]
        /\ poll \in [Updates -> {"none", "active", "concluded"}]
    BY BaselineAssumption DEF Init
  <2>6. Unseen
    BY <2>1 DEF Init
  <2> QED
    BY <2>1, <2>2, <2>3, <2>4, <2>5, <2>6
<1>2. Inv /\ [Next]_vars => Inv'
  <2> SUFFICES ASSUME Inv, [Next]_vars PROVE Inv'
    OBVIOUS
  <2>1. ASSUME NEW u \in Updates, CustomizeReject(u) PROVE Inv'
    BY <2>1 DEF CustomizeReject
  <2>2. ASSUME NEW u \in Updates, CustomizeStore(u) PROVE Inv'
    BY <2>2 DEF CustomizeStore, Store
  <2>3. ASSUME NEW u \in Updates, ResetStore(u) PROVE Inv'
    BY <2>3, BaselineAssumption DEF ResetStore, Store
  <2>4. ASSUME NEW u \in Updates, PollInfo(u) PROVE Inv'
    BY <2>4 DEF PollInfo
  <2>5. ASSUME NEW u \in Updates, CustomizeSend(u) PROVE Inv'
    <3>1. Publish(u)
      BY <2>5 DEF CustomizeSend
    <3>2. /\ sent' \in Seq(Weights) /\ ackVer' \in [Updates -> Nat]
          /\ lone' \in SUBSET Updates /\ Len(sent') >= Len(sent)
      BY <3>1, PublishAppends
    <3> QED
      BY <2>5, <3>2 DEF CustomizeSend
  <2>6. ASSUME NEW u \in Updates, ResetSend(u) PROVE Inv'
    <3>1. Publish(u)
      BY <2>6 DEF ResetSend
    <3>2. /\ sent' \in Seq(Weights) /\ ackVer' \in [Updates -> Nat]
          /\ lone' \in SUBSET Updates /\ Len(sent') >= Len(sent)
      BY <3>1, PublishAppends
    <3> QED
      BY <2>6, <3>2 DEF ResetSend
  <2>7. ASSUME NEW q \in Queries, QueryArrive(q) PROVE Inv'
    BY <2>7 DEF QueryArrive
  <2>8. ASSUME NEW q \in Queries, QueryAbandon(q) PROVE Inv'
    BY <2>8 DEF QueryAbandon
  <2>9. ASSUME NEW q \in Queries, QuerySend(q) PROVE Inv'
    <3>1. /\ Append(queue, q) \in Seq(Queries)
          /\ Len(Append(queue, q)) = Len(queue) + 1
      BY AppendProperties
    <3>2. Len(queue) \in Nat
      BY LenProperties
    <3>3. CASE queue' = queue
      BY <2>9, <3>3 DEF QuerySend
    <3>4. CASE queue' = Append(queue, q) /\ Len(queue) < QueueCap
      <4>1. Len(queue') <= QueueCap
        BY <3>1, <3>2, <3>4, QueueCapAssumption
      <4> QED
        BY <2>9, <3>1, <3>4, <4>1 DEF QuerySend
    <3> QED
      BY <2>9, <3>3, <3>4 DEF QuerySend
  <2>10. ASSUME NEW q \in Queries, QueryReply(q) PROVE Inv'
    BY <2>10 DEF QueryReply
  <2>11. CASE EngineCheck
    BY <2>11 DEF EngineCheck
  <2>12. CASE EngineBorrow
    <3>1. Len(sent) \in 1 .. Len(sent)
      BY <2>12 DEF EngineBorrow
    <3>2. sent[Len(sent)] \in Weights
      BY <3>1, ElementOfSeq
    <3> QED
      BY <2>12, <3>1, <3>2 DEF EngineBorrow
  <2>13. CASE EngineActivate
    BY <2>13 DEF EngineActivate
  <2>14. CASE EngineCustomize
    BY <2>14 DEF EngineCustomize
  <2>15. CASE EngineDeactivate
    BY <2>15 DEF EngineDeactivate
  <2>16. CASE EngineRecv
    <3>1. /\ Head(queue) \in Queries /\ Tail(queue) \in Seq(Queries)
          /\ Len(Tail(queue)) <= QueueCap
      BY <2>16, HeadTailProperties, QueueCapAssumption DEF EngineRecv
    <3>2. [query |-> Head(queue), ver |-> applied.ver, published |-> Len(sent)]
            \in [query : Queries, ver : Nat, published : Nat]
      BY <3>1
    <3>3. log' \in Seq([query : Queries, ver : Nat, published : Nat])
      <4>1. CASE up
        BY <2>16, <3>2, <4>1, AppendProperties DEF EngineRecv
      <4>2. CASE ~up
        BY <2>16, <4>2 DEF EngineRecv
      <4> QED
        BY <4>1, <4>2
    <3> QED
      BY <2>16, <3>1, <3>3 DEF EngineRecv
  <2>17. CASE EngineTimeout
    BY <2>17 DEF EngineTimeout
  <2>18. CASE EngineReply
    BY <2>18 DEF EngineReply
  <2>19. CASE EngineStop
    BY <2>19 DEF EngineStop
  <2>20. CASE EnginePanic
    <3>1. queue' \in Seq(Queries) /\ Len(queue') <= QueueCap
      BY <2>20, EmptySeq, QueueCapAssumption DEF EnginePanic
    <3> QED
      BY <2>20, <3>1 DEF EnginePanic
  <2>21. CASE Shutdown \/ Exit
    BY <2>21 DEF Shutdown, Exit
  <2>22. CASE UNCHANGED vars
    BY <2>22 DEF vars
  <2> QED
    BY <2>1, <2>2, <2>3, <2>4, <2>5, <2>6, <2>7, <2>8, <2>9, <2>10, <2>11,
       <2>12, <2>13, <2>14, <2>15, <2>16, <2>17, <2>18, <2>19, <2>20, <2>21,
       <2>22 DEF Next, EngineNext, HandlerNext, ClientNext, Terminated
<1> QED
  BY <1>1, <1>2, PTL DEF Spec

THEOREM TypeCorrect == Spec => []TypeOK
  BY TypeAndUnseen, PTL

-----------------------------------------------------------------------------
\* Handlers, clients and main leave the engine thread's state alone; the only
\* thing of its they can change is what the watch channel holds.
OutsideEngine ==
  \/ \E r \in Requests : HandlerNext(r)
  \/ ClientNext \/ Shutdown \/ Terminated

LEMMA OutsideFrame ==
  ASSUME TypeOK, OutsideEngine
  PROVE  /\ UNCHANGED <<seen, engineVars, log>> /\ (up' => up)
         /\ Len(sent') >= Len(sent)
         /\ \A i \in 1 .. Len(sent) : sent'[i] = sent[i]
<1> DEFINE Frame ==
      /\ UNCHANGED <<seen, engineVars, log>> /\ (up' => up)
      /\ Len(sent') >= Len(sent)
      /\ \A i \in 1 .. Len(sent) : sent'[i] = sent[i]
<1>0. Len(sent) \in Nat
  BY LenProperties DEF TypeOK
<1>1. ASSUME NEW u \in Updates, CustomizeSend(u) \/ ResetSend(u) PROVE Frame
  <2>1. Publish(u)
    BY <1>1 DEF CustomizeSend, ResetSend
  <2>2. Len(sent') >= Len(sent) /\ \A i \in 1 .. Len(sent) : sent'[i] = sent[i]
    BY <2>1, PublishAppends
  <2> QED
    BY <1>1, <2>2 DEF CustomizeSend, ResetSend
<1>2. ASSUME NEW q \in Queries, QuerySend(q) \/ QueryReply(q) PROVE Frame
  BY <1>0, <1>2 DEF QuerySend, QueryReply
<1>3. ASSUME NEW u \in Updates,
             CustomizeReject(u) \/ CustomizeStore(u) \/ ResetStore(u) \/ PollInfo(u)
      PROVE Frame
  BY <1>0, <1>3 DEF CustomizeReject, CustomizeStore, ResetStore, Store, PollInfo
<1>4. ASSUME NEW q \in Queries, QueryArrive(q) \/ QueryAbandon(q) PROVE Frame
  BY <1>0, <1>4 DEF QueryArrive, QueryAbandon
<1>5. CASE Shutdown \/ Terminated
  BY <1>0, <1>5 DEF Shutdown, Terminated, vars
<1> QED
  BY <1>1, <1>2, <1>3, <1>4, <1>5 DEF OutsideEngine, HandlerNext, ClientNext, Requests

LEMMA NextSplit ==
  ASSUME [Next]_vars
  PROVE  OutsideEngine \/ EngineNext \/ EnginePanic \/ Exit \/ UNCHANGED vars
BY DEF Next, OutsideEngine

\* The versions of the three copies of the weights are related as the
\* thread's position says.
LEMMA VersionsCorrect == Spec => []Versions
<1> DEFINE Base == TypeOK /\ Unseen
<1>1. Init => Versions
  BY DEF Init, Versions, Vector
<1>2. Base /\ Base' /\ Versions /\ [Next]_vars => Versions'
  <2> SUFFICES ASSUME Base, Base', Versions, [Next]_vars PROVE Versions'
    OBVIOUS
  <2>0. /\ seen \in Nat /\ applied.ver \in Nat /\ taken.ver \in Nat
        /\ Len(sent) \in Nat /\ seen <= Len(sent)
    BY LenProperties DEF TypeOK, Stamped, Unseen
  <2>1. CASE OutsideEngine
    <3>1. /\ UNCHANGED <<seen, taken, applied, active, engine>>
          /\ \A i \in 1 .. Len(sent) : sent'[i] = sent[i]
      BY <2>1, OutsideFrame
    <3>2. \A v \in 0 .. Len(sent) : Vector(v)' = Vector(v)
      BY <2>0, <3>1 DEF Vector
    <3> QED
      BY <2>0, <3>1, <3>2 DEF Versions
  <2>2. CASE EngineCheck
    BY <2>2 DEF EngineCheck, Versions, Vector
  <2>3. CASE EngineBorrow
    BY <2>0, <2>3 DEF EngineBorrow, Versions, Vector, Unseen, HasChanged
  <2>4. CASE EngineActivate
    BY <2>4 DEF EngineActivate, Versions, Vector
  <2>5. CASE EngineCustomize
    BY <2>0, <2>5 DEF EngineCustomize, Versions, Vector
  <2>6. CASE EngineDeactivate
    BY <2>6 DEF EngineDeactivate, Versions, Vector
  <2>7. CASE EngineRecv \/ EngineTimeout \/ EngineReply
    BY <2>7 DEF EngineRecv, EngineTimeout, EngineReply, Versions, Vector
  <2>8. CASE EngineStop \/ EnginePanic \/ Exit
    BY <2>8 DEF EngineStop, EnginePanic, Exit, Versions, Vector
  <2>9. CASE UNCHANGED vars
    BY <2>9 DEF vars, Versions, Vector
  <2> QED
    BY <2>1, <2>2, <2>3, <2>4, <2>5, <2>6, <2>7, <2>8, <2>9, NextSplit DEF EngineNext
<1> QED
  BY <1>1, <1>2, TypeAndUnseen, PTL DEF Spec

\* No dispatch begins while it owes an earlier dispatch a published vector.
LEMMA DebtsCorrect == Spec => []Debts
<1> DEFINE Base == TypeOK /\ Unseen /\ Versions
<1>1. Init => Debts
  BY DEF Init, Debts, AtMostOneStaleRoute
<1>2. Base /\ Base' /\ Debts /\ [Next]_vars => Debts'
  <2> SUFFICES ASSUME Base, Base', Debts, [Next]_vars PROVE Debts'
    OBVIOUS
  <2>0. /\ seen \in Nat /\ applied.ver \in Nat /\ seen <= Len(sent)
        /\ Len(sent) \in Nat /\ Len(sent') \in Nat /\ Len(log) \in Nat
        /\ DOMAIN log = 1 .. Len(log)
        /\ \A i \in DOMAIN log : log[i].published \in Nat /\ log[i].ver \in Nat
    <3>1. log \in Seq([query : Queries, ver : Nat, published : Nat])
      BY DEF TypeOK
    <3>2. Len(log) \in Nat /\ DOMAIN log = 1 .. Len(log)
      BY <3>1, LenProperties
    <3>3. \A i \in 1 .. Len(log) : log[i] \in [query : Queries, ver : Nat, published : Nat]
      BY <3>1, ElementOfSeq
    <3>4. \A i \in DOMAIN log : log[i].published \in Nat /\ log[i].ver \in Nat
      BY <3>2, <3>3
    <3>5. Len(sent) \in Nat /\ Len(sent') \in Nat
      BY LenProperties DEF TypeOK
    <3> QED
      BY <3>2, <3>4, <3>5 DEF TypeOK, Stamped, Unseen
  <2>1. CASE OutsideEngine
    <3>1. UNCHANGED <<seen, engine, log>> /\ Len(sent') >= Len(sent) /\ (up' => up)
      BY <2>1, OutsideFrame
    <3> QED
      BY <2>0, <3>1 DEF Debts, AtMostOneStaleRoute
  <2>2. CASE EngineCheck
    <3>1. CASE HasChanged
      BY <2>2, <3>1 DEF EngineCheck, Debts, AtMostOneStaleRoute
    <3>2. CASE ~HasChanged
      BY <2>0, <2>2, <3>2 DEF EngineCheck, HasChanged, Debts, AtMostOneStaleRoute
    <3> QED
      BY <3>1, <3>2
  <2>3. CASE EngineBorrow
    BY <2>0, <2>3 DEF EngineBorrow, Debts, AtMostOneStaleRoute
  <2>4. CASE EngineActivate \/ EngineCustomize \/ EngineDeactivate
    BY <2>4 DEF EngineActivate, EngineCustomize, EngineDeactivate, Debts,
                AtMostOneStaleRoute
  <2>5. CASE EngineRecv
    <3>A. CASE ~up
      BY <2>5, <3>A DEF EngineRecv, Debts, AtMostOneStaleRoute
    <3>B. CASE up
      <4> DEFINE entry == [query |-> Head(queue), ver |-> applied.ver,
                           published |-> Len(sent)]
      <4>1. log' = Append(log, entry) /\ UNCHANGED <<sent, seen>> /\ engine' = "dispatch"
        BY <2>5, <3>B DEF EngineRecv
      <4>2. applied.ver = seen /\ \A i \in DOMAIN log : log[i].published <= seen
        BY <2>5, <3>B DEF EngineRecv, Versions, Debts
      <4>3. /\ DOMAIN log' = 1 .. Len(log) + 1
            /\ \A i \in 1 .. Len(log) : log'[i] = log[i]
            /\ log'[Len(log) + 1] = entry
        BY <2>0, <4>1 DEF TypeOK
      <4>4. \A i \in DOMAIN log' : log'[i].published <= Len(sent')
        BY <2>0, <4>1, <4>3 DEF Debts
      <4>5. AtMostOneStaleRoute'
        <5> SUFFICES ASSUME NEW i \in DOMAIN log', NEW j \in DOMAIN log', i < j
                     PROVE  log'[i].published <= log'[j].ver
          BY DEF AtMostOneStaleRoute
        <5>1. i \in DOMAIN log
          BY <2>0, <4>3
        <5>2. CASE j \in DOMAIN log
          BY <2>0, <4>3, <5>1, <5>2 DEF Debts, AtMostOneStaleRoute
        <5>3. CASE j = Len(log) + 1
          BY <2>0, <4>2, <4>3, <5>1, <5>3
        <5> QED
          BY <2>0, <4>3, <5>2, <5>3
      <4> QED
        BY <4>1, <4>4, <4>5 DEF Debts
    <3> QED
      BY <3>A, <3>B
  <2>6. CASE EngineTimeout \/ EngineReply \/ EngineStop \/ EnginePanic \/ Exit
    BY <2>6 DEF EngineTimeout, EngineReply, EngineStop, EnginePanic, Exit, Debts,
                AtMostOneStaleRoute
  <2>7. CASE UNCHANGED vars
    BY <2>7 DEF vars, Debts, AtMostOneStaleRoute
  <2> QED
    BY <2>1, <2>2, <2>3, <2>4, <2>5, <2>6, <2>7, NextSplit DEF EngineNext
<1> QED
  BY <1>1, <1>2, TypeAndUnseen, VersionsCorrect, PTL DEF Spec

\* Once a vector is published, at most one more route uses older weights.
THEOREM Freshness == Spec => []AtMostOneStaleRoute
  BY DebtsCorrect, PTL DEF Debts

-----------------------------------------------------------------------------
\* Handlers run only while AppState is held, and an empty answer needs a panic.
LEMMA LifecycleCorrect == Spec => []Lifecycle
<1> USE DEF Requests, Finished, EmptyMeansPanicked
<1>1. Init => Lifecycle
  BY DEF Init, Lifecycle
<1>2. TypeOK /\ TypeOK' /\ Lifecycle /\ [Next]_vars => Lifecycle'
  <2> SUFFICES ASSUME TypeOK, TypeOK', Lifecycle, [Next]_vars PROVE Lifecycle'
    OBVIOUS
  <2> USE DEF Lifecycle, TypeOK
  <2>1. ASSUME NEW u \in Updates, CustomizeReject(u) PROVE Lifecycle'
    BY <2>1, RequestsAssumption DEF CustomizeReject
  <2>2. ASSUME NEW u \in Updates, CustomizeStore(u) \/ ResetStore(u) PROVE Lifecycle'
    BY <2>2, RequestsAssumption DEF CustomizeStore, ResetStore, Store
  <2>3. ASSUME NEW u \in Updates, PollInfo(u) PROVE Lifecycle'
    BY <2>3 DEF PollInfo
  <2>4. ASSUME NEW u \in Updates, CustomizeSend(u) \/ ResetSend(u) PROVE Lifecycle'
    <3>1. /\ pc[u] \in {"customize", "reset"}
          /\ pc' = [pc EXCEPT ![u] = "done"]
          /\ \A r \in Requests : r # u => answer'[r] = answer[r]
          /\ UNCHANGED <<engine, reply, up>>
      BY <2>4 DEF CustomizeSend, ResetSend
    <3> QED
      BY <3>1, RequestsAssumption
  <2>5. ASSUME NEW q \in Queries, QueryArrive(q) PROVE Lifecycle'
    BY <2>5, RequestsAssumption DEF QueryArrive
  <2>6. ASSUME NEW q \in Queries, QuerySend(q) PROVE Lifecycle'
    <3>1. CASE Receiving
      <4>1. /\ pc[q] = "send" /\ pc' = [pc EXCEPT ![q] = "reply"]
            /\ UNCHANGED <<engine, reply, up, answer>>
        BY <2>6, <3>1 DEF QuerySend
      <4> QED
        BY <4>1, RequestsAssumption
    <3>2. CASE ~Receiving
      <4>1. /\ pc[q] = "send" /\ pc' = [pc EXCEPT ![q] = "done"]
            /\ answer' = [answer EXCEPT ![q] = "empty"]
            /\ UNCHANGED <<engine, reply, up>>
        BY <2>6, <3>2 DEF QuerySend
      <4>2. up
        BY <4>1
      <4>3. engine = "panicked"
        BY <3>2, <4>2
      <4> QED
        BY <4>1, <4>2, <4>3, RequestsAssumption
    <3> QED
      BY <3>1, <3>2
  <2>7. ASSUME NEW q \in Queries, QueryReply(q) PROVE Lifecycle'
    BY <2>7, RequestsAssumption DEF QueryReply
  <2>8. ASSUME NEW q \in Queries, QueryAbandon(q) PROVE Lifecycle'
    BY <2>8, RequestsAssumption DEF QueryAbandon
  <2>9. CASE EngineCheck \/ EngineBorrow \/ EngineActivate \/ EngineCustomize
               \/ EngineDeactivate
    BY <2>9 DEF EngineCheck, EngineBorrow, EngineActivate, EngineCustomize,
                EngineDeactivate
  <2>10. CASE EngineRecv \/ EngineTimeout \/ EngineStop
    BY <2>10 DEF EngineRecv, EngineTimeout, EngineStop
  <2>11. CASE EngineReply
    BY <2>11 DEF EngineReply
  <2>12. CASE EnginePanic
    BY <2>12 DEF EnginePanic
  <2>13. CASE Shutdown \/ Exit
    BY <2>13 DEF Shutdown, Exit
  <2>14. CASE UNCHANGED vars
    BY <2>14 DEF vars
  <2> QED
    BY <2>1, <2>2, <2>3, <2>4, <2>5, <2>6, <2>7, <2>8, <2>9, <2>10, <2>11,
       <2>12, <2>13, <2>14 DEF Next, EngineNext, HandlerNext, ClientNext, Terminated
<1> QED
  BY <1>1, <1>2, TypeCorrect, PTL DEF Spec

\* The empty answer of handle_query is only ever given after a panic.
THEOREM EmptyAnswers == Spec => []EmptyMeansPanicked
  BY LifecycleCorrect, PTL DEF Lifecycle

-----------------------------------------------------------------------------
\* Every step but an update's store and send leaves alone what the two copies
\* of the current weights hold, and which updates are half-way.
LEMMA AgreementFrame ==
  ASSUME TypeOK, Agreement, UNCHANGED <<latest, sent, crossed, body>>,
         engine = "panicked" => engine' = "panicked",
         \A u \in Updates : Publishing(u)' <=> Publishing(u)
  PROVE  Agreement'
<1>1. EffectiveWeights' = EffectiveWeights /\ Vector(Len(sent))' = Vector(Len(sent))
  BY DEF EffectiveWeights, Vector
<1> QED
  BY <1>1 DEF Agreement

\* What an uncrossed update stored is the newest published vector from its
\* send until the next update's store.
LEMMA AgreementCorrect == Spec => []Agreement
<1> DEFINE Base == TypeOK /\ Lifecycle
<1>1. Init => Agreement
  <2>1. Init => Len(sent) = 0
    BY EmptySeq DEF Init
  <2> QED
    BY <2>1 DEF Init, Agreement, EffectiveWeights, Vector, Publishing, Requests
<1>2. Base /\ Base' /\ Agreement /\ [Next]_vars => Agreement'
  <2> SUFFICES ASSUME Base, Base', Agreement, [Next]_vars PROVE Agreement'
    OBVIOUS
  <2>0. /\ pc \in [Requests -> {"idle", "customize", "reset", "send", "reply", "done", "gone"}]
        /\ body \in [Updates -> Weights] /\ sent \in Seq(Weights) /\ Len(sent) \in Nat
    BY LenProperties DEF TypeOK
  <2>1. ASSUME NEW u \in Updates, CustomizeReject(u) PROVE Agreement'
    <3>1. \A o \in Updates : Publishing(o)' <=> Publishing(o)
      BY <2>0, <2>1 DEF CustomizeReject, Publishing, Requests
    <3> QED
      BY <2>1, <3>1, AgreementFrame DEF CustomizeReject
  <2>2. ASSUME NEW u \in Updates, CustomizeStore(u) \/ ResetStore(u) PROVE Agreement'
    <3>1. /\ pc' \in {[pc EXCEPT ![u] = "customize"], [pc EXCEPT ![u] = "reset"]}
          /\ crossed' = (crossed \/ \E o \in Updates : Publishing(o))
      BY <2>2 DEF CustomizeStore, ResetStore, Store
    <3>2. EffectiveWeights' = body'[u]
      <4>1. CASE CustomizeStore(u)
        BY <2>0, <4>1, NoWeightsAssumption DEF CustomizeStore, Store, EffectiveWeights
      <4>2. CASE ResetStore(u)
        BY <2>0, <4>2 DEF ResetStore, Store, EffectiveWeights
      <4> QED
        BY <2>2, <4>1, <4>2
    <3>3. Publishing(u)'
      BY <2>0, <3>1 DEF Publishing, Requests
    <3>4. \A o \in Updates : o # u => (Publishing(o)' <=> Publishing(o))
      BY <2>0, <3>1 DEF Publishing, Requests
    <3> QED
      BY <3>1, <3>2, <3>3, <3>4 DEF Agreement
  <2>3. ASSUME NEW u \in Updates, CustomizeSend(u) \/ ResetSend(u) PROVE Agreement'
    <3>1. /\ Publishing(u) /\ Publish(u) /\ pc' = [pc EXCEPT ![u] = "done"]
          /\ UNCHANGED <<latest, body, crossed, engine, up>>
      BY <2>3 DEF CustomizeSend, ResetSend, Publishing
    <3>2. \A o \in Updates : o # u => (Publishing(o)' <=> Publishing(o))
      BY <2>0, <3>1 DEF Publishing, Requests
    <3>3. ~Publishing(u)'
      BY <2>0, <3>1 DEF Publishing, Requests
    <3>4. SUFFICES ASSUME ~crossed, engine # "panicked" PROVE Agreement'
      BY <3>1 DEF Agreement
    <3>5. EffectiveWeights = body[u] /\ \A o \in Updates : Publishing(o) => o = u
      BY <3>1, <3>4 DEF Agreement
    <3>6. Receiving
      BY <2>0, <3>1, <3>4 DEF Lifecycle, Publishing, Finished, Requests
    <3>7. sent' = Append(sent, body[u])
      BY <3>1, <3>6 DEF Publish
    <3>8. Len(sent') = Len(sent) + 1 /\ sent'[Len(sent) + 1] = body[u]
      BY <2>0, <3>7, AppendProperties
    <3>9. Vector(Len(sent))' = body[u]
      BY <2>0, <3>8 DEF Vector
    <3>10. EffectiveWeights' = EffectiveWeights
      BY <3>1 DEF EffectiveWeights
    <3> QED
      BY <3>2, <3>3, <3>5, <3>9, <3>10 DEF Agreement
  <2>4. ASSUME NEW u \in Updates, PollInfo(u) PROVE Agreement'
    BY <2>4, AgreementFrame DEF PollInfo, Publishing
  <2>5. ASSUME NEW q \in Queries, QueryArrive(q) \/ QueryAbandon(q) PROVE Agreement'
    <3>1. \A o \in Updates : Publishing(o)' <=> Publishing(o)
      BY <2>0, <2>5, RequestsAssumption DEF QueryArrive, QueryAbandon, Publishing, Requests
    <3> QED
      BY <2>5, <3>1, AgreementFrame DEF QueryArrive, QueryAbandon
  <2>6. ASSUME NEW q \in Queries, QuerySend(q) \/ QueryReply(q) PROVE Agreement'
    <3>1. pc' \in {[pc EXCEPT ![q] = "reply"], [pc EXCEPT ![q] = "done"]}
      BY <2>6 DEF QuerySend, QueryReply
    <3>2. \A o \in Updates : Publishing(o)' <=> Publishing(o)
      BY <2>0, <3>1, RequestsAssumption DEF Publishing, Requests
    <3> QED
      BY <2>6, <3>2, AgreementFrame DEF QuerySend, QueryReply
  <2>7. CASE EngineNext \/ EnginePanic
    <3>1. /\ UNCHANGED <<latest, sent, crossed, body, pc>>
          /\ engine = "panicked" => engine' = "panicked"
      BY <2>7 DEF EngineNext, EnginePanic, EngineCheck, EngineBorrow, EngineActivate,
                  EngineCustomize, EngineDeactivate, EngineRecv, EngineTimeout,
                  EngineReply, EngineStop
    <3> QED
      BY <3>1, AgreementFrame DEF Publishing
  <2>8. CASE Shutdown \/ Exit \/ UNCHANGED vars
    BY <2>8, AgreementFrame DEF Shutdown, Exit, vars, Publishing
  <2> QED
    BY <2>1, <2>2, <2>3, <2>4, <2>5, <2>6, <2>7, <2>8
       DEF Next, HandlerNext, ClientNext, Terminated
<1> QED
  BY <1>1, <1>2, TypeCorrect, LifecycleCorrect, PTL DEF Spec

\* /evaluate_routes and /traffic_overlay read the weights routes are computed
\* with, once everything published is applied, unless two updates crossed.
THEOREM CopiesAgree == Spec => []AgreeUnlessCrossed
<1>1. Agreement /\ Versions => AgreeUnlessCrossed
  BY DEF Agreement, Versions, AgreeUnlessCrossed
<1> QED
  BY <1>1, AgreementCorrect, VersionsCorrect, PTL

-----------------------------------------------------------------------------
\* A query is in the channel at most once, is taken out at most once, and is
\* given a dispatch's outcome only if it was taken out.
LEMMA CustodyCorrect == Spec => []Custody
<1>1. Init => Custody
  <2>1. Init => DOMAIN queue = {} /\ DOMAIN log = {}
    BY DEF Init
  <2> QED
    BY <2>1 DEF Init, Custody, Queued, Logged, Requests
<1>2. TypeOK /\ TypeOK' /\ Lifecycle /\ Custody /\ [Next]_vars => Custody'
  <2> SUFFICES ASSUME TypeOK, TypeOK', Lifecycle, Custody, [Next]_vars PROVE Custody'
    OBVIOUS
  <2>0. /\ queue \in Seq(Queries) /\ Len(queue) \in Nat /\ DOMAIN queue = 1 .. Len(queue)
        /\ Len(log) \in Nat /\ DOMAIN log = 1 .. Len(log)
        /\ pc \in [Requests -> {"idle", "customize", "reset", "send", "reply", "done", "gone"}]
        /\ DOMAIN answer = Requests
    BY LenProperties DEF TypeOK
  \* A step that leaves the channel, the thread's query and the log alone.
  <2>F. ASSUME UNCHANGED <<queue, log, current, reply>>, up' => up,
               \A q \in Queries :
                 /\ pc'[q] \in {"idle", "send"} => pc[q] \in {"idle", "send"}
                 /\ answer'[q] \in {"route", "invalid"} =>
                      \/ answer[q] \in {"route", "invalid"}
                      \/ up /\ reply[q] \in {"route", "invalid"}
        PROVE  Custody'
    BY <2>F DEF Custody, Queued, Logged
  <2>1. ASSUME NEW u \in Updates, CustomizeReject(u) \/ CustomizeStore(u) \/ ResetStore(u)
                 \/ PollInfo(u) \/ CustomizeSend(u) \/ ResetSend(u) PROVE Custody'
    <3>1. /\ UNCHANGED <<queue, log, current, reply, up>>
          /\ \A r \in Requests : r # u => pc'[r] = pc[r] /\ answer'[r] = answer[r]
      BY <2>0, <2>1 DEF CustomizeReject, CustomizeStore, ResetStore, Store, PollInfo,
                   CustomizeSend, ResetSend
    <3>2. \A q \in Queries : pc'[q] = pc[q] /\ answer'[q] = answer[q]
      BY <3>1, RequestsAssumption DEF Requests
    <3> QED
      BY <3>1, <3>2, <2>F
  <2>2. ASSUME NEW q \in Queries, QueryArrive(q) \/ QueryAbandon(q) PROVE Custody'
    <3>1. /\ UNCHANGED <<queue, log, current, reply, answer, up>>
          /\ \A r \in Requests : pc'[r] \in {"idle", "send"} => pc[r] \in {"idle", "send"}
      BY <2>0, <2>2 DEF QueryArrive, QueryAbandon
    <3> QED
      BY <3>1, <2>F DEF Requests
  <2>3. ASSUME NEW q \in Queries, QueryReply(q) PROVE Custody'
    <3>1. /\ UNCHANGED <<queue, log, current, reply, up>> /\ pc[q] = "reply"
          /\ \A r \in Requests : pc'[r] \in {"idle", "send"} => pc[r] \in {"idle", "send"}
          /\ \A r \in Requests : r # q => answer'[r] = answer[r]
      BY <2>0, <2>3 DEF QueryReply
    <3>2. answer'[q] \in {"route", "invalid"} => reply[q] \in {"route", "invalid"}
      BY <2>0, <2>3 DEF QueryReply, Requests
    <3>3. up
      BY <3>1 DEF Lifecycle, Finished, Requests
    <3> QED
      BY <3>1, <3>2, <3>3, <2>F DEF Requests
  <2>4. ASSUME NEW q \in Queries, QuerySend(q) PROVE Custody'
    <3>1. /\ UNCHANGED <<log, current, reply, up>> /\ pc[q] = "send"
          /\ pc'[q] \notin {"idle", "send"}
          /\ \A r \in Requests : r # q => pc'[r] = pc[r]
          /\ \A r \in Requests : answer'[r] = answer[r] \/ answer'[r] = "empty"
      BY <2>0, <2>4 DEF QuerySend, Requests
    <3>2. CASE queue' = queue
      <4>1. \A r \in Queries : r # q => pc'[r] = pc[r]
        BY <3>1 DEF Requests
      <4>2. \A r \in Queries : answer'[r] = answer[r] \/ answer'[r] = "empty"
        BY <3>1 DEF Requests
      <4> QED
        BY <3>1, <3>2, <4>1, <4>2, <2>F
    <3>3. CASE queue' = Append(queue, q)
      <4>1. ~Queued(q) /\ ~Logged(q)
        BY <3>1 DEF Custody
      <4>2. /\ DOMAIN queue' = 1 .. Len(queue) + 1
            /\ \A i \in 1 .. Len(queue) : queue'[i] = queue[i]
            /\ queue'[Len(queue) + 1] = q
        BY <2>0, <3>3
      <4>3. \A i, j \in DOMAIN queue' : queue'[i] = queue'[j] => i = j
        <5>1. \A i \in 1 .. Len(queue) : queue[i] # q
          BY <2>0, <4>1 DEF Queued
        <5> QED
          BY <2>0, <4>2, <5>1 DEF Custody
      <4>4. \A r \in Queries : Queued(r)' => Queued(r) \/ r = q
        BY <2>0, <4>2 DEF Queued
      <4>5. \A r \in Queries : Logged(r)' <=> Logged(r)
        BY <3>1 DEF Logged
      <4>6. \A r \in Queries : r # q => pc'[r] = pc[r]
        BY <3>1 DEF Requests
      <4>7. \A r \in Queries : answer'[r] = answer[r] \/ answer'[r] = "empty"
        BY <3>1 DEF Requests
      <4> QED
        BY <3>1, <4>1, <4>3, <4>4, <4>5, <4>6, <4>7 DEF Custody
    <3> QED
      BY <2>4, <3>2, <3>3 DEF QuerySend
  <2>5. CASE EngineRecv
    <3> DEFINE h == Head(queue)
               entry == [query |-> h, ver |-> applied.ver, published |-> Len(sent)]
    <3>1. /\ queue # <<>> /\ queue' = Tail(queue) /\ current' = {h}
          /\ UNCHANGED <<pc, reply, answer, up>>
          /\ log' = IF up THEN Append(log, entry) ELSE log
      BY <2>5 DEF EngineRecv
    <3>2. /\ h = queue[1] /\ h \in Queries /\ Len(queue) >= 1
          /\ DOMAIN queue' = 1 .. Len(queue) - 1
          /\ \A i \in 1 .. Len(queue) - 1 : queue'[i] = queue[i + 1]
      BY <2>0, <3>1, HeadTailProperties
    <3>3. Queued(h) /\ ~Logged(h)
      BY <2>0, <3>2 DEF Queued, Custody
    <3>4. \A i, j \in DOMAIN queue' : queue'[i] = queue'[j] => i = j
      <4> SUFFICES ASSUME NEW i \in 1 .. Len(queue) - 1, NEW j \in 1 .. Len(queue) - 1,
                          queue'[i] = queue'[j]
                   PROVE  i = j
        BY <3>2
      <4>1. i + 1 \in DOMAIN queue /\ j + 1 \in DOMAIN queue
        BY <2>0
      <4>2. queue[i + 1] = queue[j + 1]
        BY <3>2
      <4>3. i + 1 = j + 1
        BY <4>1, <4>2 DEF Custody
      <4> QED
        BY <2>0, <4>3
    <3>5. \A r \in Queries : Queued(r)' => Queued(r) /\ r # h
      <4> SUFFICES ASSUME NEW r \in Queries, NEW i \in 1 .. Len(queue) - 1, queue'[i] = r
                   PROVE  Queued(r) /\ r # h
        BY <3>2 DEF Queued
      <4>1. i + 1 \in DOMAIN queue /\ 1 \in DOMAIN queue /\ queue[i + 1] = r /\ i + 1 # 1
        BY <2>0, <3>2
      <4> QED
        BY <3>2, <4>1 DEF Queued, Custody
    <3>6. CASE up
      <4>1. /\ DOMAIN log' = 1 .. Len(log) + 1
            /\ \A i \in 1 .. Len(log) : log'[i] = log[i]
            /\ log'[Len(log) + 1].query = h
        BY <2>0, <3>1, <3>6 DEF TypeOK
      <4>2. \A i, j \in DOMAIN log' : log'[i].query = log'[j].query => i = j
        <5>1. \A i \in 1 .. Len(log) : log[i].query # h
          BY <2>0, <3>3 DEF Logged
        <5> QED
          BY <2>0, <4>1, <5>1 DEF Custody
      <4>3. \A r \in Queries : Logged(r)' <=> Logged(r) \/ r = h
        BY <2>0, <4>1 DEF Logged
      <4> QED
        BY <3>1, <3>3, <3>4, <3>5, <4>2, <4>3 DEF Custody
    <3>7. CASE ~up
      <4>1. UNCHANGED log
        BY <3>1, <3>7
      <4>2. \A r \in Queries : Logged(r)' <=> Logged(r)
        BY <4>1 DEF Logged
      <4> QED
        BY <3>1, <3>3, <3>4, <3>5, <3>7, <4>1, <4>2 DEF Custody
    <3> QED
      BY <3>6, <3>7
  <2>6. CASE EngineReply
    <3>1. /\ UNCHANGED <<queue, log, pc, answer, up>> /\ current' = {}
          /\ \A r \in Queries : reply'[r] = reply[r] \/ r \in current
      BY <2>6 DEF EngineReply
    <3> QED
      BY <3>1 DEF Custody, Queued, Logged
  <2>7. CASE EnginePanic
    <3>1. /\ queue' = <<>> /\ UNCHANGED <<log, pc, answer, up>> /\ current' = {}
          /\ \A r \in Queries : reply'[r] = reply[r] \/ reply'[r] = "dropped"
      BY <2>7 DEF EnginePanic
    <3>2. DOMAIN queue' = {}
      BY <3>1
    <3> QED
      BY <3>1, <3>2 DEF Custody, Queued, Logged
  <2>8. CASE EngineCheck \/ EngineBorrow \/ EngineActivate \/ EngineCustomize
               \/ EngineDeactivate \/ EngineTimeout \/ EngineStop
    BY <2>8, <2>F DEF EngineCheck, EngineBorrow, EngineActivate, EngineCustomize,
                EngineDeactivate, EngineTimeout, EngineStop
  <2>9. CASE Shutdown \/ Exit \/ UNCHANGED vars
    BY <2>9, <2>F DEF Shutdown, Exit, vars
  <2> QED
    BY <2>1, <2>2, <2>3, <2>4, <2>5, <2>6, <2>7, <2>8, <2>9
       DEF Next, EngineNext, HandlerNext, ClientNext, Terminated
<1> QED
  BY <1>1, <1>2, TypeCorrect, LifecycleCorrect, PTL DEF Spec

\* No query is dispatched twice, and no route or validation error is returned
\* that was not computed for that query.
THEOREM AnswersAreDispatched == Spec => []AnswersComeFromDispatch
<1>1. Custody => AnswersComeFromDispatch
  BY DEF Custody, AnswersComeFromDispatch, Logged
<1> QED
  BY <1>1, CustodyCorrect, PTL

-----------------------------------------------------------------------------
\* For an update sent to an idle engine, the flag's next fall means that its
\* vector, or a later one, is applied.
LEMMA PollingCorrect == Spec => []Polling
<1> DEFINE Base == TypeOK /\ Unseen /\ Versions
<1>1. Init => Polling
  <2>1. Init => Len(sent) = 0
    BY EmptySeq DEF Init
  <2> QED
    BY <2>1 DEF Init, Polling, Requests
<1>2. Base /\ Base' /\ Polling /\ [Next]_vars => Polling'
  <2> SUFFICES ASSUME Base, Base', Polling, [Next]_vars PROVE Polling'
    OBVIOUS
  <2>0. /\ seen \in Nat /\ applied.ver \in Nat /\ taken.ver \in Nat
        /\ Len(sent) \in Nat /\ seen <= Len(sent) /\ ackVer \in [Updates -> Nat]
        /\ DOMAIN pc = Requests /\ DOMAIN answer = Requests
        /\ DOMAIN poll = Updates /\ Updates \subseteq Requests
    BY LenProperties DEF TypeOK, Stamped, Unseen, Requests
  \* A step that leaves the channel, the thread and the polls alone.
  <2>F. ASSUME UNCHANGED <<sent, taken, applied, active, engine, ackVer, lone, poll>>,
               \A u \in Updates :
                 /\ pc'[u] # "done" => pc[u] # "done" /\ answer'[u] = answer[u]
                 /\ answer'[u] = answer[u] \/ (pc[u] # "done" /\ answer'[u] # "accepted")
        PROVE  Polling'
    BY <2>F DEF Polling
  <2>1. ASSUME NEW u \in Updates, CustomizeReject(u) \/ CustomizeStore(u) \/ ResetStore(u)
        PROVE  Polling'
    <3>1. /\ UNCHANGED <<sent, taken, applied, active, engine, ackVer, lone, poll>>
          /\ pc[u] = "idle"
          /\ \/ answer' = answer /\ pc'[u] # "done"
             \/ pc'[u] = "done" /\ answer' = [answer EXCEPT ![u] = "refused"]
          /\ \A o \in Updates : o # u => pc'[o] = pc[o]
      BY <2>0, <2>1 DEF CustomizeReject, CustomizeStore, ResetStore, Store
    <3> QED
      BY <2>0, <3>1, <2>F
  <2>2. ASSUME NEW u \in Updates, CustomizeSend(u) \/ ResetSend(u) PROVE Polling'
    <3>1. /\ Publish(u) /\ pc[u] # "done" /\ pc'[u] = "done"
          /\ \A o \in Updates : o # u => pc'[o] = pc[o] /\ answer'[o] = answer[o]
          /\ UNCHANGED <<taken, applied, active, engine, poll>>
      BY <2>0, <2>2 DEF CustomizeSend, ResetSend
    <3>2. u \notin lone /\ poll[u] = "none"
      BY <3>1 DEF Polling
    <3>3. CASE Receiving
      <4>1. Len(sent') = Len(sent) + 1
        BY <3>1, <3>3, AppendProperties DEF Publish, TypeOK
      <4>2. /\ ackVer'[u] = Len(sent) + 1
            /\ \A o \in Updates : o # u => ackVer'[o] = ackVer[o]
        BY <2>0, <3>1, <3>3 DEF Publish
      <4>3. /\ \A o \in Updates : o # u => (o \in lone' <=> o \in lone)
            /\ u \in lone' => applied.ver = Len(sent) /\ ~active
        BY <3>1, <3>2, <3>3 DEF Publish
      <4>4. u \in lone' => engine \notin {"activate", "customize", "deactivate"}
        BY <2>0, <4>3 DEF Versions
      <4> QED
        BY <2>0, <3>1, <3>2, <4>1, <4>2, <4>3, <4>4 DEF Polling
    <3>4. CASE ~Receiving
      <4>1. UNCHANGED <<sent, ackVer, lone>>
        BY <3>1, <3>4 DEF Publish
      <4> QED
        BY <2>0, <3>1, <3>2, <4>1 DEF Polling
    <3> QED
      BY <3>3, <3>4
  <2>3. ASSUME NEW u \in Updates, PollInfo(u) PROVE Polling'
    <3>1. /\ UNCHANGED <<sent, taken, applied, active, engine, ackVer, lone, pc, answer>>
          /\ answer[u] = "accepted"
          /\ \A o \in Updates : o # u => poll'[o] = poll[o]
          /\ \/ active /\ poll'[u] = "active"
             \/ ~active /\ poll[u] = "active" /\ poll'[u] = "concluded"
      BY <2>0, <2>3 DEF PollInfo
    <3> QED
      BY <3>1 DEF Polling
  <2>4. ASSUME NEW q \in Queries, HandlerNext(q) \/ QueryArrive(q) \/ QueryAbandon(q)
        PROVE  Polling'
    <3>1. /\ UNCHANGED <<sent, taken, applied, active, engine, ackVer, lone, poll>>
          /\ \A u \in Updates : pc'[u] = pc[u] /\ answer'[u] = answer[u]
      <4>1. q \notin Updates
        BY RequestsAssumption
      <4>2. QuerySend(q) \/ QueryReply(q) \/ QueryArrive(q) \/ QueryAbandon(q)
        BY <2>4, <4>1 DEF HandlerNext
      <4> QED
        BY <2>0, <4>1, <4>2 DEF QuerySend, QueryReply, QueryArrive, QueryAbandon
    <3> QED
      BY <3>1, <2>F
  <2>5. CASE EngineCheck
    BY <2>5 DEF EngineCheck, Polling
  <2>6. CASE EngineBorrow
    BY <2>0, <2>6 DEF EngineBorrow, Polling
  <2>7. CASE EngineActivate
    BY <2>7 DEF EngineActivate, Polling
  <2>8. CASE EngineCustomize
    <3>1. taken.ver = seen /\ applied.ver < seen
      BY <2>8 DEF EngineCustomize, Versions
    <3> QED
      BY <2>0, <2>8, <3>1 DEF EngineCustomize, Polling
  <2>9. CASE EngineDeactivate
    BY <2>9 DEF EngineDeactivate, Polling
  <2>10. CASE EngineRecv \/ EngineTimeout \/ EngineReply \/ EngineStop \/ EnginePanic
               \/ Exit
    BY <2>10 DEF EngineRecv, EngineTimeout, EngineReply, EngineStop, EnginePanic, Exit,
                 Polling
  <2>11. CASE Shutdown \/ UNCHANGED vars
    BY <2>11, <2>F DEF Shutdown, vars
  <2> QED
    BY <2>1, <2>2, <2>3, <2>4, <2>5, <2>6, <2>7, <2>8, <2>9, <2>10, <2>11
       DEF Next, EngineNext, HandlerNext, ClientNext, Terminated, Requests
<1> QED
  BY <1>1, <1>2, TypeAndUnseen, VersionsCorrect, PTL DEF Spec

\* Polling /info tells the truth about an update sent to an idle engine.
THEOREM LonePolling == Spec => []LonePollIsRight
<1>1. TypeOK /\ Polling => LonePollIsRight
  BY DEF TypeOK, Polling, LonePollIsRight
<1> QED
  BY <1>1, TypeCorrect, PollingCorrect, PTL

\* The whole inductive invariant holds of every behaviour of the server.
THEOREM Inductive == Spec => []IInv
  BY TypeAndUnseen, VersionsCorrect, DebtsCorrect, LifecycleCorrect,
     AgreementCorrect, CustodyCorrect, PollingCorrect, PTL DEF IInv

-----------------------------------------------------------------------------
\* The server implements the last-writer-wins feed: applying a vector adopts
\* the newest one, beginning a dispatch routes without debt, a successful
\* send publishes, and nothing else is visible.
THEOREM Refinement == Spec => ImplementsFeed
<1> DEFINE Base == TypeOK /\ Unseen /\ Versions /\ Debts
<1>1. Init => Feed!Init
  BY DEF Init, Feed!Init, Owed
<1>2. Base /\ [Next]_vars => [Feed!Next]_Feed!vars
  <2> SUFFICES ASSUME Base, [Next]_vars PROVE [Feed!Next]_Feed!vars
    OBVIOUS
  <2>0. /\ seen \in Nat /\ applied.ver \in Nat /\ taken.ver \in Nat
        /\ Len(sent) \in Nat /\ seen <= Len(sent) /\ Len(log) \in Nat
        /\ DOMAIN log = 1 .. Len(log) /\ (log # <<>> => Len(log) \in 1 .. Len(log))
    BY LenProperties, EmptySeq DEF TypeOK, Stamped, Unseen
  <2>1. ASSUME UNCHANGED <<sent, applied, log>> PROVE UNCHANGED Feed!vars
    BY <2>1 DEF Feed!vars, Owed
  <2>2. ASSUME NEW u \in Updates, CustomizeSend(u) \/ ResetSend(u)
        PROVE  [Feed!Next]_Feed!vars
    <3>1. Publish(u) /\ UNCHANGED <<applied, log>>
      BY <2>2 DEF CustomizeSend, ResetSend
    <3>2. CASE Receiving
      <4>1. body[u] \in Weights /\ sent' = Append(sent, body[u])
        BY <3>1, <3>2 DEF Publish, TypeOK
      <4>2. Feed!Publish
        BY <3>1, <4>1 DEF Feed!Publish, Owed
      <4> QED
        BY <4>2 DEF Feed!Next
    <3>3. CASE ~Receiving
      BY <2>1, <3>1, <3>3 DEF Publish
    <3> QED
      BY <3>2, <3>3
  <2>3. CASE EngineCustomize
    <3>1. applied' = taken /\ UNCHANGED <<sent, log>>
      BY <2>3 DEF EngineCustomize
    <3>2. taken.ver \in applied.ver + 1 .. Len(sent) /\ taken.ver # 0
      BY <2>0, <2>3 DEF EngineCustomize, Versions
    <3>3. taken = [ver |-> taken.ver, val |-> sent[taken.ver]]
      BY <3>2 DEF TypeOK, Stamped, Versions, Vector
    <3>4. Feed!Adopt
      BY <3>1, <3>2, <3>3 DEF Feed!Adopt, Owed
    <3> QED
      BY <3>4 DEF Feed!Next
  <2>4. CASE EngineRecv /\ up
    <3> DEFINE entry == [query |-> Head(queue), ver |-> applied.ver,
                         published |-> Len(sent)]
    <3>1. log' = Append(log, entry) /\ UNCHANGED <<sent, applied>>
      BY <2>4 DEF EngineRecv
    <3>2. Owed <= applied.ver
      <4>1. applied.ver = seen /\ \A i \in DOMAIN log : log[i].published <= seen
        BY <2>4 DEF EngineRecv, Versions, Debts
      <4>2. CASE log = <<>>
        BY <2>0, <4>2 DEF Owed
      <4>3. CASE log # <<>>
        BY <2>0, <4>1, <4>3 DEF Owed
      <4> QED
        BY <4>2, <4>3
    <3>3. log' # <<>> /\ log'[Len(log')] = entry
      <4>1. log \in Seq([query : Queries, ver : Nat, published : Nat])
        BY DEF TypeOK
      <4>2. Len(log') = Len(log) + 1 /\ log'[Len(log) + 1] = entry
        BY <2>0, <3>1, <4>1
      <4> QED
        BY <2>0, <4>2, EmptySeq
    <3>4. Owed' = Len(sent)
      BY <3>3 DEF Owed
    <3>5. Feed!Route
      BY <3>1, <3>2, <3>4 DEF Feed!Route
    <3> QED
      BY <3>5 DEF Feed!Next
  <2>9. CASE EngineRecv /\ ~up
    BY <2>1, <2>9 DEF EngineRecv
  <2>5. CASE UNCHANGED <<sent, applied, log>>
    BY <2>1, <2>5
  <2>6. ASSUME NEW u \in Updates, CustomizeReject(u) \/ CustomizeStore(u) \/ ResetStore(u)
                 \/ PollInfo(u) PROVE UNCHANGED <<sent, applied, log>>
    BY <2>6 DEF CustomizeReject, CustomizeStore, ResetStore, Store, PollInfo
  <2>7. ASSUME NEW q \in Queries, QuerySend(q) \/ QueryReply(q) \/ QueryArrive(q)
                 \/ QueryAbandon(q) PROVE UNCHANGED <<sent, applied, log>>
    BY <2>7 DEF QuerySend, QueryReply, QueryArrive, QueryAbandon
  <2>8. CASE EngineCheck \/ EngineBorrow \/ EngineActivate \/ EngineDeactivate
               \/ EngineTimeout \/ EngineReply \/ EngineStop \/ EnginePanic
               \/ Shutdown \/ Exit \/ UNCHANGED vars
    <3>1. UNCHANGED <<sent, applied, log>>
      BY <2>8 DEF EngineCheck, EngineBorrow, EngineActivate, EngineDeactivate,
           EngineTimeout, EngineReply, EngineStop, EnginePanic, Shutdown, Exit,
           vars
    <3> QED
      BY <2>1, <3>1
  <2> QED
    BY <2>2, <2>3, <2>4, <2>5, <2>6, <2>7, <2>8, <2>9
       DEF Next, EngineNext, HandlerNext, ClientNext, Terminated
<1> QED
  BY <1>1, <1>2, TypeAndUnseen, VersionsCorrect, DebtsCorrect, PTL
     DEF Spec, ImplementsFeed, Feed!Spec
=============================================================================
