---------------------------- MODULE WeightServer ----------------------------
(***************************************************************************)
(* hanoi-server's concurrent core: the axum handlers that accept weight    *)
(* vectors and route queries, the two channels that carry them to the      *)
(* single engine thread, and that thread's loop                            *)
(* (hanoi-server/src/{handlers,engine,state,main}.rs).                     *)
(*                                                                         *)
(* Grain: a handler is split where it awaits or releases a lock; the       *)
(* engine thread is split between its reads and writes of shared state.    *)
(* A query's content is abstracted to the version of the weights that      *)
(* answered it, a weight vector to a member of Weights.                    *)
(***************************************************************************)
EXTENDS Naturals, Sequences, FiniteSets

CONSTANTS
  Queries,   \* POST /query requests, each served once (bounds the model)
  Updates,   \* POST /customize and /reset_weights requests (bounds versions)
  Pollers,   \* the updates whose client polls /info afterwards
  Weights,   \* the well-formed weight vectors
  Baseline,  \* travel_time of the loaded graph
  NoWeights, \* the None of latest_weights
  QueueCap   \* capacity of the query channel: 256 in main.rs

ASSUME BaselineAssumption  == Baseline \in Weights
ASSUME NoWeightsAssumption == NoWeights \notin Weights
ASSUME QueueCapAssumption  == QueueCap \in Nat \ {0}
ASSUME RequestsAssumption  == Queries \cap Updates = {}

VARIABLES
  latest,     \* AppState.latest_weights
  sent,       \* every vector sent on the watch channel; it holds the last one
  seen,       \* version of the channel last marked seen by the receiver
  taken,      \* the engine's clone of the channel's vector
  applied,    \* the vector the engine is customized with
  active,     \* AppState.customization_active
  alive,      \* AppState.engine_alive
  engine,     \* where the engine thread is in its loop
  queue,      \* contents of the query channel
  current,    \* the query being dispatched: a set of at most one
  reply,      \* the oneshot of each query
  pc,         \* where each request's handler is
  body,       \* the vector an update request publishes
  answer,     \* the response each request was given
  processed,  \* AppState.queries_processed
  up          \* whether main still holds AppState

\* History only: nothing in the server reads these.
VARIABLES
  log,        \* dispatches begun while up: query, version used, version published
  crossed,    \* an update stored its vector while another was mid-publication
  ackVer,     \* the version an update's own send was given (0: none yet)
  lone,       \* updates sent to an engine with nothing pending or running
  poll        \* what a client polling /info after its update has observed

channelVars == <<sent, seen>>
engineVars  == <<taken, applied, active, alive, engine, current>>
queryVars   == <<queue, reply, processed, log>>
updateVars  == <<latest, body, crossed, ackVer, lone, poll>>
vars == <<channelVars, engineVars, queryVars, updateVars, pc, answer, up>>

Requests  == Queries \cup Updates
Stamped   == [ver : Nat, val : Weights]
Finished(r) == pc[r] \in {"done", "gone"}
Running(e)  == e \notin {"panicked", "stopped", "killed"}
Receiving   == Running(engine)   \* the engine thread owns both receivers

Publishing(u) == pc[u] \in {"customize", "reset"}
Queued(q)     == \E i \in DOMAIN queue : queue[i] = q

\* The oneshot of each query in qs resolves; a oneshot resolves once.
Settle(qs, outcome) ==
  reply' = [q \in Queries |-> IF q \in qs THEN outcome ELSE reply[q]]

\* watch_rx.has_changed(): a version newer than the one last marked seen.
\* Once the sender is dropped it is an error, which unwrap_or takes for "no".
HasChanged == up /\ Len(sent) > seen

\* What handle_evaluate_routes and handle_traffic_overlay read.
EffectiveWeights == IF latest = NoWeights THEN Baseline ELSE latest

-----------------------------------------------------------------------------
(***************************************************************************)
(* POST /customize and POST /reset_weights.  Neither awaits once its body  *)
(* has arrived, so a disconnecting client cannot stop one half-way; other  *)
(* worker threads do interleave between the lock's release and the send.   *)
(***************************************************************************)

\* A body of the wrong length, or holding a weight above INFINITY: 400.
CustomizeReject(u) ==
  /\ up /\ pc[u] = "idle"
  /\ pc' = [pc EXCEPT ![u] = "done"]
  /\ answer' = [answer EXCEPT ![u] = "refused"]
  /\ UNCHANGED <<channelVars, engineVars, queryVars, updateVars, up>>

\* latest_weights is overwritten under its lock, then the lock is dropped.
Store(u, held, vector) ==
  /\ up /\ pc[u] = "idle"
  /\ latest' = held
  /\ body' = [body EXCEPT ![u] = vector]
  /\ crossed' = (crossed \/ \E o \in Updates : Publishing(o))
  /\ UNCHANGED <<channelVars, engineVars, queryVars, ackVer, lone, poll, answer, up>>

CustomizeStore(u) ==
  /\ \E w \in Weights : Store(u, w, w)
  /\ pc' = [pc EXCEPT ![u] = "customize"]

\* Mutant: the engine is reset but latest_weights is not.
ResetStoreForgets(u) ==
  /\ Store(u, latest, Baseline)
  /\ pc' = [pc EXCEPT ![u] = "reset"]

ResetStore(u) ==
  /\ Store(u, NoWeights, Baseline)
  /\ pc' = [pc EXCEPT ![u] = "reset"]

\* watch_tx.send succeeds only while the engine thread owns the receiver.
Publish(u) ==
  IF Receiving
  THEN /\ sent' = Append(sent, body[u])
       /\ ackVer' = [ackVer EXCEPT ![u] = Len(sent) + 1]
       /\ lone' = IF applied.ver = Len(sent) /\ ~active THEN lone \cup {u} ELSE lone
  ELSE UNCHANGED <<sent, ackVer, lone>>

\* `let _ = watch_tx.send(..)`: the outcome of the send is ignored.
CustomizeSend(u) ==
  /\ pc[u] = "customize"
  /\ Publish(u)
  /\ pc' = [pc EXCEPT ![u] = "done"]
  /\ answer' = [answer EXCEPT ![u] = "accepted"]
  /\ UNCHANGED <<seen, engineVars, queryVars, latest, body, crossed, poll, up>>

\* A failed send is a 503, after latest_weights has been cleared.
ResetSend(u) ==
  /\ pc[u] = "reset"
  /\ Publish(u)
  /\ pc' = [pc EXCEPT ![u] = "done"]
  /\ answer' = [answer EXCEPT ![u] = IF Receiving THEN "accepted" ELSE "unavailable"]
  /\ UNCHANGED <<seen, engineVars, queryVars, latest, body, crossed, poll, up>>

\* GET /info by the client whose update was accepted, until it has seen
\* customization_active go from true to false.
PollInfo(u) ==
  /\ up /\ u \in Pollers /\ answer[u] = "accepted"
  /\ \/ active /\ poll[u] = "none" /\ poll' = [poll EXCEPT ![u] = "active"]
     \/ ~active /\ poll[u] = "active" /\ poll' = [poll EXCEPT ![u] = "concluded"]
  /\ UNCHANGED <<channelVars, engineVars, queryVars, latest, body, crossed,
                 ackVer, lone, pc, answer, up>>

-----------------------------------------------------------------------------
(***************************************************************************)
(* POST /query.                                                            *)
(***************************************************************************)
QueryArrive(q) ==
  /\ up /\ pc[q] = "idle"
  /\ pc' = [pc EXCEPT ![q] = "send"]
  /\ UNCHANGED <<channelVars, engineVars, queryVars, updateVars, answer, up>>

\* Mutant: try_send, a full channel taken for a closed one.
QuerySendTries(q) ==
  /\ pc[q] = "send"
  /\ LET fits == Receiving /\ Len(queue) < QueueCap
     IN /\ queue' = IF fits THEN Append(queue, q) ELSE queue
        /\ pc' = [pc EXCEPT ![q] = IF fits THEN "reply" ELSE "done"]
        /\ answer' = [answer EXCEPT ![q] = IF fits THEN @ ELSE "empty"]
  /\ UNCHANGED <<channelVars, engineVars, reply, processed, log, updateVars, up>>

\* query_tx.send(msg).await: waits while the channel is full, fails once the
\* receiver is gone (an empty 200 response).
QuerySend(q) ==
  /\ pc[q] = "send"
  /\ IF Receiving
     THEN /\ Len(queue) < QueueCap
          /\ queue' = Append(queue, q)
          /\ pc' = [pc EXCEPT ![q] = "reply"]
          /\ UNCHANGED answer
     ELSE /\ pc' = [pc EXCEPT ![q] = "done"]
          /\ answer' = [answer EXCEPT ![q] = "empty"]
          /\ UNCHANGED queue
  /\ UNCHANGED <<channelVars, engineVars, reply, processed, log, updateVars, up>>

\* Mutant: a dropped sender is reported as a validation failure.
QueryReplyBlames(q) ==
  /\ pc[q] = "reply" /\ reply[q] # "pending"
  /\ pc' = [pc EXCEPT ![q] = "done"]
  /\ answer' = [answer EXCEPT ![q] = IF reply[q] = "dropped" THEN "invalid" ELSE reply[q]]
  /\ UNCHANGED <<channelVars, engineVars, queryVars, updateVars, up>>

\* rx.await resolves: a route, a validation failure, or a dropped sender.
QueryReply(q) ==
  /\ pc[q] = "reply" /\ reply[q] # "pending"
  /\ pc' = [pc EXCEPT ![q] = "done"]
  /\ answer' = [answer EXCEPT ![q] = IF reply[q] = "dropped" THEN "empty" ELSE reply[q]]
  /\ processed' = IF reply[q] = "route" THEN processed + 1 ELSE processed
  /\ UNCHANGED <<channelVars, engineVars, queue, reply, log, updateVars, up>>

\* The client disconnects and the server drops the handler where it awaits.
\* A message already in the channel stays there.
QueryAbandon(q) ==
  /\ pc[q] \in {"send", "reply"}
  /\ pc' = [pc EXCEPT ![q] = "gone"]
  /\ UNCHANGED <<channelVars, engineVars, queryVars, updateVars, answer, up>>

-----------------------------------------------------------------------------
(***************************************************************************)
(* The engine thread: run_normal and run_line_graph.                       *)
(***************************************************************************)
EngineStep(from, to) == engine = from /\ engine' = to

EngineCheck ==
  /\ EngineStep("check", IF HasChanged THEN "borrow" ELSE "recv")
  /\ UNCHANGED <<channelVars, taken, applied, active, alive, current, queryVars,
                 updateVars, pc, answer, up>>

\* borrow_and_update().clone(): the newest vector, whatever has_changed saw.
EngineBorrow ==
  /\ EngineStep("borrow", "activate")
  /\ seen' = Len(sent)
  /\ taken' = [ver |-> Len(sent), val |-> sent[Len(sent)]]
  /\ UNCHANGED <<sent, applied, active, alive, current, queryVars, updateVars,
                 pc, answer, up>>

EngineActivate ==
  /\ EngineStep("activate", "customize")
  /\ active' = TRUE
  /\ UNCHANGED <<channelVars, taken, applied, alive, current, queryVars,
                 updateVars, pc, answer, up>>

\* Mutant: customizes with latest_weights instead of the vector it received.
EngineCustomizeFromState ==
  /\ EngineStep("customize", "deactivate")
  /\ applied' = [ver |-> taken.ver, val |-> EffectiveWeights]
  /\ UNCHANGED <<channelVars, taken, active, alive, current, queryVars,
                 updateVars, pc, answer, up>>

\* update_weights: the server is swapped once the customization is complete.
EngineCustomize ==
  /\ EngineStep("customize", "deactivate")
  /\ applied' = taken
  /\ UNCHANGED <<channelVars, taken, active, alive, current, queryVars,
                 updateVars, pc, answer, up>>

EngineDeactivate ==
  /\ EngineStep("deactivate", "recv")
  /\ active' = FALSE
  /\ UNCHANGED <<channelVars, taken, applied, alive, current, queryVars,
                 updateVars, pc, answer, up>>

\* timeout(50ms, recv()) yields a message whenever one is there to take.
EngineRecv ==
  /\ EngineStep("recv", "dispatch")
  /\ queue # <<>>
  /\ queue' = Tail(queue)
  /\ current' = {Head(queue)}
  /\ log' = IF up
            THEN Append(log, [query |-> Head(queue), ver |-> applied.ver,
                              published |-> Len(sent)])
            ELSE log
  /\ UNCHANGED <<channelVars, taken, applied, active, alive, reply, processed,
                 updateVars, pc, answer, up>>

\* Mutant: a plain recv().await, which only a query ends.
EngineTimeoutNever ==
  /\ EngineStep("recv", "recv")
  /\ queue = <<>> /\ up
  /\ UNCHANGED vars

EngineTimeout ==
  /\ EngineStep("recv", "check")
  /\ queue = <<>> /\ up
  /\ UNCHANGED <<channelVars, taken, applied, active, alive, current, queryVars,
                 updateVars, pc, answer, up>>

\* Mutant: drains the queue before it looks for new weights.
EngineReplyDrains ==
  /\ EngineStep("dispatch", "recv")
  /\ \E outcome \in {"route", "invalid"} : Settle(current, outcome)
  /\ current' = {}
  /\ UNCHANGED <<channelVars, taken, applied, active, alive, queue, processed,
                 log, updateVars, pc, answer, up>>

\* dispatch, then `let _ = reply.send(..)`: lost if the handler is gone.
EngineReply ==
  /\ EngineStep("dispatch", "check")
  /\ \E outcome \in {"route", "invalid"} : Settle(current, outcome)
  /\ current' = {}
  /\ UNCHANGED <<channelVars, taken, applied, active, alive, queue, processed,
                 log, updateVars, pc, answer, up>>

\* Ok(None): every sender is gone, and only this way out clears the flag.
EngineStop ==
  /\ EngineStep("recv", "stopped")
  /\ queue = <<>> /\ ~up
  /\ alive' = FALSE
  /\ UNCHANGED <<channelVars, taken, applied, active, current, queryVars,
                 updateVars, pc, answer, up>>

\* Mutant: a guard clears customization_active on the way out.
EnginePanicClears ==
  /\ engine \in {"customize", "dispatch"}
  /\ engine' = "panicked" /\ active' = FALSE
  /\ Settle(current \cup {q \in Queries : Queued(q)}, "dropped")
  /\ queue' = <<>> /\ current' = {}
  /\ UNCHANGED <<channelVars, taken, applied, alive, processed, log,
                 updateVars, pc, answer, up>>

\* Mutant: the queued messages outlive the thread.
EnginePanicKeepsQueue ==
  /\ engine \in {"customize", "dispatch"}
  /\ engine' = "panicked"
  /\ Settle(current, "dropped")
  /\ current' = {}
  /\ UNCHANGED <<channelVars, taken, applied, active, alive, queue, processed,
                 log, updateVars, pc, answer, up>>

\* A panic in update_weights or in a dispatch unwinds the thread: both
\* receivers and every queued message are dropped, no flag is written.
EnginePanic ==
  /\ engine \in {"customize", "dispatch"}
  /\ engine' = "panicked"
  /\ Settle(current \cup {q \in Queries : Queued(q)}, "dropped")
  /\ queue' = <<>>
  /\ current' = {}
  /\ UNCHANGED <<channelVars, taken, applied, active, alive, processed, log,
                 updateVars, pc, answer, up>>

-----------------------------------------------------------------------------
\* main returns after both ports have drained: the last senders are dropped.
Shutdown ==
  /\ up
  /\ \A r \in Requests : pc[r] = "idle" \/ Finished(r)
  /\ up' = FALSE
  /\ UNCHANGED <<channelVars, engineVars, queryVars, updateVars, pc, answer>>

\* The process exits with main, whatever the detached engine thread is doing.
Exit ==
  /\ ~up /\ Receiving
  /\ engine' = "killed"
  /\ UNCHANGED <<channelVars, taken, applied, active, alive, current, queryVars,
                 updateVars, pc, answer, up>>

\* Nothing is left to do: no thread, no handler, no client.
Terminated ==
  /\ ~Receiving /\ ~up
  /\ UNCHANGED vars

Init ==
  /\ latest = NoWeights
  /\ sent = <<>> /\ seen = 0
  /\ taken = [ver |-> 0, val |-> Baseline]
  /\ applied = [ver |-> 0, val |-> Baseline]
  /\ active = FALSE /\ alive = TRUE
  /\ engine = "check" /\ queue = <<>> /\ current = {}
  /\ reply = [q \in Queries |-> "pending"]
  /\ pc = [r \in Requests |-> "idle"]
  /\ body = [u \in Updates |-> Baseline]
  /\ answer = [r \in Requests |-> "none"]
  /\ processed = 0 /\ up = TRUE
  /\ log = <<>> /\ crossed = FALSE /\ lone = {}
  /\ ackVer = [u \in Updates |-> 0]
  /\ poll = [u \in Updates |-> "none"]

EngineNext ==
  \/ EngineCheck \/ EngineBorrow \/ EngineActivate \/ EngineCustomize
  \/ EngineDeactivate \/ EngineRecv \/ EngineTimeout \/ EngineReply \/ EngineStop

\* What a handler does once its request has arrived.
HandlerNext(r) ==
  \/ r \in Updates /\ (CustomizeSend(r) \/ ResetSend(r))
  \/ r \in Queries /\ (QuerySend(r) \/ QueryReply(r))

ClientNext ==
  \/ \E u \in Updates : \/ CustomizeReject(u) \/ CustomizeStore(u)
                        \/ ResetStore(u) \/ PollInfo(u)
  \/ \E q \in Queries : QueryArrive(q) \/ QueryAbandon(q)

Next ==
  \/ EngineNext \/ EnginePanic
  \/ \E r \in Requests : HandlerNext(r)
  \/ ClientNext \/ Shutdown \/ Exit \/ Terminated

Spec == Init /\ [][Next]_vars

\* The engine thread and the runtime's workers keep running; clients and
\* the operator owe nothing.
Fairness ==
  /\ WF_vars(EngineNext)
  /\ \A r \in Requests : WF_vars(HandlerNext(r))

FairSpec == Spec /\ Fairness

-----------------------------------------------------------------------------
\* Every variable keeps its type, and the channel its capacity.
TypeOK ==
  /\ latest \in Weights \cup {NoWeights}
  /\ sent \in Seq(Weights) /\ seen \in Nat
  /\ taken \in Stamped /\ applied \in Stamped
  /\ active \in BOOLEAN /\ alive \in BOOLEAN
  /\ engine \in {"check", "borrow", "activate", "customize", "deactivate",
                 "recv", "dispatch", "panicked", "stopped", "killed"}
  /\ queue \in Seq(Queries) /\ Len(queue) <= QueueCap
  /\ current \in SUBSET Queries
  /\ reply \in [Queries -> {"pending", "route", "invalid", "dropped"}]
  /\ pc \in [Requests -> {"idle", "customize", "reset", "send", "reply",
                         "done", "gone"}]
  /\ body \in [Updates -> Weights]
  /\ answer \in [Requests -> {"none", "accepted", "refused", "unavailable",
                             "route", "invalid", "empty"}]
  /\ processed \in Nat /\ up \in BOOLEAN
  /\ log \in Seq([query : Queries, ver : Nat, published : Nat])
  /\ crossed \in BOOLEAN /\ lone \in SUBSET Updates
  /\ ackVer \in [Updates -> Nat]
  /\ poll \in [Updates -> {"none", "active", "concluded"}]

(***************************************************************************)
(* Safety.                                                                 *)
(***************************************************************************)

\* Once an update is published, at most one more route is computed with
\* older weights while the server is up: the engine re-reads the channel
\* between two dispatches (engine.rs loop), so whatever was published when
\* one dispatch began is applied before the next begins.
AtMostOneStaleRoute ==
  \A i, j \in DOMAIN log : i < j => log[i].published <= log[j].ver

\* The two copies of "the current weights" agree: with no update half-way
\* and nothing left to apply, /evaluate_routes and /traffic_overlay read
\* the weights routes are computed with, provided no two updates were ever
\* between their lock and their send at once (handlers.rs).
AgreeUnlessCrossed ==
  ( /\ ~crossed /\ engine # "panicked"
    /\ \A u \in Updates : ~Publishing(u)
    /\ applied.ver = Len(sent) )
  => EffectiveWeights = applied.val

\* A query is dispatched at most once, and a route or a validation error is
\* only ever returned for a query that was dispatched (mpsc + oneshot).
AnswersComeFromDispatch ==
  /\ \A i, j \in DOMAIN log : log[i].query = log[j].query => i = j
  /\ \A q \in Queries : answer[q] \in {"route", "invalid"} =>
       \E i \in DOMAIN log : log[i].query = q

\* The empty answer handle_query falls back on is given only after the
\* engine thread has panicked, never by an ordinary shutdown or a full queue.
EmptyMeansPanicked ==
  \A q \in Queries : answer[q] = "empty" => engine = "panicked"

\* What polling /info can be relied on for: if the engine had nothing
\* pending or running when the update was sent, then seeing
\* customization_active rise and fall means this update, or a later one, is
\* applied.
LonePollIsRight ==
  \A u \in lone : poll[u] = "concluded" => applied.ver >= ackVer[u]

(***************************************************************************)
(* Liveness, under FairSpec.                                               *)
(***************************************************************************)

\* No query hangs: while one is in flight there comes a time when none is,
\* even if the engine thread panics with queries in its queue or in its hands,
\* or if the queue is full (each query is served once, so the last ones end).
InFlight == {q \in Queries : pc[q] \in {"send", "reply"}}
EveryQueryFinishes == InFlight # {} ~> InFlight = {}

\* An engine that is behind catches up with the newest published vector unless
\* its thread ends first, even if no query ever arrives to wake it and further
\* vectors are published while it customizes.
PublishedIsApplied ==
  Len(sent) > applied.ver ~> (applied.ver = Len(sent) \/ ~Receiving)

(***************************************************************************)
(* Refinement: the server implements the last-writer-wins feed.            *)
(***************************************************************************)
Owed == IF log = <<>> THEN 0 ELSE log[Len(log)].published

Feed == INSTANCE WeightFeed WITH published <- sent, serving <- applied, owed <- Owed

\* Every step of the handlers and of the engine thread is a step of the feed
\* or leaves it alone: a vector is adopted whole, in publication order, and
\* no route is begun in debt.
ImplementsFeed == Feed!Spec
-----------------------------------------------------------------------------
(* The inductive invariant behind the safety properties, as a conjunction  *)
(* of named parts.  TLC checks it with the properties; WeightServerProofs   *)
(* proves it for every instance.                                           *)
\* Newest vector the channel ever held; Baseline before the first send.
Vector(v) == IF v = 0 THEN Baseline ELSE sent[v]

\* The receiver never runs ahead of the channel, and the thread borrows only
\* a vector it has not seen.
Unseen ==
  /\ seen <= Len(sent)
  /\ engine = "borrow" => seen < Len(sent)

\* The thread's position tells how its three versions are related: the
\* loop leaves `applied` behind `seen` only between borrow and customize.
Versions ==
  /\ applied.ver <= seen /\ taken.ver <= seen
  /\ applied.val = Vector(applied.ver) /\ taken.val = Vector(taken.ver)
  /\ engine \in {"activate", "customize"} =>
       taken.ver = seen /\ applied.ver < seen
  /\ engine \in {"check", "borrow", "deactivate", "recv", "dispatch"} =>
       applied.ver = seen
  /\ Running(engine) => (active <=> engine \in {"customize", "deactivate"})

\* Debt: once the channel has been read, everything published when any
\* earlier dispatch began has been seen, unless the sender is gone.
Debts ==
  /\ \A i \in DOMAIN log : log[i].published <= Len(sent)
  /\ up /\ engine \in {"activate", "customize", "deactivate", "recv"} =>
       \A i \in DOMAIN log : log[i].published <= seen
  /\ AtMostOneStaleRoute

\* AppState is dropped only when no handler runs, and the thread ends
\* normally only after that.
Lifecycle ==
  /\ ~up => \A r \in Requests : pc[r] = "idle" \/ Finished(r)
  /\ engine \in {"stopped", "killed"} => ~up
  /\ \A u \in Updates : pc[u] \notin {"send", "reply"}
  /\ \A q \in Queries : pc[q] \notin {"customize", "reset"}
  /\ \A q \in Queries : reply[q] = "dropped" => engine = "panicked"
  /\ EmptyMeansPanicked

\* Uncrossed updates publish what they stored before another one stores.
Agreement ==
  ~crossed /\ engine # "panicked" =>
    /\ (\A u \in Updates : ~Publishing(u)) => EffectiveWeights = Vector(Len(sent))
    /\ \A u \in Updates : Publishing(u) =>
         /\ EffectiveWeights = body[u]
         /\ \A o \in Updates : Publishing(o) => o = u

\* Where a query can be: not yet in the channel, in it once, or taken out.
Logged(q) == \E i \in DOMAIN log : log[i].query = q
Custody ==
  /\ \A i, j \in DOMAIN queue : queue[i] = queue[j] => i = j
  /\ \A i, j \in DOMAIN log : log[i].query = log[j].query => i = j
  /\ \A q \in Queries :
       /\ Queued(q) => ~Logged(q)
       /\ pc[q] \in {"idle", "send"} => ~Queued(q) /\ ~Logged(q)
       /\ up /\ (q \in current \/ reply[q] \in {"route", "invalid"}) => Logged(q)
       /\ answer[q] \in {"route", "invalid"} => Logged(q)

\* An update sent to an idle engine: the next rise of the flag is for it.
Polling ==
  \A u \in Updates :
    /\ ackVer[u] <= Len(sent)
    /\ pc[u] # "done" => answer[u] = "none" /\ u \notin lone
    /\ answer[u] # "accepted" => poll[u] = "none"
    /\ u \in lone =>
         /\ engine \in {"activate", "customize"} => taken.ver >= ackVer[u]
         /\ engine = "deactivate" => applied.ver >= ackVer[u]
         /\ poll[u] = "active" => active \/ applied.ver >= ackVer[u]
         /\ poll[u] = "concluded" => applied.ver >= ackVer[u]

IInv ==
  /\ TypeOK /\ Unseen /\ Versions /\ Debts /\ Lifecycle
  /\ Agreement /\ Custody /\ Polling
=============================================================================
