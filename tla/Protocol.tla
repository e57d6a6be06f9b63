------------------------------ MODULE Protocol -------------------------------
(***************************************************************************)
(* The asking side of kad_uv_protocol_t (protocol.c): what becomes of the  *)
(* callback of a request between the call of ping, store, find_node or     *)
(* find_value and its resolution.                                          *)
(*                                                                         *)
(* Everything runs on one libuv loop, so each step below is one callback   *)
(* (or one call from outside) run to its end.  A request is queued, the    *)
(* loop hands the datagram to the network, and send_request_cb runs later: *)
(* the promise that ties a response to its callback is registered only     *)
(* then, together with a timer of five seconds.  Responses may be lost,    *)
(* repeated, late, early (before the promise exists) or unparsable.  Time  *)
(* is abstracted: an armed timer may fire at any moment.                   *)
(*                                                                         *)
(* The protocol is started once, which may fail to bind its socket, and    *)
(* freed at any moment after that; the structure, the loop and the timers  *)
(* live on, and requests may be made of it as before.  A callback does not *)
(* free the protocol that runs it.                                         *)
(*                                                                         *)
(* The request identifier is a rand() of 31 bits, so two calls may carry   *)
(* the same one.                                                           *)
(***************************************************************************)
EXTENDS Integers, Sequences, FiniteSets, SequencesExt

CONSTANTS Ping, Store, FindNode, FindValue, \* the calls of each type, each made
                                           \* at most once
          ReqId                            \* the request identifiers

Call == Ping \cup Store \cup FindNode \cup FindValue
Kind == {"ping", "store", "find_node", "find_value"}

\* The calls of a type: a call has one type, the one its promise records.
CallsOf == [ping |-> Ping, store |-> Store, find_node |-> FindNode, find_value |-> FindValue]

ASSUME KindAssumption == \A j, k \in Kind : j # k => CallsOf[j] \cap CallsOf[k] = {}

kind == [c \in Call |-> CHOOSE k \in Kind : c \in CallsOf[k]]

\* The shape of the "result" member of a response, by the kind of request it
\* answers; "broken" is one that is missing or that no kind accepts.
Shape == Kind \cup {"broken"}

VARIABLES mode,      \* what became of the protocol: see Mode
          phase,     \* how far the sending of a call has come
          req,       \* the identifier in its send context
          promises,  \* self->promises: the calls that are registered, in order
          timers,    \* the calls whose timeout timer is armed
          outcomes,  \* what the callback of a call was called with, in order
          net,       \* the responses under way
          served,    \* the calls the peer has answered
          dropped    \* the calls whose promises were freed with the protocol

vars == <<mode, dropped, phase, req, promises, timers, outcomes, net, served>>

\* "new"; after a start that succeeded or failed "listening" or "deaf"; "freed".
Mode == {"new", "listening", "deaf", "freed"}
Started == mode \in {"listening", "deaf"}

Phase == {"idle", "refused", "queued", "sent", "unsent", "settled"}

\* A callback invocation: ok, and the call whose answer it carries, if any.
Failure == [ok |-> FALSE]
Success(c) == [ok |-> TRUE, of |-> c]

Init == /\ phase = [c \in Call |-> "idle"]
        /\ req \in [Call -> ReqId]
        /\ promises = <<>>
        /\ timers = {}
        /\ outcomes = [c \in Call |-> <<>>]
        /\ net = {}
        /\ served = {}
        /\ mode = "new"
        /\ dropped = {}

-----------------------------------------------------------------------------
\* promise->resolve(...): run the callback of c.
Resolve(c, outcome) == outcomes' = [outcomes EXCEPT ![c] = Append(@, outcome)]

\* Mutant of PromiseIndex: the oldest promise, whatever its identifier.
OldestPromise(ps, id) == 1

\* find_promise_index: the first promise with the identifier.
Pending(ps, id) == \E i \in DOMAIN ps : req[ps[i]] = id
PromiseIndex(ps, id) == CHOOSE i \in DOMAIN ps :
                          req[ps[i]] = id /\ \A j \in 1..(i - 1) : req[ps[j]] # id

\* kad_payload_parse_result: the type is taken from the promise; the result of
\* a store request may be anything.
Parses(k, shape) == shape = k \/ (k = "store" /\ shape # "broken")

\* A promise is found for the response, and its result parses.
Accepts(d) == /\ Pending(promises, d.id)
              /\ Parses(kind[promises[PromiseIndex(promises, d.id)]], d.shape)

-----------------------------------------------------------------------------
\* kad_uv_protocol_ping, _store, _find_node, _find_value: the request is
\* handed to the loop, which takes it for any socket that was initialised.  The
\* calls do not look whether the protocol was freed: a crawl that outlives it
\* starts its next round here ...
Ask(c) == /\ mode # "new"
          /\ phase[c] = "idle"
          /\ phase' = [phase EXCEPT ![c] = "queued"]
          /\ UNCHANGED <<req, promises, timers, outcomes, net, served>>

\* ... or the address does not parse or the loop refuses it, and the callback
\* is run with a failure before the call returns.
AskRefused(c) == /\ phase[c] = "idle"
                 /\ phase' = [phase EXCEPT ![c] = "refused"]
                 /\ Resolve(c, Failure)
                 /\ UNCHANGED <<req, promises, timers, net, served>>

\* The loop writes the datagram to the socket.
Transmit(c) == /\ phase[c] = "queued"
               /\ phase' = [phase EXCEPT ![c] = "sent"]
               /\ UNCHANGED <<req, promises, timers, outcomes, net, served>>

\* send_request_cb with an error status: the context is freed, and with it the
\* only reference to the callback.
SendFails(c) == /\ phase[c] = "queued"
                /\ phase' = [phase EXCEPT ![c] = "unsent"]
                /\ UNCHANGED <<req, promises, timers, outcomes, net, served>>

\* Mutants of SendDone: the identifier is registered instead of the call; a
\* second promise with the same identifier is refused.
SendDoneRegistersId(c) == /\ phase[c] = "sent"
                          /\ phase' = [phase EXCEPT ![c] = "settled"]
                          /\ promises' = Append(promises, req[c])
                          /\ timers' = timers \cup {c}
                          /\ UNCHANGED <<req, outcomes, net, served>>
SendDoneOncePerId(c) ==
  /\ phase[c] = "sent"
  /\ \/ /\ Pending(promises, req[c])
        /\ phase' = [phase EXCEPT ![c] = "unsent"]
        /\ UNCHANGED <<promises, timers>>
     \/ /\ ~ Pending(promises, req[c])
        /\ phase' = [phase EXCEPT ![c] = "settled"]
        /\ promises' = Append(promises, c)
        /\ timers' = timers \cup {c}
  /\ UNCHANGED <<req, outcomes, net, served>>

\* send_request_cb with status 0: register the promise and start the timer.
SendDone(c) == /\ phase[c] = "sent"
               /\ phase' = [phase EXCEPT ![c] = "settled"]
               /\ promises' = Append(promises, c)
               /\ timers' = timers \cup {c}
               /\ UNCHANGED <<req, outcomes, net, served>>

\* send_request_cb with status 0 when the timer cannot be started:
\* request_timeout_resolve_promise fails the first promise with the identifier.
SendDoneNoTimer(c) ==
  LET registered == Append(promises, c)
      i == PromiseIndex(registered, req[c])
  IN
  /\ phase[c] = "sent"
  /\ phase' = [phase EXCEPT ![c] = "settled"]
  /\ promises' = RemoveAt(registered, i)
  /\ Resolve(registered[i], Failure)
  /\ UNCHANGED <<req, timers, net, served>>

\* Mutant of Timeout: the promise is dropped and its callback is not run.
TimeoutSilent(c) ==
  /\ c \in timers
  /\ timers' = timers \ {c}
  /\ promises' = IF Pending(promises, req[c])
                 THEN RemoveAt(promises, PromiseIndex(promises, req[c]))
                 ELSE promises
  /\ UNCHANGED <<phase, req, outcomes, net, served>>

\* request_timeout_cb.
Timeout(c) ==
  /\ c \in timers
  /\ timers' = timers \ {c}
  /\ \/ /\ Pending(promises, req[c])
        /\ LET i == PromiseIndex(promises, req[c]) IN
           /\ Resolve(promises[i], Failure)
           /\ promises' = RemoveAt(promises, i)
     \/ /\ ~ Pending(promises, req[c])
        /\ UNCHANGED <<outcomes, promises>>
  /\ UNCHANGED <<phase, req, net, served>>

-----------------------------------------------------------------------------
\* The peer answers a request that reached it, with a result of the right
\* shape or with one that does not parse.
PeerAnswers(c) ==
  /\ mode = "listening"
  /\ phase[c] \in {"sent", "settled"}
  /\ c \notin served
  /\ served' = served \cup {c}
  /\ \E shape \in {kind[c], "broken"} :
       net' = net \cup {[id |-> req[c], shape |-> shape, of |-> c]}
  /\ UNCHANGED <<phase, req, promises, timers, outcomes>>

\* The network loses a response.
Lose(d) == /\ d \in net
           /\ net' = net \ {d}
           /\ UNCHANGED <<phase, req, promises, timers, outcomes, served>>

\* recv_cb_response: a response is delivered and, with "again", stays in the
\* network to be delivered once more.
ReceiveIgnored(d, again) ==
  /\ d \in net
  /\ ~ Accepts(d)
  /\ net' = IF again THEN net ELSE net \ {d}
  /\ UNCHANGED <<phase, req, promises, timers, outcomes, served>>

\* Mutant of ReceiveAnswer: the promise stays registered.
ReceiveAnswerKeeping(d, again) ==
  /\ d \in net
  /\ Accepts(d)
  /\ Resolve(promises[PromiseIndex(promises, d.id)], Success(d.of))
  /\ net' = IF again THEN net ELSE net \ {d}
  /\ UNCHANGED <<phase, req, promises, timers, served>>

ReceiveAnswer(d, again) ==
  LET i == PromiseIndex(promises, d.id) IN
  /\ d \in net
  /\ Accepts(d)
  /\ Resolve(promises[i], Success(d.of))
  /\ promises' = RemoveAt(promises, i)
  /\ net' = IF again THEN net ELSE net \ {d}
  /\ UNCHANGED <<phase, req, timers, served>>

Step(c) == \/ Ask(c) \/ AskRefused(c) \/ Transmit(c) \/ SendFails(c)
           \/ SendDone(c) \/ SendDoneNoTimer(c) \/ Timeout(c) \/ PeerAnswers(c)

Arrival(d, again) == Lose(d) \/ ReceiveIgnored(d, again) \/ ReceiveAnswer(d, again)

-----------------------------------------------------------------------------
\* kad_uv_protocol_start: the socket is bound and receives, or some call on the
\* way fails and is logged.  Requests are sent either way.
Start == /\ mode = "new"
         /\ mode' \in {"listening", "deaf"}
         /\ UNCHANGED <<dropped, phase, req, promises, timers, outcomes, net, served>>

\* Mutant of Free: the promises stay in the list.
FreeKeeping == /\ Started
               /\ mode' = "freed"
               /\ net' = {}
               /\ dropped' = {promises[i] : i \in DOMAIN promises}
               /\ UNCHANGED <<phase, req, promises, timers, outcomes, served>>

\* kad_uv_protocol_free: the promises are freed and their callbacks are not
\* run, the timers stay armed, and the socket, which stays open, is no longer
\* read.  What is queued is still written and registered, and so is what is
\* asked from then on.
Free == /\ Started
        /\ mode' = "freed"
        /\ net' = {}
        /\ promises' = <<>>
        /\ dropped' = {promises[i] : i \in DOMAIN promises}
        /\ UNCHANGED <<phase, req, timers, outcomes, served>>

Next == \/ Start \/ Free
        \/ /\ \/ \E c \in Call : Step(c)
              \/ \E d \in net, again \in BOOLEAN : Arrival(d, again)
           /\ UNCHANGED <<mode, dropped>>

Spec == Init /\ [][Next]_vars

\* The loop keeps running: what it has queued is written, its callbacks are
\* run, and its timers expire.  Nothing is assumed of the network or the peer.
Loop(A) == A /\ UNCHANGED <<mode, dropped>>
LoopRuns(c) == /\ WF_vars(Loop(Transmit(c) \/ SendFails(c)))
               /\ WF_vars(Loop(SendDone(c) \/ SendDoneNoTimer(c)))
               /\ WF_vars(Loop(Timeout(c)))

FairSpec == Spec /\ \A c \in Call : LoopRuns(c)

-----------------------------------------------------------------------------
\* The variables have the shape of the structures they stand for.
TypeOK == /\ phase \in [Call -> Phase]
          /\ req \in [Call -> ReqId]
          /\ promises \in Seq(Call)
          /\ timers \subseteq Call
          /\ outcomes \in [Call -> Seq({Failure} \cup {Success(c) : c \in Call})]
          /\ net \subseteq [id : ReqId, shape : Shape, of : Call]
          /\ served \subseteq Call
          /\ mode \in Mode
          /\ dropped \subseteq Call

\* The callback of a call runs at most once, whatever the order in which the
\* response, a repetition of it, the call's own timer and the timer of another
\* call with the same identifier arrive.
ResolvedOnce == \A c \in Call : Len(outcomes[c]) <= 1

\* Every registered promise has a timer that will find it: for no identifier
\* are there more promises than armed timers.  The timer of an answered call
\* stays armed, which is why the counts may differ.
TimersCoverPromises ==
  \A id \in ReqId : Cardinality({i \in DOMAIN promises : req[promises[i]] = id})
                      <= Cardinality({c \in timers : req[c] = id})

\* A call that was written to the network is not forgotten: its callback has
\* run, or its promise is registered and a timer will find it, or
\* send_request_cb is still to come; or the promise was freed with the protocol,
\* and then the callback, whose data the owner of the protocol frees next, is
\* never run, although the timer of the call goes off later and may then find
\* the promise of another call.
NotForgotten ==
  /\ TimersCoverPromises
  /\ \A c \in Call : phase[c] = "settled" =>
       (outcomes[c] = <<>> <=> c \in dropped \/ \E i \in DOMAIN promises : promises[i] = c)

\* A call whose identifier no other call drew is given the answer to that very
\* call, whatever becomes of the others.
OwnAnswer ==
  \A c \in Call : (\A d \in Call \ {c} : req[d] # req[c]) =>
    \A k \in DOMAIN outcomes[c] : outcomes[c][k].ok => outcomes[c][k].of = c

Callbacks == INSTANCE Requests WITH
  made      <- {c \in Call : phase[c] # "idle"},
  called    <- [c \in Call |-> [k \in DOMAIN outcomes[c] |-> outcomes[c][k].ok]],
  forgotten <- dropped,
  open      <- mode # "freed"

\* The protocol keeps the promises of Requests: callbacks come one at a time and
\* only for calls that were made, and once it is freed there are none for the
\* calls that were registered and only failures for those that were queued then
\* or are made later, although the promises of these are registered in the list
\* that was cleared, and the timers of the others still go off and look into it.
KeepsRequests == Callbacks!Spec

\* Every call that is written to the network is resolved, with nothing assumed
\* of the peer: the timers see to it, also of a socket that receives nothing and
\* after the protocol was freed.  The calls that are freed with it are the only
\* exception.
SentIsResolved == \A c \in Call : phase[c] = "sent" ~> (outcomes[c] # <<>> \/ c \in dropped)

\* The comment of request_timeout_resolve_promise: failures are reported "so
\* that the caller doesn't potentially hang indefinitely".
CallerNeverHangs == \A c \in Call : phase[c] = "queued" ~> outcomes[c] # <<>>
=============================================================================
