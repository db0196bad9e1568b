---------------------------- MODULE WebSocketRelay ----------------------------
(***************************************************************************)
(* The relay between a client's WebSocket and the upstream's               *)
(* (proxy/websocket.rs), with the tracker that attributes the upstream's   *)
(* events to the messages in the request log (proxy/logs/websocket.rs).    *)
(*                                                                         *)
(* Client messages are numbered as they arrive. A "create" asks for a      *)
(* response; a "named" one carries a model and is logged, a "plain" one is *)
(* neither. The upstream is the environment: it may work on what it has    *)
(* got without a word, refuse, answer, fail, close and break anywhere.     *)
(* Of an event only what the relay tells apart is kept: its kind, whether  *)
(* it names its response, and (unseen by the relay) the sending it is of,  *)
(* which also stands for the response's ID.                                *)
(***************************************************************************)
EXTENDS Naturals, Sequences, SequencesExt, FiniteSets

CONSTANTS
  MaxMessages,      \* bounds what the client sends
  QueueMessages,    \* QUEUE_MESSAGES, the limit of the queue
  PreludeMessages,  \* QUEUE_MESSAGES, the limit of a prelude
  MaxAttempts,      \* bounds the sendings of a message there is time for
  MaxReconnects,    \* the retry count, and a bound on reconnections in timed mode
  NamelessErrors    \* an error may not name its response while others are in flight

ASSUME ConstantsOK ==
  /\ MaxMessages \in Nat \ {0} /\ QueueMessages \in Nat \ {0}
  /\ PreludeMessages \in Nat \ {0}
  /\ MaxAttempts \in Nat \ {0} /\ MaxReconnects \in Nat
  /\ NamelessErrors \in BOOLEAN

VARIABLES
  timed,       \* recovery has a time budget
  phase,       \* where the relay's task is
  kinds,       \* the messages received, by number
  queue,       \* PendingQueue: messages not yet sent
  attempts,    \* how often each message was sent
  current,     \* the message whose prelude is being recovered
  buffered,    \* the prelude so far, or released events not yet passed on
  late,        \* the time budget is spent
  carried,     \* queued_recovery: the next logged message inherits the budget
  reconnects,  \* recoveries
  tracker,     \* logs::WebSocketTracker
  log,         \* the state of each message in the request log
  upstream,    \* what the upstream has of each message, on this connection
  worked,      \* the sendings the upstream has begun to work on
  client       \* of which sendings the client has got events, and which completions

vars == <<timed, phase, kinds, queue, attempts, current, buffered, late, carried,
          reconnects, tracker, log, upstream, worked, client>>
budget == <<late, carried, reconnects>>
task   == <<phase, queue, current, buffered, budget, tracker, log, upstream>>

Messages   == 1..MaxMessages
Sendings   == [msg : Messages, attempt : 1..MaxAttempts]
NoSending  == [msg |-> 0, attempt |-> 0]
Events     == [of : Sendings \cup {NoSending}, named : BOOLEAN,
               kind : {"created", "refusal", "output", "completed", "failed", "close"}]
Serving    == {"first", "connecting", "open", "prelude", "backoff"}
NoTracking == [pending |-> <<>>, responses |-> {}, guards |-> {}]
Nothing    == [m \in Messages |-> "none"]

TypeOK ==
  /\ timed \in BOOLEAN /\ late \in BOOLEAN /\ carried \in BOOLEAN
  /\ phase \in Serving \cup {"ended"}
  /\ Len(kinds) <= MaxMessages /\ Range(kinds) \subseteq {"create", "named", "plain"}
  /\ Len(queue) <= QueueMessages /\ Range(queue) \subseteq DOMAIN kinds
  /\ Len(buffered) <= PreludeMessages /\ Range(buffered) \subseteq Events
  /\ attempts \in [Messages -> 0..MaxAttempts] /\ current \in Messages \cup {0}
  /\ reconnects \in 0..MaxReconnects
  /\ tracker.guards \subseteq DOMAIN kinds
  /\ Range(tracker.pending) \subseteq tracker.guards
  /\ tracker.responses \subseteq [id : Sendings, by : tracker.guards]
  /\ log \in [Messages -> {"none", "open", "succeeded", "failed", "cancelled"}]
  /\ upstream \in [Messages -> {"none", "got", "created", "output"}]
  /\ worked \subseteq Sendings /\ client \subseteq [of : Sendings, completed : BOOLEAN]

\* A request without a model in its URL defers the upstream's handshake to the first
\* message that has one; for every other, the upstream is connected first.
Init ==
  /\ timed \in BOOLEAN
  /\ \/ phase = "first" /\ carried = TRUE
     \/ phase = "open" /\ carried = FALSE
  /\ kinds = <<>> /\ queue = <<>> /\ attempts = [m \in Messages |-> 0]
  /\ current = 0 /\ buffered = <<>> /\ late = FALSE /\ reconnects = 0
  /\ tracker = NoTracking /\ log = Nothing /\ upstream = Nothing
  /\ worked = {} /\ client = {}

Create(m)  == kinds[m] = "create"
Logged(m)  == kinds[m] # "plain"
Sending(m) == [msg |-> m, attempt |-> attempts[m]]

\* RequestGuard::finish: the first outcome of a logged message stays.
Finished(l, of, outcome) ==
  [m \in Messages |-> IF m \in of /\ l[m] = "open" THEN outcome ELSE l[m]]

\* The task returns, and the guards it drops end their requests as cancelled.
Returns(l) ==
  /\ phase' = "ended" /\ log' = Finished(l, Messages, "cancelled")
  /\ queue' = <<>> /\ buffered' = <<>> /\ current' = 0 /\ tracker' = NoTracking
  /\ upstream' = Nothing /\ late' = FALSE /\ carried' = FALSE /\ UNCHANGED reconnects

ReconnectsWithCurrent(l, unsent) ==  \* mutant: interrupted work is sent again
  LET failed == Finished(l, tracker.guards \ {current}, "failed") IN
  IF reconnects = MaxReconnects THEN Returns(failed)
  ELSE /\ phase' = "connecting" /\ log' = failed /\ tracker' = NoTracking
       /\ queue' = (IF current = 0 THEN unsent ELSE <<current>> \o unsent)
       /\ buffered' = <<>> /\ current' = 0 /\ upstream' = Nothing
       /\ late' = FALSE /\ carried' = FALSE /\ reconnects' = reconnects + 1

\* The upstream's connection is lost. What was sent has failed, and only what was not is
\* kept for the next connection, if the settings allow one.
Reconnects(l, unsent) ==
  LET failed == Finished(l, tracker.guards, "failed") IN
  IF reconnects = MaxReconnects THEN Returns(failed)
  ELSE /\ phase' = "connecting" /\ log' = failed /\ tracker' = NoTracking
       /\ queue' = unsent /\ buffered' = <<>> /\ current' = 0 /\ upstream' = Nothing
       /\ late' = FALSE /\ carried' = FALSE /\ reconnects' = reconnects + 1

------------------------------------------------------------------------------
\* The client.

Full == Len(queue) >= QueueMessages

\* The open relay serves the client when it has released events at hand or nothing to
\* send; every other wait serves it too. What arrives is queued, unsent. A deferred
\* connection waits for the first model, and ends if it is not a valid one.
ClientSends(kind, model) ==
  LET m == Len(kinds) + 1
      logged == IF kind = "plain" THEN log ELSE [log EXCEPT ![m] = "open"] IN
  /\ phase \in Serving /\ (phase = "open" => buffered # <<>> \/ queue = <<>>)
  /\ m <= MaxMessages /\ kinds' = Append(kinds, kind)
  /\ CASE kind = "plain" -> model = "none" [] kind = "named" -> model # "none" [] OTHER -> TRUE
  /\ IF Full
     THEN Returns(Finished(logged, {m}, "failed"))
     ELSE IF phase = "first" /\ model = "invalid"
     THEN Returns(Finished(logged, Range(queue) \cup {m}, "failed"))
     ELSE /\ queue' = Append(queue, m) /\ log' = logged
          /\ phase' = IF phase = "first" /\ model = "valid" THEN "connecting" ELSE phase
          /\ UNCHANGED <<current, buffered, budget, tracker, upstream>>
  /\ UNCHANGED <<timed, attempts, worked, client>>

\* A close, a broken connection, a failed write, or 30 seconds without a model.
ClientLeaves ==
  /\ phase \in Serving /\ Returns(log)
  /\ UNCHANGED <<timed, kinds, attempts, worked, client>>

------------------------------------------------------------------------------
\* Connecting. The handshakes refused and repeated carry no message, so only what
\* comes of them is kept.

Connected ==
  /\ phase = "connecting" /\ phase' = "open"
  /\ carried' = (queue # <<>>)
  /\ UNCHANGED <<timed, kinds, queue, attempts, current, buffered, late, reconnects,
                 tracker, log, upstream, worked, client>>

\* No connection, or no time left for it.
ConnectFails ==
  /\ phase = "connecting"
  /\ Returns(Finished(log, Range(queue), "failed"))
  /\ UNCHANGED <<timed, kinds, attempts, worked, client>>

BudgetEnds ==
  /\ timed /\ ~late
  /\ phase \in {"connecting", "prelude", "backoff"} \/ (carried /\ phase = "open")
  /\ late' = TRUE
  /\ UNCHANGED <<timed, phase, kinds, queue, attempts, current, buffered, carried,
                 reconnects, tracker, log, upstream, worked, client>>

------------------------------------------------------------------------------
\* Sending the head of the queue, before anything more is received.

Popping == phase = "open" /\ buffered = <<>> /\ queue # <<>>

\* It is invalid or needs another API key, or there is no time left to write it.
Rejects ==
  /\ Popping /\ Returns(Finished(log, {Head(queue)}, "failed"))
  /\ UNCHANGED <<timed, kinds, attempts, worked, client>>

Arrives(m) ==
  /\ attempts' = [attempts EXCEPT ![m] = @ + 1]
  /\ upstream' = [upstream EXCEPT ![m] = IF Create(m) THEN "got" ELSE @]
  /\ UNCHANGED worked

\* A create alone in flight has its prelude recovered if recovery is timed. (So do the
\* path and the length of the message have a say, which `fits` stands for.)
Sends(fits) ==
  LET m == Head(queue) IN
  /\ Popping /\ Arrives(m) /\ queue' = Tail(queue)
  /\ IF Logged(m) THEN late' = (carried /\ late) /\ carried' = FALSE
                  ELSE UNCHANGED <<late, carried>>
  /\ IF Create(m)
     THEN /\ tracker' = [tracker EXCEPT !.pending = Append(@, m), !.guards = @ \cup {m}]
          /\ UNCHANGED log
     ELSE /\ log' = Finished(log, {m}, "succeeded") /\ UNCHANGED tracker
  /\ IF Create(m) /\ timed /\ fits /\ tracker.guards = {}
     THEN phase' = "prelude" /\ current' = m
     ELSE UNCHANGED <<phase, current>>
  /\ UNCHANGED <<timed, kinds, buffered, reconnects, client>>

\* A failed write, after which the upstream may have the message all the same.
WriteFails(m, began) ==
  /\ attempts' = [attempts EXCEPT ![m] = @ + 1]
  /\ worked' = IF began /\ Create(m)
               THEN worked \cup {[msg |-> m, attempt |-> attempts[m] + 1]} ELSE worked
  /\ UNCHANGED <<timed, kinds, client>>

SendFails(began) ==
  /\ Popping /\ WriteFails(Head(queue), began)
  /\ Reconnects(Finished(log, {Head(queue)}, "failed"), Tail(queue))

------------------------------------------------------------------------------
\* The upstream. Creates are answered by created, in order, and then output and completed.
\* They fail anywhere and are refused before the upstream has worked on them, by an event
\* of the response or by an error that names none.

Works(m) ==
  /\ upstream[m] \in {"got", "created"} /\ Sending(m) \notin worked
  /\ worked' = worked \cup {Sending(m)}
  /\ UNCHANGED <<timed, task, kinds, attempts, client>>

Alone(m) == \A k \in Messages \ {m} : upstream[k] = "none"

\* What the upstream has of m once it has said ev.
Speaks(m, ev, then) ==
  /\ upstream[m] # "none" /\ ev.of = Sending(m)
  /\ \/ /\ upstream[m] = "got" /\ ev.kind = "created" /\ ev.named /\ then = "created"
        /\ \A k \in 1..(m-1) : upstream[k] # "got"
     \/ upstream[m] = "created" /\ ev.kind = "output" /\ ~ev.named /\ then = "output"
     \/ upstream[m] # "got" /\ ev.kind = "completed" /\ ev.named /\ then = "none"
     \/ /\ ev.kind = "failed" \/ (ev.kind = "refusal" /\ Sending(m) \notin worked)
        /\ IF ev.named THEN upstream[m] # "got" ELSE NamelessErrors \/ Alone(m)
        /\ then = "none"
  /\ worked' = IF ev.kind \in {"output", "completed"} THEN worked \cup {ev.of} ELSE worked

Close == [of |-> NoSending, named |-> FALSE, kind |-> "close"]

------------------------------------------------------------------------------
\* Recovering the prelude of `current`: refusals are repeated on the same connection.

Release(events) == phase' = "open" /\ current' = 0 /\ buffered' = events

PreludeEvent(m, ev, then) ==
  LET events == Append(buffered, ev) IN
  /\ phase = "prelude" /\ Speaks(m, ev, then)
  /\ upstream' = [upstream EXCEPT ![m] = then]
  /\ IF Len(events) >= PreludeMessages \/ ev.kind \in {"output", "completed", "failed"}
     THEN Release(events)
     ELSE /\ phase' = IF ev.kind = "refusal" THEN "backoff" ELSE "prelude"
          /\ buffered' = events /\ UNCHANGED current
  /\ UNCHANGED <<timed, kinds, queue, attempts, budget, tracker, log, client>>

PreludeCloses ==
  /\ phase = "prelude" /\ Release(Append(buffered, Close)) /\ upstream' = Nothing
  /\ UNCHANGED <<timed, kinds, queue, attempts, budget, tracker, log, worked, client>>

ResendKeepsBuffer ==  \* mutant: the events of the refused attempt are kept
  /\ phase = "backoff" /\ ~late /\ attempts[current] < MaxAttempts
  /\ Arrives(current) /\ phase' = "prelude"
  /\ UNCHANGED <<timed, kinds, queue, current, budget, tracker, log, client, buffered>>

ResendLater ==  \* mutant: the refused message goes back to the queue
  /\ phase = "backoff" /\ ~late /\ Len(queue) < QueueMessages
  /\ phase' = "open" /\ buffered' = <<>> /\ current' = 0 /\ tracker' = NoTracking
  /\ queue' = Append(queue, current)
  /\ UNCHANGED <<timed, kinds, attempts, budget, log, upstream, worked, client>>

Resend ==
  /\ phase = "backoff" /\ ~late /\ attempts[current] < MaxAttempts
  /\ Arrives(current) /\ phase' = "prelude" /\ buffered' = <<>>
  /\ UNCHANGED <<timed, kinds, queue, current, budget, tracker, log, client>>

ResendFails(began) ==
  /\ phase = "backoff" /\ ~late /\ attempts[current] < MaxAttempts
  /\ WriteFails(current, began) /\ Reconnects(log, queue)

\* No time for another attempt: the rest of it is slept out.
GivesUp ==
  /\ phase = "backoff" /\ Release(buffered) /\ late' = TRUE
  /\ UNCHANGED <<timed, kinds, queue, attempts, carried, reconnects, tracker, log, upstream,
                 worked, client>>

\* No decision, or the repeated message not written, in time.
PreludeTimesOut ==
  /\ phase \in {"prelude", "backoff"} /\ late
  /\ Returns(Finished(log, {current}, "failed"))
  /\ UNCHANGED <<timed, kinds, attempts, worked, client>>

------------------------------------------------------------------------------
\* Passing events on.

NoneForgotten(pending, of) == pending  \* mutant: a request that ended stays pending

StillPending(pending, of) ==
  LET retained[n \in 0..Len(pending)] ==
        IF n = 0 THEN <<>>
        ELSE IF pending[n] \in of THEN retained[n - 1] ELSE Append(retained[n - 1], pending[n])
  IN retained[Len(pending)]

\* Tracker::observe. A response is its first pending request's from its creation on;
\* an event that names no response is of the only request there is, or of none.
Observe(ev) ==
  LET terminal == ev.kind \in {"refusal", "completed", "failed"}
      only  == Cardinality(tracker.guards) = 1
      known == \E r \in tracker.responses : r.id = ev.of
      binds == /\ ev.named /\ ~known /\ tracker.pending # <<>>
               /\ ev.kind = "created" \/ (terminal /\ only)
      responses == IF binds
                   THEN tracker.responses \cup {[id |-> ev.of, by |-> Head(tracker.pending)]}
                   ELSE tracker.responses
      pending == IF binds THEN Tail(tracker.pending) ELSE tracker.pending
      of == IF ev.named THEN {r.by : r \in {r \in responses : r.id = ev.of}}
            ELSE IF only THEN tracker.guards ELSE {}
  IN IF terminal
     THEN /\ tracker' = [pending   |-> StillPending(pending, of),
                         responses |-> {r \in responses : r.by \notin of},
                         guards    |-> tracker.guards \ of]
          /\ log' = Finished(log, of, IF ev.kind = "completed" THEN "succeeded" ELSE "failed")
     ELSE /\ tracker' = [tracker EXCEPT !.pending = pending, !.responses = responses]
          /\ UNCHANGED log

Gets(ev) == client' = client \cup {[of |-> ev.of, completed |-> ev.kind = "completed"]}

Pass(normally) ==
  /\ phase = "open" /\ buffered # <<>>
  /\ IF Head(buffered) # Close
     THEN /\ Observe(Head(buffered)) /\ Gets(Head(buffered))
          /\ buffered' = Tail(buffered)
          /\ UNCHANGED <<phase, queue, current, budget, upstream>>
     ELSE /\ IF normally THEN Returns(Finished(log, tracker.guards, "failed"))
                         ELSE Reconnects(log, queue)
          /\ UNCHANGED client
  /\ UNCHANGED <<timed, kinds, attempts, worked>>

Receiving == phase = "open" /\ buffered = <<>> /\ queue = <<>>

Receive(m, ev, then) ==
  /\ Receiving /\ Speaks(m, ev, then)
  /\ upstream' = [upstream EXCEPT ![m] = then]
  /\ Observe(ev) /\ Gets(ev)
  /\ UNCHANGED <<timed, phase, kinds, queue, attempts, current, buffered, budget>>

UpstreamCloses ==
  /\ Receiving /\ Returns(Finished(log, tracker.guards, "failed"))
  /\ UNCHANGED <<timed, kinds, attempts, worked, client>>

UpstreamBreaks ==
  /\ Receiving \/ phase = "prelude"
  /\ Reconnects(log, queue)
  /\ UNCHANGED <<timed, kinds, attempts, worked, client>>

Next ==
  \/ ClientLeaves \/ Connected \/ ConnectFails \/ BudgetEnds \/ Rejects \/ PreludeCloses
  \/ Resend \/ GivesUp \/ PreludeTimesOut \/ UpstreamCloses \/ UpstreamBreaks
  \/ \E kind \in {"create", "named", "plain"}, model \in {"none", "valid", "invalid"} :
       ClientSends(kind, model)
  \/ \E some \in BOOLEAN : Sends(some) \/ SendFails(some) \/ ResendFails(some) \/ Pass(some)
  \/ \E m \in Messages : Works(m)
  \/ \E m \in Messages, kind \in {"created", "refusal", "output", "completed", "failed"},
        named \in BOOLEAN, then \in {"none", "created", "output"} :
       LET ev == [of |-> Sending(m), named |-> named, kind |-> kind] IN
       PreludeEvent(m, ev, then) \/ Receive(m, ev, then)

Spec == Init /\ [][Next]_vars

------------------------------------------------------------------------------
\* Nothing is sent again that the upstream may have begun to work on: not after output,
\* nor an ambiguous disconnect, nor a failed write (websocket.rs:496-498).
NeverWorkedTwice == \A s, t \in worked : s.msg = t.msg => s = t

\* Whatever was refused and repeated, the client gets the events of one attempt only.
OneAttempt == \A e, f \in client : e.of.msg = f.of.msg => e.of = f.of

\* Messages reach the upstream in the order the client sent them, over reconnections
\* and repetitions: none is sent before an earlier one that still will be.
SentInOrder ==
  [][\A m \in Messages : attempts'[m] > attempts[m] =>
       \A k \in Messages : (k > m => attempts[k] = 0) /\ (k < m => k \notin Range(queue'))]_vars

\* The log says that a response succeeded just when the client got its completion,
\* however the responses of several requests interleave.
OutcomesRight ==
  \A m \in DOMAIN kinds :
    Create(m) => (log[m] = "succeeded" <=> \E e \in client : e.of.msg = m /\ e.completed)
==============================================================================
