------------------------------ MODULE RequestLog ------------------------------
(***************************************************************************)
(* The request log's store (proxy/logs/store.rs) and the guards that end   *)
(* each request once (proxy/logs/lifecycle.rs), for HTTP requests and for  *)
(* messages on a WebSocket. Every operation holds the cache's lock, so it  *)
(* is one step. Of an entry only what the outcome depends on is kept, and  *)
(* of what is persisted the last snapshot: what becomes of it later is     *)
(* LogWriter's. `truth` records what really happened to each request.      *)
(***************************************************************************)
EXTENDS Naturals, Sequences, SequencesExt, FiniteSets

CONSTANTS
  MaxRequests,  \* bounds the requests
  MaxServed,    \* bounds the requests among them that are let in
  RecentLimit   \* RECENT_LIMIT

ASSUME ConstantsOK ==
  MaxRequests \in Nat \ {0} /\ MaxServed \in 0..MaxRequests /\ RecentLimit \in Nat \ {0}

VARIABLES
  nextId,   \* Cache.next_id
  order,    \* Cache.order: the most recent requests
  entries,  \* Cache.entries, by request ID
  phase,    \* where each request is
  saved,    \* the outcome in the last snapshot persisted of each request
  truth     \* what each request is, what its answer was and how it ended

vars == <<nextId, order, entries, phase, saved, truth>>

Ids     == 1..MaxRequests
Kinds   == {"responses", "other", "socket", "refused"}
States  == {"pending", "streaming", "succeeded", "failed", "cancelled"}
Entries == [kind : Kinds, streaming : BOOLEAN, status : {"none", "ok", "error"},
            state : States, terminal : {"none", "succeeded", "failed"}, final : BOOLEAN]
Begun(k) == [kind |-> k, streaming |-> FALSE, status |-> "none", state |-> "pending",
             terminal |-> "none", final |-> FALSE]
Unknown  == [kind |-> "none", streamed |-> FALSE, status |-> "none", heard |-> {},
             how |-> "none"]

TypeOK ==
  /\ nextId \in 0..MaxRequests /\ Len(order) <= RecentLimit
  /\ Range(order) \subseteq DOMAIN entries /\ DOMAIN entries \subseteq 1..nextId
  /\ \A id \in DOMAIN entries : entries[id] \in Entries
  /\ phase \in [Ids -> {"none", "handling", "body", "late", "returning", "over"}]
  /\ saved \in [Ids -> States \cup {"none"}]
  /\ truth \in [Ids -> [kind : Kinds \cup {"none"}, streamed : BOOLEAN,
                        status : {"none", "ok", "error"}, heard : SUBSET {"completed", "failed"},
                        how : {"none", "ended", "broken", "left"}]]

Init ==
  /\ nextId = 0 /\ order = <<>> /\ entries = <<>>
  /\ phase = [id \in Ids |-> "none"] /\ truth = [id \in Ids |-> Unknown]
  /\ saved = [id \in Ids |-> "none"]

------------------------------------------------------------------------------
\* The store.

\* What leaves with its place in the order: it must be final.
Evicted ==
  IF Len(order) = RecentLimit /\ entries[Head(order)].final THEN {Head(order)} ELSE {}

OldOneLater(id) == id + RecentLimit < nextId  \* mutant: the limit is off by one

\* Entries without a place in the order are kept only until they are final.
Old(id) == id + RecentLimit <= nextId

Recent(id) == Append(IF Len(order) = RecentLimit THEN Tail(order) ELSE order, id)

\* A snapshot's outcome, if it is final.
Snapshot(e) == IF e.final THEN e.state ELSE "none"

\* Store::persist: of the changes only usage and the end are handed to the writer.
Persisted(id, e, kind) ==
  IF kind \in {"received", "usage", "finished"} THEN [saved EXCEPT ![id] = Snapshot(e)] ELSE saved

\* Store::begin, and the snapshot it persists.
Begin(e) ==
  LET id == nextId + 1 IN
  /\ id \in Ids /\ nextId' = id
  /\ order' = Recent(id)
  /\ entries' = [i \in (DOMAIN entries \ Evicted) \cup {id} |->
                   IF i = id THEN e ELSE entries[i]]
  /\ saved' = Persisted(id, e, "received")

\* Store::update. A request whose entry is gone is passed over.
Update(id, e, kind) ==
  /\ entries' = [i \in DOMAIN entries \ (IF e.final /\ Old(id) THEN {id} ELSE {}) |->
                   IF i = id THEN e ELSE entries[i]]
  /\ saved' = IF id \in DOMAIN entries THEN Persisted(id, e, kind) ELSE saved

FailureForgotten(e, event) ==  \* mutant: the last terminal event wins
  [e EXCEPT !.terminal = IF event = "failed" THEN "failed"
                         ELSE IF event = "completed" THEN "succeeded" ELSE @]

\* Store::observe: a failure stays one, whatever follows it.
Observed(e, event) ==
  [e EXCEPT !.terminal = IF event = "failed" THEN "failed"
                         ELSE IF event = "completed" /\ @ # "failed" THEN "succeeded" ELSE @]

\* Store::complete. A stream of responses has to be completed; a failure it reported and
\* a failing status override a good end; a client may leave once it is completed.
Outcome(e, outcome, source) ==
  LET incomplete == /\ source = "stream_end" /\ e.streaming /\ e.terminal = "none"
                    /\ e.kind = "responses"
      left == /\ source = "client_disconnect" /\ e.streaming /\ e.terminal = "succeeded"
              /\ e.status # "error"
  IN IF e.terminal = "failed" \/ incomplete \/ (outcome = "succeeded" /\ e.status = "error")
     THEN "failed" ELSE IF left THEN "succeeded" ELSE outcome

CompletedAgain(e, outcome, source) ==  \* mutant: a request may end twice
  [e EXCEPT !.state = Outcome(e, outcome, source), !.final = TRUE]

Completed(e, outcome, source) ==
  IF e.final THEN e ELSE [e EXCEPT !.state = Outcome(e, outcome, source), !.final = TRUE]

\* Store::finish, the status.
Answered(e, status) ==
  [e EXCEPT !.status = status, !.state = IF e.final THEN @ ELSE "streaming"]

\* An operation on a request that is no longer cached changes nothing.
Entry(id) == IF id \in DOMAIN entries THEN entries[id] ELSE Begun("other")

------------------------------------------------------------------------------
\* A request's way through them.

Goes(id, to) == phase' = [phase EXCEPT ![id] = to]
Ends(id, how, to) ==
  /\ Goes(id, to)
  /\ truth' = [truth EXCEPT ![id].how = IF @ = "none" THEN how ELSE @]

Arrives(k) ==
  /\ k # "refused" => Cardinality({id \in 1..nextId : truth[id].kind # "refused"}) < MaxServed
  /\ Begin(Begun(k)) /\ Goes(nextId', "handling")
  /\ truth' = [truth EXCEPT ![nextId'].kind = k]

\* A request without the access token has no guard, and ends at once.
Unauthorized(id) ==
  /\ phase[id] = "handling" /\ truth[id].kind = "refused"
  /\ Update(id, Completed(Answered(Entry(id), "error"), "failed", "authentication"), "finished")
  /\ Goes(id, "over")
  /\ truth' = [truth EXCEPT ![id].status = "error", ![id].how = "ended"]
  /\ UNCHANGED <<nextId, order>>

\* The handler learns that the answer is a stream.
ResponseType(id) ==
  /\ phase[id] = "handling" /\ truth[id].kind # "refused" /\ ~truth[id].streamed
  /\ Update(id, [Entry(id) EXCEPT !.streaming = TRUE], "response")
  /\ truth' = [truth EXCEPT ![id].streamed = TRUE]
  /\ UNCHANGED <<nextId, order, phase>>

\* The handler answers, or the socket has taken the message.
Headers(id, status) ==
  /\ phase[id] = "handling" /\ truth[id].kind # "refused"
  /\ truth[id].kind = "socket" => status = "ok"
  /\ Update(id, Answered(Entry(id), status), "headers")
  /\ Goes(id, "body") /\ truth' = [truth EXCEPT ![id].status = status]
  /\ UNCHANGED <<nextId, order>>

\* Part of the answer on its way to the client: an event that is terminal or not, with
\* new usage or not. After a declared length the rest is read when the end is recorded.
Event(id, event, usage) ==
  /\ phase[id] \in {"body", "late"} /\ (truth[id].kind = "socket" => event = "none")
  /\ Update(id, Observed(Entry(id), event), IF usage THEN "usage" ELSE "response_event")
  /\ truth' = IF phase[id] = "body" /\ event # "none"
              THEN [truth EXCEPT ![id].heard = @ \cup {event}] ELSE truth
  /\ UNCHANGED <<nextId, order, phase>>

\* The body's end, or its declared length (which streams lose) before it.
BodyEnds(id, to) ==
  /\ phase[id] = "body" /\ truth[id].kind # "socket"
  /\ to = "over" \/ (to = "late" /\ ~truth[id].streamed)
  /\ Update(id, Completed(Entry(id), "succeeded",
                          IF truth[id].streamed THEN "stream_end" ELSE "http"), "finished")
  /\ Ends(id, "ended", to)
  /\ UNCHANGED <<nextId, order>>

\* The body's error, or the socket's loss.
BodyBreaks(id) ==
  /\ phase[id] = "body"
  /\ Update(id, Completed(Entry(id), "failed", "transport"), "finished")
  /\ Ends(id, "broken", "over")
  /\ UNCHANGED <<nextId, order>>

\* The message's terminal event ends its guard.
SocketEvent(id, event) ==
  /\ phase[id] = "body" /\ truth[id].kind = "socket" /\ event # "none"
  /\ Update(id, Completed(Observed(Entry(id), event),
                          IF event = "completed" THEN "succeeded" ELSE "failed",
                          "responses_event"), "finished")
  /\ phase' = [phase EXCEPT ![id] = "over"]
  /\ truth' = [truth EXCEPT ![id].heard = @ \cup {event}, ![id].how = "ended"]
  /\ UNCHANGED <<nextId, order>>

\* Recovery on a socket runs out of time, past the guard, which is dropped soon after.
SocketTimesOut(id) ==
  /\ phase[id] = "body" /\ truth[id].kind = "socket"
  /\ Update(id, Completed(Entry(id), "failed", "recovery"), "finished")
  /\ Ends(id, "broken", "returning")
  /\ UNCHANGED <<nextId, order>>

\* The guard is dropped before it is done.
Dropped(id) ==
  /\ phase[id] \in {"handling", "body", "returning"} /\ truth[id].kind # "refused"
  /\ Update(id, Completed(Entry(id), "cancelled", "client_disconnect"), "finished")
  /\ Ends(id, "left", "over")
  /\ UNCHANGED <<nextId, order>>

Next ==
  \/ \E k \in Kinds : Arrives(k)
  \/ \E id \in Ids :
       \/ Unauthorized(id) \/ ResponseType(id) \/ BodyBreaks(id)
       \/ SocketTimesOut(id) \/ Dropped(id)
       \/ \E status \in {"ok", "error"} : Headers(id, status)
       \/ \E to \in {"late", "over"} : BodyEnds(id, to)
       \/ \E event \in {"none", "completed", "failed"} :
            \/ SocketEvent(id, event)
            \/ \E usage \in BOOLEAN : Event(id, event, usage)

Spec == Init /\ [][Next]_vars

------------------------------------------------------------------------------
\* The cache holds the most recent requests and, however many came after them, those
\* that have not ended; and nothing else, whenever they end.
CacheExact ==
  DOMAIN entries = Range(order) \cup {id \in 1..nextId : saved[id] = "none"}

\* The outcome that was persisted stays: usage that comes late, a second end and a guard
\* dropped after it are no new outcome.
FinalSticks == [][\A id \in Ids : saved[id] # "none" => saved'[id] = saved[id]]_vars

\* What a good end is: no failing status and no failure reported before it, and either
\* the end itself, of a stream of responses only after its completion, or a client that
\* left a completed stream.
Succeeded(t) ==
  /\ t.status # "error" /\ "failed" \notin t.heard
  /\ \/ t.how = "ended" /\ (t.kind = "responses" /\ t.streamed => "completed" \in t.heard)
     \/ t.how = "left" /\ t.streamed /\ "completed" \in t.heard

\* A request that is over has a final snapshot, and it says so just when it succeeded.
OutcomeHonest ==
  \A id \in Ids : phase[id] = "over" =>
    saved[id] # "none" /\ (saved[id] = "succeeded" <=> Succeeded(truth[id]))
==============================================================================
