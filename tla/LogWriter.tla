------------------------------ MODULE LogWriter ------------------------------
(***************************************************************************)
(* The persistent request log (proxy/logs/database.rs): a bounded queue    *)
(* that request handlers fill without waiting, a writer thread that drains *)
(* it in batches into SQLite, and the recovery a start of the proxy does.  *)
(*                                                                         *)
(* A session is one run of the proxy. Sessions share the database and the  *)
(* lock file beside it; they may follow each other or overlap. An event is *)
(* the n-th snapshot its session logs: which request it is of, and whether *)
(* that request is still open. Every handler logs under the store's mutex, *)
(* so a session has at most one event on its way into the queue. Logging   *)
(* is detailed: every event also becomes a line of the timeline.           *)
(***************************************************************************)
EXTENDS Naturals, Sequences, SequencesExt, FiniteSets

CONSTANTS
  Session,   \* the runs of the proxy
  Request,   \* the requests of a session
  Capacity,  \* of the queue
  BatchSize, \* events the writer commits together, unless something hurries it
  MaxEvents, \* MaxEvents[s] bounds the events session s logs
  Flushing,  \* bounds the sessions that call flush
  Asking,    \* bounds the sessions whose health is asked for
  Crashing,  \* bounds the sessions that crash
  Failing,   \* bounds the sessions whose commits may fail
  Free       \* owner of the lock file when nobody holds it

ASSUME ConstantsOK ==
  /\ Capacity \in Nat \ {0} /\ BatchSize \in 1..Capacity
  /\ MaxEvents \in [Session -> Nat]
  /\ Flushing \subseteq Session /\ Asking \subseteq Session
  /\ Crashing \subseteq Session /\ Failing \subseteq Session
  /\ Free \notin Session
  /\ IsFiniteSet(Session) /\ IsFiniteSet(Request)

VARIABLES
  life,      \* life[s]: new, up, closed (the Database is dropped) or dead
  shown,     \* shown[s][r]: what the store holds of request r
  issued,    \* issued[s]: how many events the session has logged
  accepted,  \* accepted[s]: those that got into the queue
  logging,   \* logging[s]: where enqueue is, and with which event
  queue,     \* queue[s]: the channel to the writer
  health,    \* health[s]: the counters handlers and writer share
  reading,   \* reading[s]: the health call, counter by counter, and its answer
  flush,     \* flush[s]: the flush call, and the events it answers for
  step,      \* step[s]: where the writer thread is
  batch,     \* batch[s]: events received and not yet counted as committed
  ack,       \* ack[s]: a flush has been received and not yet answered
  gone,      \* gone[s]: the writer has seen the channel closed
  drops,     \* drops[s]: the drop count this round of the writer read
  recorded,  \* recorded[s]: the drop count last committed
  failing,   \* failing[s]: commits fail: no, recently, for over 5 s
  due,       \* due[s]: the batch has waited for the flush interval
  db,        \* the database: rows, timeline, metadata
  owner      \* who holds the lock file

vars == <<life, shown, issued, accepted, logging, queue, health, reading, flush, step, batch,
          ack, gone, drops, recorded, failing, due, db, owner>>
handlers == <<shown, issued, accepted, logging, reading>>
writer   == <<step, batch, ack, gone, drops, recorded, failing, due>>

Row   == Session \X Request
State == {"open", "final"}
Event == [n : Nat \ {0}, req : Request, state : State]
Flush == [n |-> 0]   \* the other command in the queue
NoEvent == [n |-> 0]

\* What a health call has found: of the events logged before it, and what was pending
\* when it looked. A status of Half is a call that has counters yet to read.
Half   == {"pending read", "no error", "ready"}
Status == {"error", "initializing", "gaps", "lagging", "healthy"}
Unasked == [since |-> 0, pending |-> 0, status |-> "none"]

\* A line of the timeline: an event, or n = 0 for the line recovery writes.
LineOf(s, e) == [ses |-> s, req |-> e.req, n |-> e.n, state |-> e.state]
Interrupted(x) == [ses |-> x[1], req |-> x[2], n |-> 0, state |-> "interrupted"]
Line == [ses : Session, req : Request, n : Nat, state : State \cup {"interrupted"}]

Fresh == [ready |-> FALSE, pending |-> 0, enqueued |-> 0, committed |-> 0, dropped |-> 0]

\* Types of all that writes, and of all.
WriterOK ==
  /\ life \in [Session -> {"new", "up", "closed", "dead"}]
  /\ shown \in [Session -> [Request -> State \cup {"none"}]]
  /\ issued \in [Session -> Nat]
  /\ accepted \in [Session -> SUBSET Nat]
  /\ logging \in [Session -> [at : {"idle", "send", "sent", "refused", "uncounted"},
                              event : Event \cup {NoEvent}]]
  /\ queue \in [Session -> Seq(Event \cup {Flush})]
  /\ \A s \in Session : Len(queue[s]) <= Capacity
  /\ health \in [Session -> [ready : BOOLEAN, pending : Nat, enqueued : Nat,
                             committed : Nat, dropped : Nat]]
  /\ flush \in [Session -> [at : {"none", "sending", "waiting", "ok", "failed"},
                            owed : SUBSET Nat]]
  /\ step \in [Session -> {"init", "refusing", "receive", "decide", "committed", "answer",
                           "stopped", "abandoned"}]
  /\ batch \in [Session -> Seq(Event)]
  /\ \A s \in Session : Len(batch[s]) <= BatchSize
  /\ ack \in [Session -> BOOLEAN] /\ gone \in [Session -> BOOLEAN]
  /\ drops \in [Session -> Nat] /\ recorded \in [Session -> Nat]
  /\ failing \in [Session -> {"no", "recently", "long"}] /\ due \in [Session -> BOOLEAN]
  /\ db \in [rows     : [Row -> [n : Nat, state : State \cup {"none", "interrupted"}]],
             timeline : Seq(Line),
             drops    : Nat]
  /\ owner \in Session \cup {Free}

TypeOK ==
  /\ WriterOK
  /\ reading \in [Session -> [since : Nat, pending : Nat, status : {"none"} \cup Half \cup Status]]

Init ==
  /\ life = [s \in Session |-> "new"]
  /\ shown = [s \in Session |-> [r \in Request |-> "none"]]
  /\ issued = [s \in Session |-> 0]
  /\ accepted = [s \in Session |-> {}]
  /\ logging = [s \in Session |-> [at |-> "idle", event |-> NoEvent]]
  /\ queue = [s \in Session |-> <<>>]
  /\ health = [s \in Session |-> Fresh]
  /\ reading = [s \in Session |-> Unasked]
  /\ flush = [s \in Session |-> [at |-> "none", owed |-> {}]]
  /\ step = [s \in Session |-> "init"]
  /\ batch = [s \in Session |-> <<>>]
  /\ ack = [s \in Session |-> FALSE] /\ gone = [s \in Session |-> FALSE]
  /\ drops = [s \in Session |-> 0] /\ recorded = [s \in Session |-> 0]
  /\ failing = [s \in Session |-> "no"] /\ due = [s \in Session |-> FALSE]
  /\ db = [rows |-> [x \in Row |-> [n |-> 0, state |-> "none"]],
           timeline |-> <<>>, drops |-> 0]
  /\ owner = Free

------------------------------------------------------------------------------
\* The request handlers: enqueue, called by the store with its mutex held.

\* The event is counted as pending before it is sent.
Log(s, r, state) ==
  /\ life[s] = "up" /\ logging[s].at = "idle" /\ issued[s] < MaxEvents[s]
  /\ shown[s][r] = "none" => state = "open"
  /\ shown[s][r] = "final" => state = "final"
  /\ shown' = [shown EXCEPT ![s][r] = state]
  /\ issued' = [issued EXCEPT ![s] = @ + 1]
  /\ logging' = [logging EXCEPT ![s] =
       [at |-> "send", event |-> [n |-> issued[s] + 1, req |-> r, state |-> state]]]
  /\ health' = [health EXCEPT ![s].pending = @ + 1]
  /\ UNCHANGED <<life, accepted, queue, reading, flush, writer, db, owner>>

Send(s) ==
  /\ life[s] = "up" /\ logging[s].at = "send"
  /\ IF Len(queue[s]) < Capacity
     THEN /\ queue' = [queue EXCEPT ![s] = Append(@, logging[s].event)]
          /\ accepted' = [accepted EXCEPT ![s] = @ \cup {logging[s].event.n}]
          /\ logging' = [logging EXCEPT ![s] = [at |-> "sent", event |-> NoEvent]]
     ELSE /\ logging' = [logging EXCEPT ![s] = [at |-> "refused", event |-> NoEvent]]
          /\ UNCHANGED <<queue, accepted>>
  /\ UNCHANGED <<life, shown, issued, health, reading, flush, writer, db, owner>>

\* Count what became of the event. The writer may have committed it before this, and
\* the health call below may look between the two counts of a refused one.
OverflowUncounted(s) ==  \* mutant: a refused event is taken back, and not counted
  /\ life[s] = "up" /\ logging[s].at \in {"sent", "refused"}
  /\ logging' = [logging EXCEPT ![s].at = "idle"]
  /\ health' = IF logging[s].at = "sent" THEN [health EXCEPT ![s].enqueued = @ + 1]
                                         ELSE [health EXCEPT ![s].pending = @ - 1]
  /\ UNCHANGED <<life, shown, issued, accepted, queue, reading, flush, writer, db, owner>>

Logged(s) ==
  /\ life[s] = "up"
  /\ \/ /\ logging[s].at = "sent" /\ logging' = [logging EXCEPT ![s].at = "idle"]
        /\ health' = [health EXCEPT ![s].enqueued = @ + 1]
     \/ /\ logging[s].at = "refused" /\ logging' = [logging EXCEPT ![s].at = "uncounted"]
        /\ health' = [health EXCEPT ![s].pending = @ - 1]
     \/ /\ logging[s].at = "uncounted" /\ logging' = [logging EXCEPT ![s].at = "idle"]
        /\ health' = [health EXCEPT ![s].dropped = @ + 1]
  /\ UNCHANGED <<life, shown, issued, accepted, queue, reading, flush, writer, db, owner>>

------------------------------------------------------------------------------
\* The health call, which takes no lock: each counter is read in a step of its own.

InHand(s) == logging[s].at # "idle"

\* The events whose enqueue has returned.
Returned(s) == IF InHand(s) THEN issued[s] - 1 ELSE issued[s]

HealthCall(s) ==
  /\ s \in Asking /\ life[s] = "up" /\ reading[s].status \notin Half
  /\ reading' = [reading EXCEPT ![s] = [since   |-> Returned(s),
                                        pending |-> health[s].pending,
                                        status  |-> "pending read"]]
  /\ UNCHANGED <<life, shown, issued, accepted, logging, queue, health, flush, writer, db, owner>>

\* Its next look: at the last error, whether the database is ready, the drops.
Look(s) ==
  CASE reading[s].status = "pending read" ->
         IF failing[s] # "no" \/ step[s] = "refusing" THEN "error" ELSE "no error"
    [] reading[s].status = "no error" -> IF health[s].ready THEN "ready" ELSE "initializing"
    [] reading[s].status = "ready" ->
         IF health[s].dropped > 0 THEN "gaps"
         ELSE IF reading[s].pending > Capacity \div 2 THEN "lagging" ELSE "healthy"

HealthLooks(s) ==
  /\ life[s] = "up" /\ reading[s].status \in Half
  /\ reading' = [reading EXCEPT ![s].status = Look(s)]
  /\ UNCHANGED <<life, shown, issued, accepted, logging, queue, health, flush, writer, db, owner>>

------------------------------------------------------------------------------
\* The flush at the end of the proxy: it waits for a place in the queue, then for
\* the writer's answer, at most 10 s.

FlushCall(s) ==
  /\ s \in Flushing /\ life[s] = "up" /\ flush[s].at = "none"
  /\ flush' = [flush EXCEPT ![s] = [at |-> "sending", owed |-> accepted[s]]]
  /\ UNCHANGED <<life, handlers, queue, health, writer, db, owner>>

FlushSend(s) ==
  /\ life[s] = "up" /\ flush[s].at = "sending" /\ Len(queue[s]) < Capacity
  /\ queue' = [queue EXCEPT ![s] = Append(@, Flush)]
  /\ flush' = [flush EXCEPT ![s].at = "waiting"]
  /\ UNCHANGED <<life, handlers, health, writer, db, owner>>

FlushTimesOut(s) ==
  /\ life[s] = "up" /\ flush[s].at \in {"sending", "waiting"}
  /\ flush' = [flush EXCEPT ![s].at = "failed"]
  /\ UNCHANGED <<life, handlers, queue, health, writer, db, owner>>

\* The answer to a call that is no longer waiting is lost.
Answered(s, how) ==
  flush' = IF flush[s].at = "waiting" THEN [flush EXCEPT ![s].at = how] ELSE flush

------------------------------------------------------------------------------
\* The writer thread: first it takes the lock file, and recovers.

OpenRows == {x \in Row : db.rows[x].state = "open"}

\* What the recovery's transaction makes of the database: every open request is
\* interrupted, with a line that says so.
RecoveryOmitted == db  \* mutant: open requests are left as they are

Recovered ==
  [db EXCEPT !.rows = [x \in Row |-> IF x \in OpenRows
                                THEN [n |-> db.rows[x].n, state |-> "interrupted"]
                                ELSE db.rows[x]],
             !.timeline = @ \o SetToSeq({Interrupted(x) : x \in OpenRows})]

LockNotKept(s) ==  \* mutant: the lock file is closed when initialize returns
  /\ life[s] # "dead" /\ life[s] # "new" /\ step[s] = "init"
  /\ owner = Free
  /\ db' = Recovered
  /\ health' = [health EXCEPT ![s].dropped = @ + db.drops, ![s].ready = TRUE]
  /\ recorded' = [recorded EXCEPT ![s] = health'[s].dropped]
  /\ step' = [step EXCEPT ![s] = "receive"]
  /\ UNCHANGED <<life, handlers, queue, flush, batch, ack, gone, drops, failing, due, owner>>

Initialize(s) ==
  /\ life[s] # "dead" /\ life[s] # "new" /\ step[s] = "init"
  /\ owner = Free /\ owner' = s
  /\ db' = Recovered
  /\ health' = [health EXCEPT ![s].dropped = @ + db.drops, ![s].ready = TRUE]
  /\ recorded' = [recorded EXCEPT ![s] = health'[s].dropped]
  /\ step' = [step EXCEPT ![s] = "receive"]
  /\ UNCHANGED <<life, handlers, queue, flush, batch, ack, gone, drops, failing, due>>

\* Another proxy owns the database, or the disk says no.
InitializeFails(s) ==
  /\ life[s] # "dead" /\ life[s] # "new" /\ step[s] = "init"
  /\ owner # Free \/ s \in Failing
  /\ step' = [step EXCEPT ![s] = "refusing"]
  /\ UNCHANGED <<life, handlers, queue, health, flush, batch, ack, gone, drops, recorded,
                 failing, due, db, owner>>

\* A writer that could not start still empties the queue, and counts. (What it takes
\* from pending it adds to the drops a little later; the last error is set before.)
Refuse(s) ==
  /\ step[s] = "refusing"
  /\ \/ /\ queue[s] # <<>> /\ queue' = [queue EXCEPT ![s] = Tail(@)]
        /\ IF Head(queue[s]) = Flush
           THEN Answered(s, "failed") /\ UNCHANGED health
           ELSE /\ health' = [health EXCEPT ![s].pending = @ - 1, ![s].dropped = @ + 1]
                /\ UNCHANGED flush
        /\ UNCHANGED step
     \/ /\ queue[s] = <<>> /\ life[s] = "closed"
        /\ step' = [step EXCEPT ![s] = "abandoned"]
        /\ UNCHANGED <<queue, health, flush>>
  /\ UNCHANGED <<life, handlers, batch, ack, gone, drops, recorded, failing, due, db, owner>>

\* The inner loop: receive until the batch is full, a flush is here, the queue is
\* empty or the channel is closed; then read the drop count.
Receive(s) ==
  LET more == Len(batch[s]) < BatchSize /\ ~gone[s] /\ ~ack[s]
      Decide == step' = [step EXCEPT ![s] = "decide"] /\ drops' = [drops EXCEPT ![s] = health[s].dropped]
  IN
  /\ step[s] = "receive"
  /\ \/ /\ more /\ queue[s] # <<>> /\ queue' = [queue EXCEPT ![s] = Tail(@)]
        /\ IF Head(queue[s]) = Flush
           THEN ack' = [ack EXCEPT ![s] = TRUE] /\ UNCHANGED batch
           ELSE batch' = [batch EXCEPT ![s] = Append(@, Head(queue[s]))] /\ UNCHANGED ack
        /\ UNCHANGED <<step, gone, drops>>
     \/ /\ more /\ queue[s] = <<>> /\ life[s] = "closed"
        /\ gone' = [gone EXCEPT ![s] = TRUE]
        /\ UNCHANGED <<queue, step, batch, ack, drops>>
     \/ /\ ~more \/ (queue[s] = <<>> /\ life[s] = "up")
        /\ Decide
        /\ UNCHANGED <<queue, batch, ack, gone>>
  /\ UNCHANGED <<life, handlers, health, flush, recorded, failing, due, db, owner>>

\* Nothing hurries the batch, or there is none.
IdleWithoutDeadline(s) ==  \* mutant: the flush interval is forgotten
  /\ ~gone[s] /\ ~ack[s]
  /\ Len(batch[s]) < BatchSize
  /\ recorded[s] = drops[s]

Idle(s) == /\ ~gone[s] /\ ~ack[s]
           /\ Len(batch[s]) < BatchSize
           /\ recorded[s] = drops[s]
           /\ batch[s] = <<>> \/ ~due[s]

\* Sleep, at most until the interval ends or a handler wakes the writer.
Park(s) ==
  /\ step[s] = "decide" /\ Idle(s)
  /\ step' = [step EXCEPT ![s] = "receive"]
  /\ due' = [due EXCEPT ![s] = @ /\ batch[s] # <<>>]
  /\ UNCHANGED <<life, handlers, queue, health, flush, batch, ack, gone, drops, recorded,
                 failing, db, owner>>

DropsForgotten(s) == batch[s] # <<>>  \* mutant: new drops alone are not written

HasWork(s) == batch[s] # <<>> \/ recorded[s] # drops[s]

\* One transaction: the last snapshot of each request in the batch, a line for
\* every event, and the drop count.
Of(s, r) == {i \in DOMAIN batch[s] : batch[s][i].req = r}

Snapshot(s, i) == [n |-> batch[s][i].n, state |-> batch[s][i].state]

FirstSnapshots(s) ==  \* mutant: the first snapshot of a request in the batch wins
  [x \in Row |-> IF x[1] = s /\ Of(s, x[2]) # {} THEN Snapshot(s, Min(Of(s, x[2])))
                                                ELSE db.rows[x]]

Upserted(s) ==
  [x \in Row |-> IF x[1] = s /\ Of(s, x[2]) # {} THEN Snapshot(s, Max(Of(s, x[2])))
                                                ELSE db.rows[x]]

Commit(s) ==
  /\ step[s] = "decide" /\ ~Idle(s) /\ HasWork(s)
  /\ db' = [rows |-> Upserted(s),
            timeline |-> db.timeline \o [i \in DOMAIN batch[s] |-> LineOf(s, batch[s][i])],
            drops |-> drops[s]]
  /\ step' = [step EXCEPT ![s] = "committed"]
  /\ UNCHANGED <<life, handlers, queue, health, flush, batch, ack, gone, drops, recorded,
                 failing, due, owner>>

Committed(s) ==
  /\ step[s] = "committed"
  /\ health' = [health EXCEPT ![s].pending = @ - Len(batch[s]),
                              ![s].committed = @ + Len(batch[s])]
  /\ failing' = [failing EXCEPT ![s] = "no"]
  /\ recorded' = [recorded EXCEPT ![s] = drops[s]]
  /\ batch' = [batch EXCEPT ![s] = <<>>]
  /\ step' = [step EXCEPT ![s] = "answer"]
  /\ UNCHANGED <<life, handlers, queue, flush, ack, gone, drops, due, db, owner>>

\* The batch is kept for the next round; only a writer nobody needs any more, and
\* whose commits have failed for over 5 s, gives up.
FailureAnswersToo(s) ==  \* mutant: a failed commit goes on to answer the flush
  /\ step[s] = "decide" /\ ~Idle(s) /\ HasWork(s) /\ s \in Failing
  /\ step' = [step EXCEPT ![s] = "answer"]
  /\ failing' = [failing EXCEPT ![s] = IF @ = "no" THEN "recently" ELSE @]
  /\ UNCHANGED <<life, handlers, queue, health, flush, batch, ack, gone, drops, recorded,
                 due, db, owner>>

CommitFails(s) ==
  /\ step[s] = "decide" /\ ~Idle(s) /\ HasWork(s) /\ s \in Failing
  /\ failing' = [failing EXCEPT ![s] = IF @ = "no" THEN "recently" ELSE @]
  /\ IF life[s] = "closed" /\ failing[s] = "long"
     THEN step' = [step EXCEPT ![s] = "abandoned"] /\ owner' = Free
     ELSE step' = [step EXCEPT ![s] = "receive"] /\ UNCHANGED owner
  /\ UNCHANGED <<life, handlers, queue, health, flush, batch, ack, gone, drops, recorded,
                 due, db>>

\* Answer the flush, and go round again unless the channel is closed.
Answer(s) ==
  /\ step[s] = "answer" \/ (step[s] = "decide" /\ ~Idle(s) /\ ~HasWork(s))
  /\ IF ack[s] THEN Answered(s, "ok") ELSE UNCHANGED flush
  /\ ack' = [ack EXCEPT ![s] = FALSE]
  /\ due' = [due EXCEPT ![s] = FALSE]
  /\ IF gone[s] THEN step' = [step EXCEPT ![s] = "stopped"] /\ owner' = Free
                ELSE step' = [step EXCEPT ![s] = "receive"] /\ UNCHANGED owner
  /\ UNCHANGED <<life, handlers, queue, health, batch, gone, drops, recorded, failing, db>>

------------------------------------------------------------------------------
\* Time, and the beginning and end of a session.

\* The end of the interval matters to a batch that is not empty.
IntervalEnds(s) ==
  /\ step[s] \in {"receive", "decide"} /\ batch[s] # <<>> /\ ~due[s]
  /\ due' = [due EXCEPT ![s] = TRUE]
  /\ UNCHANGED <<life, handlers, queue, health, flush, step, batch, ack, gone, drops,
                 recorded, failing, db, owner>>

\* Only after the close does it matter for how long commits have failed.
FailingForLong(s) ==
  /\ failing[s] = "recently" /\ life[s] = "closed"
  /\ failing' = [failing EXCEPT ![s] = "long"]
  /\ UNCHANGED <<life, handlers, queue, health, flush, step, batch, ack, gone, drops,
                 recorded, due, db, owner>>

Open(s) ==
  /\ life[s] = "new"
  /\ life' = [life EXCEPT ![s] = "up"]
  /\ UNCHANGED <<handlers, queue, health, flush, writer, db, owner>>

\* The Database is dropped: no handler, health or flush call is using it.
Close(s) ==
  /\ life[s] = "up" /\ logging[s].at = "idle" /\ reading[s].status \notin Half
  /\ flush[s].at \in {"none", "ok", "failed"}
  /\ life' = [life EXCEPT ![s] = "closed"]
  /\ UNCHANGED <<handlers, queue, health, flush, writer, db, owner>>

\* The process dies: what is not in the database is gone, and so is its lock.
Crash(s) ==
  /\ s \in Crashing /\ life[s] \in {"up", "closed"}
  /\ life' = [life EXCEPT ![s] = "dead"]
  /\ shown' = [shown EXCEPT ![s] = [r \in Request |-> "none"]]
  /\ logging' = [logging EXCEPT ![s] = [at |-> "idle", event |-> NoEvent]]
  /\ reading' = [reading EXCEPT ![s] = Unasked]
  /\ queue' = [queue EXCEPT ![s] = <<>>]
  /\ health' = [health EXCEPT ![s] = Fresh]
  /\ step' = [step EXCEPT ![s] = "stopped"]
  /\ batch' = [batch EXCEPT ![s] = <<>>]
  /\ ack' = [ack EXCEPT ![s] = FALSE] /\ gone' = [gone EXCEPT ![s] = FALSE]
  /\ drops' = [drops EXCEPT ![s] = 0] /\ recorded' = [recorded EXCEPT ![s] = 0]
  /\ failing' = [failing EXCEPT ![s] = "no"] /\ due' = [due EXCEPT ![s] = FALSE]
  /\ owner' = IF owner = s THEN Free ELSE owner
  /\ UNCHANGED <<issued, accepted, flush, db>>

Handler(s) == Send(s) \/ Logged(s)
Writer(s) == \/ Initialize(s) \/ InitializeFails(s) \/ Refuse(s) \/ Receive(s) \/ Park(s)
             \/ Commit(s) \/ Committed(s) \/ CommitFails(s) \/ Answer(s)

Next == \E s \in Session :
  \/ \E r \in Request, state \in State : Log(s, r, state)
  \/ Handler(s)
  \/ HealthCall(s) \/ HealthLooks(s)
  \/ FlushCall(s) \/ FlushSend(s) \/ FlushTimesOut(s)
  \/ Writer(s)
  \/ IntervalEnds(s) \/ FailingForLong(s)
  \/ Open(s) \/ Close(s) \/ Crash(s)

Spec == Init /\ [][Next]_vars

\* The writer thread and the handlers are scheduled, the interval ends, and SQLite
\* does not fail for ever. Nothing makes a session open, close, crash or log.
FairSpec ==
  /\ Spec
  /\ \A s \in Session : /\ WF_vars(Handler(s)) /\ WF_vars(Writer(s))
                        /\ WF_vars(IntervalEnds(s)) /\ SF_vars(Commit(s))

------------------------------------------------------------------------------
Durable(s, n) == \E i \in DOMAIN db.timeline : db.timeline[i].ses = s /\ db.timeline[i].n = n

\* A flush that succeeds has every event that was in the queue when it was called
\* in the database, whatever fails or crashes later (docs/configuration.md: "a
\* successful flush confirms queued events were committed").
FlushIsDurable ==
  \A s \in Session : flush[s].at = "ok" => \A n \in flush[s].owed : Durable(s, n)

\* An answer of "healthy" with nothing pending is given only when every event whose
\* logging was over when the call was made is in the database, though the call reads
\* the counters one by one while handlers and writer move them.
HealthyMeansComplete ==
  \A s \in Session : reading[s].status = "healthy" /\ reading[s].pending = 0
                       => \A n \in 1..reading[s].since : Durable(s, n)

\* The i-th line of the timeline is of the request x.
IsOf(i, x) == <<db.timeline[i].ses, db.timeline[i].req>> = x

\* Retries, batches and recoveries keep the history straight: each event of a
\* session is in the timeline at most once and in the order it was logged, and each
\* request's row says what the last line of the request says.
DurableHistory ==
  /\ \A i, j \in DOMAIN db.timeline :
       i < j /\ db.timeline[i].ses = db.timeline[j].ses /\ db.timeline[j].n > 0
         => db.timeline[i].n < db.timeline[j].n
  /\ \A x \in Row :
       \/ db.rows[x].state = "none" /\ \A i \in DOMAIN db.timeline : ~IsOf(i, x)
       \/ \E i \in DOMAIN db.timeline :
            /\ IsOf(i, x) /\ db.rows[x].state = db.timeline[i].state
            /\ \A j \in DOMAIN db.timeline : j > i => ~IsOf(j, x)

\* A writer runs alone and after its recovery: no request of another session is open
\* in the database, and a request is only ever interrupted when its own session's
\* writer has ended.
RecoveryIsExact ==
  /\ \A s \in Session : step[s] \in {"receive", "decide", "committed", "answer"}
       => \A x \in OpenRows : x[1] = s
  /\ \A x \in Row : db.rows[x].state = "interrupted"
       => step[x[1]] \in {"stopped", "abandoned"}

\* A session whose events can still be lost: it crashed, never got the database, or
\* gave up on it.
Lost(s) == life[s] = "dead" \/ step[s] \in {"refusing", "abandoned"}

\* The events that got into the queue reach the database, across a shutdown too.
EventsSettle ==
  \A s \in Session : accepted[s] # {} ~> (\A n \in accepted[s] : Durable(s, n)) \/ Lost(s)

\* So does a gap: the database's drop count catches up with health's, even when no
\* event follows the drop.
DropsReachTheDatabase ==
  \A s \in Session :
    health[s].dropped > db.drops ~> health[s].dropped <= db.drops \/ Lost(s)
==============================================================================
