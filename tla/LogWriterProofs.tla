--------------------------- MODULE LogWriterProofs ---------------------------
(* Theorems about LogWriter, for any sessions and requests, any capacity and *)
(* batch size, and whichever sessions flush, crash or fail to commit.        *)
EXTENDS LogWriter, SequenceTheorems, FiniteSetTheorems, FunctionTheorems, WellFoundedInduction, TLAPS

------------------------------------------------------------------------------
\* The inductive invariant

\* Where event n of session s is on its way to the timeline.
InBatch(s, n) == \E i \in 1..Len(batch[s]) : batch[s][i].n = n
InQueue(s, n) == \E i \in 1..Len(queue[s]) : queue[s][i].n = n
FlushIn(s)    == \E i \in 1..Len(queue[s]) : queue[s][i] = Flush
Ahead(s, n)   == \E i, j \in 1..Len(queue[s]) :  \* of a flush
                   i < j /\ queue[s][i].n = n /\ queue[s][j] = Flush
Running(s)    == step[s] \in {"receive", "decide", "committed", "answer"}

\* What a handler holds is the event counted last; every other number is of an event
\* that has left its handler.
Past(s) == {n \in Nat : n <= issued[s] /\ (logging[s].at = "send" => n < issued[s])}
HandlerInv(s) ==
  /\ logging[s].at = "send" => /\ logging[s].event \in Event
                               /\ logging[s].event.n = issued[s]
  /\ \A i \in 1..Len(queue[s]) : queue[s][i].n \in Past(s)
  /\ \A i \in 1..Len(batch[s]) : batch[s][i].n \in Past(s)
  /\ \A k \in 1..Len(db.timeline) : db.timeline[k].ses = s => db.timeline[k].n \in Past(s)
  /\ accepted[s] \subseteq Past(s) \ {0}

\* Timeline, batch and queue follow each other in the order of the numbers. (A flush
\* and the line of a recovery have the number 0.)
OrderInv(s) ==
  /\ \A i, j \in 1..Len(queue[s]) :
       i < j /\ queue[s][j] # Flush => queue[s][i].n < queue[s][j].n
  /\ \A i, j \in 1..Len(batch[s]) : i < j => batch[s][i].n < batch[s][j].n
  /\ \A i \in 1..Len(batch[s]), j \in 1..Len(queue[s]) :
       queue[s][j] # Flush => batch[s][i].n < queue[s][j].n
  /\ \A k \in 1..Len(db.timeline) : db.timeline[k].ses = s =>
       /\ \A j \in 1..Len(queue[s]) : queue[s][j] # Flush => db.timeline[k].n < queue[s][j].n
       /\ step[s] # "committed" =>
            \A i \in 1..Len(batch[s]) : db.timeline[k].n < batch[s][i].n

\* The writer's steps.
StepInv(s) ==
  /\ life[s] = "new" => step[s] = "init"
  /\ life[s] = "dead" => step[s] = "stopped"
  /\ step[s] = "abandoned" => life[s] = "closed"
  /\ step[s] = "answer" => batch[s] = <<>>
  /\ step[s] = "committed" => \A i \in 1..Len(batch[s]) : Durable(s, batch[s][i].n)

\* No event is lost without a trace: an accepted one is somewhere, and one that was not
\* accepted is still with its handler or counted as dropped.
PlaceInv(s) ==
  /\ \A n \in accepted[s] : Durable(s, n) \/ InBatch(s, n) \/ InQueue(s, n) \/ Lost(s)
  /\ \A n \in 1..issued[s] : \/ n \in accepted[s] \/ health[s].dropped > 0 \/ Lost(s)
                             \/ /\ logging[s].at \in {"send", "refused", "uncounted"}
                                /\ n = issued[s]

\* Pending counts what is with the handler, in the queue and in the batch.
Flushes(s)  == IF FlushIn(s) THEN 1 ELSE 0
Held(s)     == IF logging[s].at \in {"send", "refused"} THEN 1 ELSE 0
CountInv(s) ==
  health[s].pending + Flushes(s) = Len(queue[s]) + Len(batch[s]) + Held(s)

\* The flush is in one place, behind every event it answers for.
FlushInv(s) ==
  /\ flush[s].owed \subseteq accepted[s]
  /\ flush[s].at \in {"none", "sending"} => ~ack[s] /\ ~FlushIn(s)
  /\ ack[s] => ~FlushIn(s)
  /\ \A i, j \in 1..Len(queue[s]) : queue[s][i] = Flush /\ queue[s][j] = Flush => i = j
  /\ flush[s].at = "waiting" =>
       \A n \in flush[s].owed : Durable(s, n) \/ InBatch(s, n) \/ Ahead(s, n) \/ Lost(s)
  /\ flush[s].at = "ok" => \A n \in flush[s].owed : Durable(s, n)

Local(s) == HandlerInv(s) /\ OrderInv(s) /\ StepInv(s) /\ PlaceInv(s) /\ CountInv(s)
            /\ FlushInv(s)

\* The writer that runs has the lock file. A row is open only of a session whose writer
\* got it at some time.
LockInv ==
  /\ \A s \in Session : Running(s) => owner = s
  /\ \A x \in OpenRows : step[x[1]] \notin {"init", "refusing"}

IInv == /\ WriterOK /\ LockInv /\ RecoveryIsExact /\ DurableHistory
        /\ \A s \in Session : Local(s)

------------------------------------------------------------------------------
\* Types

Events == Event \cup {Flush}

\* The elements of the sequences have their types, and a flush is told from an event by
\* its number.
LEMMA Typed ==
  ASSUME WriterOK, NEW s \in Session
  PROVE  /\ queue[s] \in Seq(Events) /\ Len(queue[s]) \in Nat /\ issued[s] \in Nat
         /\ batch[s] \in Seq(Event) /\ Len(batch[s]) \in Nat
         /\ db.timeline \in Seq(Line) /\ Len(db.timeline) \in Nat
         /\ DOMAIN db.timeline = 1..Len(db.timeline)
         /\ \A i \in 1..Len(queue[s]) : /\ queue[s][i] \in Events /\ queue[s][i].n \in Nat
                                        /\ queue[s][i] # Flush <=> queue[s][i].n > 0
                                        /\ queue[s][i] # Flush => queue[s][i] \in Event
         /\ \A i \in 1..Len(batch[s]) : batch[s][i] \in Event /\ batch[s][i].n \in Nat \ {0}
         /\ \A k \in 1..Len(db.timeline) : db.timeline[k] \in Line /\ db.timeline[k].n \in Nat
         /\ health[s].pending \in Nat /\ health[s].dropped \in Nat
         /\ accepted[s] \subseteq Nat /\ flush[s].owed \subseteq Nat
  <1>1. /\ queue[s] \in Seq(Events) /\ batch[s] \in Seq(Event) /\ db.timeline \in Seq(Line)
        /\ issued[s] \in Nat /\ accepted[s] \subseteq Nat
        /\ health[s] \in [ready : BOOLEAN, pending : Nat, enqueued : Nat,
                          committed : Nat, dropped : Nat]
        /\ flush[s] \in [at : {"none", "sending", "waiting", "ok", "failed"},
                         owed : SUBSET Nat]
    BY DEF WriterOK, Events
  <1>2. Flush.n = 0 /\ \A e \in Event : e.n \in Nat \ {0}
    BY DEF Flush, Event
  <1>3. \A e \in Events : e.n \in Nat /\ (e # Flush <=> e.n > 0) /\ (e # Flush => e \in Event)
    BY <1>2 DEF Events
  <1>4. \A l \in Line : l.n \in Nat
    BY DEF Line
  <1>5. /\ Len(queue[s]) \in Nat /\ \A i \in 1..Len(queue[s]) : queue[s][i] \in Events
    BY <1>1, LenProperties, ElementOfSeq
  <1>6. /\ Len(batch[s]) \in Nat /\ \A i \in 1..Len(batch[s]) : batch[s][i] \in Event
    BY <1>1, LenProperties, ElementOfSeq
  <1>7. /\ Len(db.timeline) \in Nat /\ DOMAIN db.timeline = 1..Len(db.timeline)
        /\ \A k \in 1..Len(db.timeline) : db.timeline[k] \in Line
    BY <1>1, LenProperties, ElementOfSeq
  <1>8. /\ health[s].pending \in Nat /\ health[s].dropped \in Nat
        /\ flush[s].owed \subseteq Nat
    BY <1>1
  <1> QED
    BY <1>1, <1>2, <1>3, <1>4, <1>5, <1>6, <1>7, <1>8

------------------------------------------------------------------------------
\* What a step leaves alone

\* The timeline grows by lines that are not of events of s.
Extends(s) ==
  /\ Len(db.timeline) <= Len(db'.timeline)
  /\ \A k \in 1..Len(db.timeline) : db'.timeline[k] = db.timeline[k]
  /\ \A k \in 1..Len(db'.timeline) :
       k > Len(db.timeline) /\ db'.timeline[k].ses = s => db'.timeline[k].n = 0

\* The events of s stay where they are.
Still(s) ==
  /\ issued'[s] = issued[s] /\ accepted'[s] = accepted[s] /\ logging'[s] = logging[s]
  /\ queue'[s] = queue[s] /\ batch'[s] = batch[s] /\ ack'[s] = ack[s]
  /\ health'[s].pending = health[s].pending /\ health'[s].dropped >= health[s].dropped
  /\ flush'[s] = flush[s] \/ (flush'[s].at = "failed" /\ flush'[s].owed = flush[s].owed)
  /\ step'[s] = "committed" <=> step[s] = "committed"
  /\ Lost(s) => Lost(s)'

LEMMA StillLocal ==
  ASSUME WriterOK, WriterOK', NEW s \in Session, Local(s), Still(s), Extends(s), StepInv(s)'
  PROVE  Local(s)'
  <1>1. /\ issued'[s] = issued[s] /\ accepted'[s] = accepted[s] /\ logging'[s] = logging[s]
        /\ queue'[s] = queue[s] /\ batch'[s] = batch[s] /\ ack'[s] = ack[s]
        /\ step'[s] = "committed" <=> step[s] = "committed"
    BY DEF Still
  <1>2. /\ Len(db.timeline) \in Nat /\ Len(db'.timeline) \in Nat
        /\ DOMAIN db.timeline = 1..Len(db.timeline)
        /\ DOMAIN db'.timeline = 1..Len(db'.timeline)
    <2>1. Len(db.timeline) \in Nat /\ DOMAIN db.timeline = 1..Len(db.timeline)
      BY Typed
    <2>2. db'.timeline \in Seq(Line)
      BY DEF WriterOK
    <2> QED
      BY <2>1, <2>2, LenProperties
  <1>3. ASSUME NEW k \in 1..Len(db'.timeline), db'.timeline[k].ses = s
        PROVE  \/ db'.timeline[k].n = 0
               \/ k \in 1..Len(db.timeline) /\ db'.timeline[k] = db.timeline[k]
    <2>1. CASE k > Len(db.timeline)
      BY <1>3, <2>1 DEF Extends
    <2>2. CASE ~(k > Len(db.timeline))
      <3>1. k \in 1..Len(db.timeline)
        BY <1>2, <2>2
      <3> QED
        BY <3>1 DEF Extends
    <2> QED
      BY <2>1, <2>2
  <1>4. \A n : Durable(s, n) => Durable(s, n)'
    BY <1>2 DEF Durable, Extends
  <1>5. Past(s)' = Past(s)
    BY <1>1 DEF Past
  <1>6. HandlerInv(s)'
    <2>1. \A k \in 1..Len(db'.timeline) : db'.timeline[k].ses = s => db'.timeline[k].n \in Past(s)
      <3>1. 0 \in Past(s) \/ Past(s) = {}
        BY Typed DEF Past
      <3>2. logging[s].at = "send" => issued[s] > 0
        BY Typed DEF Local, HandlerInv, Event
      <3>3. 0 \in Past(s)
        BY <3>2, Typed DEF Past
      <3> QED
        BY <1>3, <3>3 DEF Local, HandlerInv
    <2> QED
      BY <1>1, <1>5, <2>1 DEF Local, HandlerInv
  <1>7. OrderInv(s)'
    <2> SUFFICES ASSUME NEW k \in 1..Len(db'.timeline), db'.timeline[k].ses = s
                 PROVE  /\ \A j \in 1..Len(queue[s]) :
                             queue[s][j] # Flush => db'.timeline[k].n < queue[s][j].n
                        /\ step[s] # "committed" =>
                             \A i \in 1..Len(batch[s]) : db'.timeline[k].n < batch[s][i].n
      BY <1>1 DEF Local, OrderInv
    <2>1. CASE db'.timeline[k].n = 0
      BY <2>1, Typed
    <2>2. CASE k \in 1..Len(db.timeline) /\ db'.timeline[k] = db.timeline[k]
      BY <2>2 DEF Local, OrderInv
    <2> QED
      BY <1>3, <2>1, <2>2
  <1>8. \A n : /\ InBatch(s, n)' <=> InBatch(s, n)
               /\ InQueue(s, n)' <=> InQueue(s, n)
               /\ Ahead(s, n)' <=> Ahead(s, n)
    BY <1>1 DEF InBatch, InQueue, Ahead
  <1>9. FlushIn(s)' <=> FlushIn(s)
    BY <1>1 DEF FlushIn
  <1>10. PlaceInv(s)'
    <2>1. health'[s].dropped \in Nat /\ health[s].dropped \in Nat
          /\ health'[s].dropped >= health[s].dropped /\ (Lost(s) => Lost(s)')
      BY Typed DEF Still, WriterOK
    <2>2. health[s].dropped > 0 => health'[s].dropped > 0
      BY <2>1
    <2> QED
      BY <1>1, <1>4, <1>8, <2>1, <2>2 DEF Local, PlaceInv
  <1>11. CountInv(s)'
    <2>1. health'[s].pending = health[s].pending
      BY DEF Still
    <2>2. Flushes(s)' = Flushes(s) /\ Held(s)' = Held(s)
      BY <1>1, <1>9 DEF Flushes, Held
    <2> QED
      BY <1>1, <2>1, <2>2 DEF Local, CountInv
  <1>12. FlushInv(s)'
    <2>1. flush'[s] = flush[s] \/ (flush'[s].at = "failed" /\ flush'[s].owed = flush[s].owed)
      BY DEF Still
    <2>2. Lost(s) => Lost(s)'
      BY DEF Still
    <2> QED
      BY <1>1, <1>4, <1>8, <1>9, <2>1, <2>2 DEF Local, FlushInv
  <1> QED
    BY <1>6, <1>7, <1>10, <1>11, <1>12 DEF Local

\* Every other session than s keeps all it has.
OthersKept(s) ==
  \A t \in Session \ {s} :
    /\ life'[t] = life[t] /\ issued'[t] = issued[t] /\ accepted'[t] = accepted[t]
    /\ logging'[t] = logging[t] /\ queue'[t] = queue[t] /\ health'[t] = health[t]
    /\ flush'[t] = flush[t] /\ step'[t] = step[t] /\ batch'[t] = batch[t] /\ ack'[t] = ack[t]

LEMMA OthersLocal ==
  ASSUME IInv, WriterOK', NEW s \in Session, OthersKept(s),
         NEW t \in Session \ {s}, Extends(t)
  PROVE  Local(t)'
  <1>1. WriterOK /\ Local(t)
    BY DEF IInv
  <1>2. /\ life'[t] = life[t] /\ issued'[t] = issued[t] /\ accepted'[t] = accepted[t]
        /\ logging'[t] = logging[t] /\ queue'[t] = queue[t] /\ health'[t] = health[t]
        /\ flush'[t] = flush[t] /\ step'[t] = step[t] /\ batch'[t] = batch[t]
        /\ ack'[t] = ack[t]
    BY DEF OthersKept
  <1>3. Still(t)
    BY <1>1, <1>2, Typed DEF Still, Lost
  <1>4. /\ DOMAIN db.timeline = 1..Len(db.timeline)
        /\ DOMAIN db'.timeline = 1..Len(db'.timeline)
        /\ Len(db.timeline) \in Nat /\ Len(db'.timeline) \in Nat
    <2>1. DOMAIN db.timeline = 1..Len(db.timeline) /\ Len(db.timeline) \in Nat
      BY <1>1, Typed
    <2>2. db'.timeline \in Seq(Line)
      BY DEF WriterOK
    <2> QED
      BY <2>1, <2>2, LenProperties
  <1>5. \A n : Durable(t, n) => Durable(t, n)'
    BY <1>4 DEF Durable, Extends
  <1>6. StepInv(t)'
    BY <1>1, <1>2, <1>5 DEF Local, StepInv
  <1> QED
    BY <1>1, <1>3, <1>6, StillLocal

\* The database and who may write to it, when a step of s leaves the database alone.
LEMMA DbKept ==
  ASSUME IInv, NEW s \in Session, OthersKept(s), UNCHANGED db,
         \A t \in Session \ {s} : Running(t) => owner' = owner,
         Running(s)' => Running(s) /\ owner' = owner,
         step[s] \notin {"init", "refusing"} => step'[s] \notin {"init", "refusing"},
         step[s] \in {"stopped", "abandoned"} => step'[s] \in {"stopped", "abandoned"}
  PROVE  LockInv' /\ RecoveryIsExact' /\ DurableHistory'
  <1>1. OpenRows' = OpenRows /\ OpenRows \subseteq Row
    BY DEF OpenRows
  <1>2. \A x \in Row : x[1] \in Session
    BY DEF Row
  <1>3. \A t \in Session \ {s} : step'[t] = step[t]
    BY DEF OthersKept
  <1>4. \A t \in Session : Running(t)' => Running(t)
    BY <1>3 DEF Running
  <1>5. LockInv'
    <2>1. ASSUME NEW t \in Session, Running(t)' PROVE owner' = t
      <3>1. owner = t
        BY <1>4, <2>1 DEF IInv, LockInv
      <3> QED
        BY <1>4, <2>1, <3>1
    <2>2. ASSUME NEW x \in OpenRows PROVE step'[x[1]] \notin {"init", "refusing"}
      <3>1. step[x[1]] \notin {"init", "refusing"} /\ x[1] \in Session
        BY <1>1, <1>2 DEF IInv, LockInv
      <3> QED
        BY <1>3, <3>1
    <2> QED
      BY <1>1, <2>1, <2>2 DEF LockInv
  <1>6. RecoveryIsExact'
    <2>1. ASSUME NEW t \in Session, Running(t)', NEW x \in OpenRows PROVE x[1] = t
      BY <1>4, <2>1 DEF IInv, RecoveryIsExact, Running
    <2>2. ASSUME NEW x \in Row, db.rows[x].state = "interrupted"
          PROVE  step'[x[1]] \in {"stopped", "abandoned"}
      <3>1. step[x[1]] \in {"stopped", "abandoned"} /\ x[1] \in Session
        BY <1>2, <2>2 DEF IInv, RecoveryIsExact
      <3> QED
        BY <1>3, <3>1
    <2> QED
      BY <1>1, <2>1, <2>2 DEF RecoveryIsExact, Running
  <1>7. DurableHistory'
    BY DEF IInv, DurableHistory, IsOf
  <1> QED
    BY <1>5, <1>6, <1>7

\* What is left to show of a step of s that leaves the database alone.
LEMMA Assembles ==
  ASSUME IInv, NEW s \in Session, OthersKept(s), UNCHANGED db, WriterOK', Local(s)',
         \A t \in Session \ {s} : Running(t) => owner' = owner,
         Running(s)' => Running(s) /\ owner' = owner,
         step[s] \notin {"init", "refusing"} => step'[s] \notin {"init", "refusing"},
         step[s] \in {"stopped", "abandoned"} => step'[s] \in {"stopped", "abandoned"}
  PROVE  IInv'
  <1>1. LockInv' /\ RecoveryIsExact' /\ DurableHistory'
    BY DbKept
  <1>2. \A t : Extends(t)
    <2>1. Len(db.timeline) \in Nat
      BY Typed DEF IInv
    <2> QED
      BY <2>1 DEF Extends
  <1>3. \A t \in Session \ {s} : Local(t)'
    BY <1>2, OthersLocal
  <1> QED
    BY <1>1, <1>3 DEF IInv

------------------------------------------------------------------------------
\* Steps that move no event

\* What is left to show of those.
LEMMA Settles ==
  ASSUME IInv, NEW s \in Session, OthersKept(s), UNCHANGED db, WriterOK', Still(s), StepInv(s)',
         \A t \in Session \ {s} : Running(t) => owner' = owner,
         Running(s)' => Running(s) /\ owner' = owner,
         step[s] \notin {"init", "refusing"} => step'[s] \notin {"init", "refusing"},
         step[s] \in {"stopped", "abandoned"} => step'[s] \in {"stopped", "abandoned"}
  PROVE  IInv'
  <1>1. Extends(s)
    <2>1. Len(db.timeline) \in Nat
      BY Typed DEF IInv
    <2> QED
      BY <2>1 DEF Extends
  <1>2. Local(s)'
    BY <1>1, StillLocal DEF IInv
  <1> QED
    BY <1>2, Assembles

LEMMA Rests ==
  ASSUME IInv, NEW s \in Session,
         Park(s) \/ IntervalEnds(s) \/ FailingForLong(s) \/ InitializeFails(s)
  PROVE  IInv'
  <1>1. /\ UNCHANGED <<life, handlers, queue, health, flush, batch, ack, gone, drops,
                       recorded, db, owner>>
        /\ due' \in [Session -> BOOLEAN]
        /\ failing' = failing \/ failing' = [failing EXCEPT ![s] = "long"]
        /\ \/ step' = step
           \/ step[s] = "decide" /\ step' = [step EXCEPT ![s] = "receive"]
           \/ /\ life[s] \notin {"dead", "new"} /\ step[s] = "init"
              /\ step' = [step EXCEPT ![s] = "refusing"]
    <2>0. due \in [Session -> BOOLEAN]
      BY DEF IInv, WriterOK
    <2>1. CASE Park(s)
      <3>1. due' = [due EXCEPT ![s] = due[s] /\ batch[s] # <<>>]
        BY <2>1 DEF Park
      <3>2. (due[s] /\ batch[s] # <<>>) \in BOOLEAN
        OBVIOUS
      <3>3. due' \in [Session -> BOOLEAN]
        BY <2>0, <3>1, <3>2
      <3> QED
        BY <2>1, <3>3 DEF Park, writer
    <2>2. CASE IntervalEnds(s)
      BY <2>0, <2>2 DEF IntervalEnds
    <2>3. CASE FailingForLong(s)
      BY <2>0, <2>3 DEF FailingForLong
    <2>4. CASE InitializeFails(s)
      BY <2>0, <2>4 DEF InitializeFails
    <2> QED
      BY <2>1, <2>2, <2>3, <2>4
  <1>2. UNCHANGED <<life, shown, issued, accepted, logging, queue, health, flush, batch, ack,
                    gone, drops, recorded, db, owner>>
    BY <1>1 DEF handlers
  <1>3. WriterOK /\ Local(s) /\ step \in [Session -> {"init", "refusing", "receive", "decide",
                                 "committed", "answer", "stopped", "abandoned"}]
    BY DEF IInv, WriterOK
  <1>4. WriterOK'
    <2>1. failing' \in [Session -> {"no", "recently", "long"}]
      BY <1>1, <1>3 DEF WriterOK
    <2>2. step' \in [Session -> {"init", "refusing", "receive", "decide",
                                 "committed", "answer", "stopped", "abandoned"}]
      BY <1>1, <1>3
    <2>3. due' \in [Session -> BOOLEAN]
      BY <1>1
    <2> QED
      BY ONLY <1>2, <1>3, <2>1, <2>2, <2>3 DEF WriterOK
  <1>5. OthersKept(s)
    BY <1>1, <1>2, <1>3 DEF OthersKept
  <1>6. Still(s)
    <2>1. Lost(s) => Lost(s)'
      BY <1>1, <1>2, <1>3 DEF Lost
    <2> QED
      BY <1>1, <1>2, <1>3, <2>1, Typed DEF Still
  <1>7. StepInv(s)'
    BY <1>1, <1>2, <1>3 DEF Local, StepInv, Durable
  <1>8. /\ Running(s)' => Running(s)
        /\ step[s] \notin {"init", "refusing"} => step'[s] \notin {"init", "refusing"}
        /\ step[s] \in {"stopped", "abandoned"} => step'[s] \in {"stopped", "abandoned"}
    BY <1>1, <1>3 DEF Running
  <1> QED
    BY <1>2, <1>4, <1>5, <1>6, <1>7, <1>8, Settles

LEMMA Lives ==
  ASSUME IInv, NEW s \in Session, Open(s) \/ Close(s) \/ FlushTimesOut(s)
  PROVE  IInv'
  <1>1. /\ UNCHANGED <<shown, issued, accepted, logging, queue, health, step, batch, ack, gone,
                       drops, recorded, failing, due, db, owner>>
        /\ \/ life' = life
           \/ life[s] = "new" /\ life' = [life EXCEPT ![s] = "up"]
           \/ life[s] = "up" /\ life' = [life EXCEPT ![s] = "closed"]
        /\ flush' = flush \/ flush' = [flush EXCEPT ![s].at = "failed"]
    BY DEF Open, Close, FlushTimesOut, handlers, writer
  <1>2. WriterOK /\ Local(s) /\ life \in [Session -> {"new", "up", "closed", "dead"}]
        /\ flush \in [Session -> [at : {"none", "sending", "waiting", "ok", "failed"},
                                  owed : SUBSET Nat]]
    BY DEF IInv, WriterOK
  <1>3. WriterOK'
    <2>1. life' \in [Session -> {"new", "up", "closed", "dead"}]
      BY <1>1, <1>2
    <2>2. flush' \in [Session -> [at : {"none", "sending", "waiting", "ok", "failed"},
                                  owed : SUBSET Nat]]
      BY <1>1, <1>2
    <2> QED
      BY <1>1, <1>2, <2>1, <2>2 DEF WriterOK
  <1>4. OthersKept(s)
    BY <1>1, <1>2 DEF OthersKept
  <1>5. Still(s)
    <2>1. Lost(s) => Lost(s)'
      BY <1>1, <1>2 DEF Lost
    <2>2. flush'[s] = flush[s] \/ (flush'[s].at = "failed" /\ flush'[s].owed = flush[s].owed)
      BY <1>1, <1>2
    <2> QED
      BY <1>1, <1>2, <2>1, <2>2, Typed DEF Still
  <1>6. StepInv(s)'
    BY <1>1, <1>2 DEF Local, StepInv, Durable
  <1> QED
    BY <1>1, <1>3, <1>4, <1>5, <1>6, Settles DEF Running

LEMMA CommitsFail ==
  ASSUME IInv, NEW s \in Session, CommitFails(s)
  PROVE  IInv'
  <1>1. /\ step[s] = "decide"
        /\ UNCHANGED <<life, shown, issued, accepted, logging, queue, health, flush, batch, ack,
                       gone, drops, recorded, due, db>>
        /\ \/ step' = [step EXCEPT ![s] = "receive"] /\ owner' = owner
           \/ /\ life[s] = "closed"
              /\ step' = [step EXCEPT ![s] = "abandoned"] /\ owner' = Free
    BY DEF CommitFails, handlers
  <1>2. WriterOK /\ Local(s) /\ step \in [Session -> {"init", "refusing", "receive", "decide",
                                 "committed", "answer", "stopped", "abandoned"}]
    BY DEF IInv, WriterOK
  <1>3. WriterOK'
    <2>1. failing' \in [Session -> {"no", "recently", "long"}]
      BY <1>2 DEF CommitFails, WriterOK
    <2>2. /\ step' \in [Session -> {"init", "refusing", "receive", "decide",
                                 "committed", "answer", "stopped", "abandoned"}]
          /\ owner' \in Session \cup {Free}
      BY <1>1, <1>2 DEF WriterOK
    <2> QED
      BY <1>1, <1>2, <2>1, <2>2 DEF WriterOK
  <1>4. OthersKept(s)
    BY <1>1, <1>2 DEF OthersKept
  <1>5. Still(s)
    <2>1. Lost(s) => Lost(s)'
      BY <1>1, <1>2 DEF Lost
    <2> QED
      BY <1>1, <1>2, <2>1, Typed DEF Still
  <1>6. StepInv(s)'
    BY <1>1, <1>2 DEF Local, StepInv
  <1>7. owner = s
    BY <1>1 DEF IInv, LockInv, Running
  <1>8. \A t \in Session \ {s} : ~Running(t)
    BY <1>7 DEF IInv, LockInv
  <1>9. /\ Running(s)' => Running(s) /\ owner' = owner
        /\ step[s] \notin {"init", "refusing"} => step'[s] \notin {"init", "refusing"}
        /\ step[s] \in {"stopped", "abandoned"} => step'[s] \in {"stopped", "abandoned"}
    BY <1>1, <1>2 DEF Running
  <1> QED
    BY <1>1, <1>3, <1>4, <1>5, <1>6, <1>8, <1>9, Settles

------------------------------------------------------------------------------
\* Steps of the handlers and of the flush

Counters == [ready : BOOLEAN, pending : Nat, enqueued : Nat, committed : Nat, dropped : Nat]

\* The counters of s have changed, and those of nobody else.
Recounted(s, p, d) ==
  /\ health' \in [Session -> Counters]
  /\ health'[s].pending = p /\ health'[s].dropped = d
  /\ \A t \in Session \ {s} : health'[t] = health[t]

LEMMA Pending ==
  ASSUME WriterOK, NEW s \in Session, NEW p \in Nat,
         health' = [health EXCEPT ![s].pending = p]
  PROVE  Recounted(s, p, health[s].dropped)
  <1>1. health \in [Session -> Counters]
    BY DEF WriterOK, Counters
  <1> QED
    BY <1>1 DEF Counters, Recounted

LEMMA Enqueued ==
  ASSUME WriterOK, NEW s \in Session, NEW x \in Nat,
         health' = [health EXCEPT ![s].enqueued = x]
  PROVE  Recounted(s, health[s].pending, health[s].dropped)
  <1>1. health \in [Session -> Counters]
    BY DEF WriterOK, Counters
  <1> QED
    BY <1>1 DEF Counters, Recounted

LEMMA Dropped ==
  ASSUME WriterOK, NEW s \in Session, NEW d \in Nat,
         health' = [health EXCEPT ![s].dropped = d]
  PROVE  Recounted(s, health[s].pending, d)
  <1>1. health \in [Session -> Counters]
    BY DEF WriterOK, Counters
  <1> QED
    BY <1>1 DEF Counters, Recounted

LEMMA PendingAndDropped ==
  ASSUME WriterOK, NEW s \in Session, NEW p \in Nat, NEW x \in Nat,
         health' = [health EXCEPT ![s].pending = p, ![s].dropped = x]
  PROVE  Recounted(s, p, x)
  <1>1. health \in [Session -> Counters]
    BY DEF WriterOK, Counters
  <1>2. PICK h : h = [health[s] EXCEPT !.pending = p, !.dropped = x]
    OBVIOUS
  <1>3. health' = [health EXCEPT ![s] = h]
    BY <1>2
  <1> QED
    BY <1>1, <1>2, <1>3 DEF Counters, Recounted

LEMMA PendingAndCommitted ==
  ASSUME WriterOK, NEW s \in Session, NEW p \in Nat, NEW x \in Nat,
         health' = [health EXCEPT ![s].pending = p, ![s].committed = x]
  PROVE  Recounted(s, p, health[s].dropped)
  <1>1. health \in [Session -> Counters]
    BY DEF WriterOK, Counters
  <1>2. PICK h : h = [health[s] EXCEPT !.pending = p, !.committed = x]
    OBVIOUS
  <1>3. health' = [health EXCEPT ![s] = h]
    BY <1>2
  <1> QED
    BY <1>1, <1>2, <1>3 DEF Counters, Recounted

LEMMA DroppedAndReady ==
  ASSUME WriterOK, NEW s \in Session, NEW x \in Nat,
         health' = [health EXCEPT ![s].dropped = x, ![s].ready = TRUE]
  PROVE  Recounted(s, health[s].pending, x)
  <1>1. health \in [Session -> Counters]
    BY DEF WriterOK, Counters
  <1>2. PICK h : h = [health[s] EXCEPT !.dropped = x, !.ready = TRUE]
    OBVIOUS
  <1>3. health' = [health EXCEPT ![s] = h]
    BY <1>2
  <1> QED
    BY <1>1, <1>2, <1>3 DEF Counters, Recounted

LEMMA Counts ==
  ASSUME IInv, NEW s \in Session, NEW r \in Request, NEW state \in State, Log(s, r, state)
  PROVE  IInv'
  <1> DEFINE e == [n |-> issued[s] + 1, req |-> r, state |-> state]
  <1>1. /\ life[s] = "up" /\ logging[s].at = "idle"
        /\ shown' = [shown EXCEPT ![s][r] = state]
        /\ issued' = [issued EXCEPT ![s] = @ + 1]
        /\ logging' = [logging EXCEPT ![s] = [at |-> "send", event |-> e]]
        /\ health' = [health EXCEPT ![s].pending = health[s].pending + 1]
        /\ UNCHANGED <<life, accepted, queue, flush, step, batch, ack, gone, drops, recorded,
                       failing, due, db, owner>>
    BY DEF Log, writer
  <1>2. WriterOK /\ Local(s) /\ issued[s] \in Nat
    BY Typed DEF IInv
  <1>3. /\ issued \in [Session -> Nat]
        /\ logging \in [Session -> [at : {"idle", "send", "sent", "refused", "uncounted"},
                                    event : Event \cup {NoEvent}]]
        /\ shown \in [Session -> [Request -> State \cup {"none"}]]
        /\ health[s] \in Counters
    BY <1>2 DEF WriterOK, Counters
  <1>4. e \in Event /\ e.n = issued[s] + 1
    BY <1>2 DEF Event
  <1> HIDE DEF e
  <1>5. /\ issued'[s] = issued[s] + 1 /\ logging'[s] = [at |-> "send", event |-> e]
        /\ health'[s].pending = health[s].pending + 1
        /\ health'[s].dropped = health[s].dropped
        /\ health' \in [Session -> Counters]
        /\ \A t \in Session \ {s} : health'[t] = health[t]
    <2>1. health[s].pending + 1 \in Nat
      BY <1>2, Typed
    <2>2. Recounted(s, health[s].pending + 1, health[s].dropped)
      BY <1>1, <1>2, <2>1, Pending
    <2> QED
      BY <1>1, <1>3, <2>2 DEF Recounted
  <1>6. WriterOK'
    <2>1. /\ issued' \in [Session -> Nat]
          /\ logging' \in [Session -> [at : {"idle", "send", "sent", "refused", "uncounted"},
                                       event : Event \cup {NoEvent}]]
      BY <1>1, <1>3, <1>4
    <2>2. shown' \in [Session -> [Request -> State \cup {"none"}]]
      BY <1>1, <1>3
    <2>3. health' \in [Session -> [ready : BOOLEAN, pending : Nat, enqueued : Nat,
                                   committed : Nat, dropped : Nat]]
      BY <1>5 DEF Counters
    <2>4. UNCHANGED <<life, accepted, queue, flush, step, batch, ack, gone, drops, recorded,
                      failing, due, db, owner>>
      BY <1>1
    <2> QED
      BY ONLY <1>2, <2>1, <2>2, <2>3, <2>4 DEF WriterOK
  <1>7. OthersKept(s)
    BY <1>1, <1>3, <1>5 DEF OthersKept
  <1>8. Past(s)' = Past(s)
    <2>1. Past(s) = {n \in Nat : n <= issued[s]}
      BY <1>1 DEF Past
    <2>2. Past(s)' = {n \in Nat : n <= issued[s] + 1 /\ n < issued[s] + 1}
      BY <1>5 DEF Past
    <2> QED
      BY <1>2, <2>1, <2>2
  <1>9. HandlerInv(s)'
    <2>1. logging'[s].at = "send" /\ logging'[s].event = e
      BY <1>5
    <2> QED
      BY <1>1, <1>2, <1>4, <1>5, <1>8, <2>1 DEF Local, HandlerInv
  <1>10. OrderInv(s)' /\ StepInv(s)' /\ FlushInv(s)'
    BY <1>1, <1>2 DEF Local, OrderInv, StepInv, FlushInv, FlushIn, Ahead, InBatch, Durable, Lost
  <1>11. PlaceInv(s)'
    <2>1. \A n : /\ Durable(s, n)' <=> Durable(s, n)
                 /\ InBatch(s, n)' <=> InBatch(s, n)
                 /\ InQueue(s, n)' <=> InQueue(s, n)
      BY <1>1 DEF Durable, InBatch, InQueue
    <2>2. Lost(s)' <=> Lost(s)
      BY <1>1 DEF Lost
    <2>3. \A n \in 1..(issued[s] + 1) : n = issued[s] + 1 \/ n \in 1..issued[s]
      BY <1>2
    <2> QED
      BY <1>1, <1>2, <1>5, <2>1, <2>2, <2>3 DEF Local, PlaceInv
  <1>12. CountInv(s)'
    <2>1. Flushes(s)' = Flushes(s) /\ Flushes(s) \in Nat
      BY <1>1 DEF Flushes, FlushIn
    <2>2. Held(s)' = 1 /\ Held(s) = 0
      BY <1>1, <1>5 DEF Held
    <2>3. health[s].pending + Flushes(s) = Len(queue[s]) + Len(batch[s]) + Held(s)
      BY <1>2 DEF Local, CountInv
    <2>4. /\ health[s].pending \in Nat /\ Len(queue[s]) \in Nat /\ Len(batch[s]) \in Nat
          /\ health'[s].pending = health[s].pending + 1
      BY <1>2, <1>5, Typed
    <2>5. PICK p \in Nat : p = health[s].pending
      BY <2>4
    <2>6. PICK q \in Nat : q = Len(queue[s])
      BY <2>4
    <2>7. PICK b \in Nat : b = Len(batch[s])
      BY <2>4
    <2>8. PICK f \in Nat : f = Flushes(s)
      BY <2>1
    <2>9. p + f = q + b + 0
      BY <2>2, <2>3, <2>5, <2>6, <2>7, <2>8
    <2>10. p + 1 + f = q + b + 1
      BY ONLY <2>9
    <2> QED
      BY <1>1, <2>1, <2>2, <2>4, <2>5, <2>6, <2>7, <2>8, <2>10 DEF CountInv
  <1>13. Local(s)'
    BY <1>9, <1>10, <1>11, <1>12 DEF Local
  <1> QED
    BY <1>1, <1>6, <1>7, <1>13, Assembles DEF Running

\* The handler's event is no longer pending; a refused one has yet to be counted.
Forgotten(s) ==
  /\ logging' \in [Session -> [at : {"idle", "send", "sent", "refused", "uncounted"},
                                event : Event \cup {NoEvent}]]
  /\ \A t \in Session \ {s} : logging'[t] = logging[t]
  /\ logging'[s].at \in {"idle", "uncounted"}
  /\ logging[s].at = "refused" => logging'[s].at = "uncounted"

\* What is left to show of a step that lets go of the handler's event.
LEMMA Uncounted ==
  ASSUME IInv, NEW s \in Session, life[s] = "up",
         logging[s].at \in {"sent", "refused", "uncounted"},
         Forgotten(s),
         UNCHANGED <<life, shown, issued, accepted, queue, flush, step, batch, ack, gone,
                     drops, recorded, failing, due, db, owner>>,
         health' \in [Session -> Counters],
         health'[s].pending = health[s].pending - Held(s),
         health'[s].dropped >= health[s].dropped,
         logging[s].at = "uncounted" => health'[s].dropped > 0,
         \A t \in Session \ {s} : health'[t] = health[t]
  PROVE  IInv'
  <1>1. WriterOK /\ Local(s) /\ issued[s] \in Nat
    BY Typed DEF IInv
  <1>2. /\ logging \in [Session -> [at : {"idle", "send", "sent", "refused", "uncounted"},
                                    event : Event \cup {NoEvent}]]
        /\ health[s].pending \in Nat /\ health[s].dropped \in Nat
    BY <1>1, Typed DEF WriterOK
  <1>3. /\ logging'[s].at \in {"idle", "uncounted"}
        /\ Held(s)' = 0 /\ Held(s) \in Nat
    <2>1. logging'[s].at \in {"idle", "uncounted"}
      BY DEF Forgotten
    <2> QED
      BY <2>1 DEF Held
  <1>4. WriterOK'
    <2>1. logging' \in [Session -> [at : {"idle", "send", "sent", "refused", "uncounted"},
                                    event : Event \cup {NoEvent}]]
      BY DEF Forgotten
    <2>2. health' \in [Session -> [ready : BOOLEAN, pending : Nat, enqueued : Nat,
                                   committed : Nat, dropped : Nat]]
      BY DEF Counters
    <2>3. UNCHANGED <<life, shown, issued, accepted, queue, flush, step, batch, ack, gone,
                      drops, recorded, failing, due, db, owner>>
      OBVIOUS
    <2> QED
      BY ONLY <1>1, <2>1, <2>2, <2>3 DEF WriterOK
  <1>5. OthersKept(s)
    BY DEF Forgotten, OthersKept
  <1>6. Past(s)' = Past(s)
    BY <1>3 DEF Past
  <1>7. HandlerInv(s)'
    BY <1>1, <1>3, <1>6 DEF Local, HandlerInv
  <1>8. OrderInv(s)' /\ StepInv(s)' /\ FlushInv(s)'
    <2>1. OrderInv(s)'
      BY <1>1 DEF Local, OrderInv
    <2>2. StepInv(s)'
      BY <1>1 DEF Local, StepInv, Durable
    <2>3. FlushInv(s)'
      <3>1. FlushInv(s) /\ UNCHANGED <<flush, accepted, ack, queue, db, batch, life, step>>
        BY <1>1 DEF Local
      <3> QED
        BY ONLY <3>1 DEF FlushInv, FlushIn, Ahead, InBatch, Durable, Lost
    <2> QED
      BY <2>1, <2>2, <2>3
  <1>9. PlaceInv(s)'
    <2>1. \A n : /\ Durable(s, n)' <=> Durable(s, n)
                 /\ InBatch(s, n)' <=> InBatch(s, n)
                 /\ InQueue(s, n)' <=> InQueue(s, n)
      BY DEF Durable, InBatch, InQueue
    <2>2. Lost(s)' <=> Lost(s)
      BY DEF Lost
    <2>3. health[s].dropped > 0 \/ logging[s].at = "uncounted" => health'[s].dropped > 0
      <3>1. health'[s].dropped \in Nat
        BY DEF Counters
      <3> QED
        BY <1>2, <3>1
    <2>4. logging[s].at = "refused" => logging'[s].at = "uncounted"
      BY DEF Forgotten
    <2> QED
      BY <1>1, <2>1, <2>2, <2>3, <2>4 DEF Local, PlaceInv
  <1>10. CountInv(s)'
    <2>1. Flushes(s)' = Flushes(s) /\ Flushes(s) \in Nat
      BY DEF Flushes, FlushIn
    <2>2. health[s].pending + Flushes(s) = Len(queue[s]) + Len(batch[s]) + Held(s)
      BY <1>1 DEF Local, CountInv
    <2>3. /\ Len(queue[s]) \in Nat /\ Len(batch[s]) \in Nat
          /\ health'[s].pending = health[s].pending - Held(s)
      BY <1>1, Typed
    <2>4. PICK p \in Nat : p = health[s].pending
      BY <1>2
    <2>5. PICK q \in Nat : q = Len(queue[s])
      BY <2>3
    <2>6. PICK b \in Nat : b = Len(batch[s])
      BY <2>3
    <2>7. PICK f \in Nat : f = Flushes(s)
      BY <2>1
    <2>8. PICK h \in Nat : h = Held(s)
      BY <1>3
    <2>9. p + f = q + b + h
      BY <2>2, <2>4, <2>5, <2>6, <2>7, <2>8
    <2>10. p - h + f = q + b + 0
      BY ONLY <2>9
    <2> QED
      BY <1>3, <2>1, <2>3, <2>4, <2>5, <2>6, <2>7, <2>8, <2>10 DEF CountInv
  <1>11. Local(s)'
    BY <1>7, <1>8, <1>9, <1>10 DEF Local
  <1> QED
    BY <1>4, <1>5, <1>11, Assembles DEF Running

LEMMA Counted ==
  ASSUME IInv, NEW s \in Session, Logged(s)
  PROVE  IInv'
  <1>1. /\ life[s] = "up" /\ logging[s].at \in {"sent", "refused", "uncounted"}
        /\ UNCHANGED <<life, shown, issued, accepted, queue, flush, step, batch, ack, gone,
                       drops, recorded, failing, due, db, owner>>
    BY DEF Logged, writer
  <1>2. WriterOK /\ Local(s)
    BY DEF IInv
  <1>0. /\ logging \in [Session -> [at : {"idle", "send", "sent", "refused", "uncounted"},
                                    event : Event \cup {NoEvent}]]
    BY <1>2 DEF WriterOK
  <1>3. health[s].pending \in Nat /\ health[s].enqueued \in Nat /\ health[s].dropped \in Nat
    BY <1>2 DEF WriterOK
  <1>4. CASE logging[s].at = "sent"
    <2>1. /\ health' = [health EXCEPT ![s].enqueued = health[s].enqueued + 1]
          /\ logging' = [logging EXCEPT ![s].at = "idle"]
      BY <1>4 DEF Logged
    <2>2. health[s].enqueued + 1 \in Nat
      BY <1>3
    <2>3. Recounted(s, health[s].pending, health[s].dropped)
      BY <1>2, <2>1, <2>2, Enqueued
    <2>4. health[s].pending - Held(s) = health[s].pending
      BY <1>3, <1>4 DEF Held
    <2>9. Forgotten(s)
      BY <1>0, <1>4, <2>1 DEF Forgotten
    <2>10. health' \in [Session -> Counters] /\ \A t \in Session \ {s} : health'[t] = health[t]
      BY <2>3 DEF Recounted
    <2>11. /\ health'[s].pending = health[s].pending - Held(s)
           /\ health'[s].dropped >= health[s].dropped
           /\ logging[s].at = "uncounted" => health'[s].dropped > 0
      BY <1>3, <1>4, <2>3, <2>4 DEF Recounted
    <2> QED
      BY ONLY IInv, <1>1, <2>9, <2>10, <2>11, Uncounted
  <1>5. CASE logging[s].at = "refused"
    <2>1. /\ health' = [health EXCEPT ![s].pending = health[s].pending - 1]
          /\ logging' = [logging EXCEPT ![s].at = "uncounted"]
      BY <1>5 DEF Logged
    <2>2. health[s].pending - 1 \in Nat
      <3>1. health[s].pending + Flushes(s) = Len(queue[s]) + Len(batch[s]) + 1
        BY <1>2, <1>5 DEF Local, CountInv, Held
      <3>2. Len(queue[s]) \in Nat /\ Len(batch[s]) \in Nat
        BY <1>2, Typed
      <3>3. FlushIn(s) => Len(queue[s]) >= 1
        BY <3>2 DEF FlushIn
      <3>4. Flushes(s) \in Nat /\ Flushes(s) <= Len(queue[s])
        BY <3>2, <3>3 DEF Flushes
      <3>5. PICK p \in Nat : p = health[s].pending
        BY <1>3
      <3>6. PICK q \in Nat : q = Len(queue[s])
        BY <3>2
      <3>7. PICK b \in Nat : b = Len(batch[s])
        BY <3>2
      <3>8. PICK f \in Nat : f = Flushes(s)
        BY <3>4
      <3>9. p + f = q + b + 1 /\ f <= q
        BY <3>1, <3>4, <3>5, <3>6, <3>7, <3>8
      <3>10. p - 1 \in Nat
        BY ONLY <3>9
      <3> QED
        BY <1>3, <3>5, <3>10
    <2>3. Recounted(s, health[s].pending - 1, health[s].dropped)
      BY <1>2, <2>1, <2>2, Pending
    <2>4. Held(s) = 1
      BY <1>5 DEF Held
    <2>9. Forgotten(s)
      BY <1>0, <1>5, <2>1 DEF Forgotten
    <2>10. health' \in [Session -> Counters] /\ \A t \in Session \ {s} : health'[t] = health[t]
      BY <2>3 DEF Recounted
    <2>11. /\ health'[s].pending = health[s].pending - Held(s)
           /\ health'[s].dropped >= health[s].dropped
           /\ logging[s].at = "uncounted" => health'[s].dropped > 0
      BY <1>3, <1>5, <2>3, <2>4 DEF Recounted
    <2> QED
      BY ONLY IInv, <1>1, <2>9, <2>10, <2>11, Uncounted
  <1>6. CASE logging[s].at = "uncounted"
    <2>1. /\ health' = [health EXCEPT ![s].dropped = health[s].dropped + 1]
          /\ logging' = [logging EXCEPT ![s].at = "idle"]
      BY <1>6 DEF Logged
    <2>2. health[s].dropped + 1 \in Nat /\ health[s].dropped + 1 > 0
      BY <1>3
    <2>3. Recounted(s, health[s].pending, health[s].dropped + 1)
      BY <1>2, <2>1, <2>2, Dropped
    <2>4. health[s].pending - Held(s) = health[s].pending
      BY <1>3, <1>6 DEF Held
    <2>9. Forgotten(s)
      BY <1>0, <1>6, <2>1 DEF Forgotten
    <2>10. health' \in [Session -> Counters] /\ \A t \in Session \ {s} : health'[t] = health[t]
      BY <2>3 DEF Recounted
    <2>11. /\ health'[s].pending = health[s].pending - Held(s)
           /\ health'[s].dropped >= health[s].dropped
           /\ logging[s].at = "uncounted" => health'[s].dropped > 0
      BY <1>3, <1>6, <2>3, <2>4 DEF Recounted
    <2> QED
      BY ONLY IInv, <1>1, <2>9, <2>10, <2>11, Uncounted
  <1> QED
    BY <1>1, <1>4, <1>5, <1>6

LEMMA Called ==
  ASSUME IInv, NEW s \in Session, FlushCall(s)
  PROVE  IInv'
  <1>1. /\ life[s] = "up" /\ flush[s].at = "none"
        /\ flush' = [flush EXCEPT ![s] = [at |-> "sending", owed |-> accepted[s]]]
        /\ UNCHANGED <<life, shown, issued, accepted, logging, queue, health, step, batch, ack,
                       gone, drops, recorded, failing, due, db, owner>>
    BY DEF FlushCall, handlers, writer
  <1>2. WriterOK /\ Local(s)
        /\ flush \in [Session -> [at : {"none", "sending", "waiting", "ok", "failed"},
                                  owed : SUBSET Nat]]
    BY DEF IInv, WriterOK
  <1>3. /\ flush'[s].at = "sending" /\ flush'[s].owed = accepted[s]
        /\ flush' \in [Session -> [at : {"none", "sending", "waiting", "ok", "failed"},
                                   owed : SUBSET Nat]]
    BY <1>1, <1>2, Typed
  <1>4. WriterOK'
    BY ONLY <1>1, <1>2, <1>3 DEF WriterOK
  <1>5. OthersKept(s)
    BY <1>1, <1>2 DEF OthersKept
  <1>6. HandlerInv(s)' /\ OrderInv(s)' /\ StepInv(s)' /\ PlaceInv(s)' /\ CountInv(s)'
    <2>1. HandlerInv(s)' /\ OrderInv(s)'
      BY <1>1, <1>2 DEF Local, HandlerInv, Past, OrderInv
    <2>2. /\ \A n : /\ Durable(s, n)' <=> Durable(s, n)
                    /\ InBatch(s, n)' <=> InBatch(s, n)
                    /\ InQueue(s, n)' <=> InQueue(s, n)
          /\ Lost(s)' <=> Lost(s)
      BY <1>1 DEF Durable, InBatch, InQueue, Lost
    <2>3. StepInv(s)' /\ PlaceInv(s)'
      BY <1>1, <1>2, <2>2 DEF Local, StepInv, PlaceInv
    <2>4. CountInv(s)'
      BY <1>1, <1>2 DEF Local, CountInv, Flushes, FlushIn, Held
    <2> QED
      BY <2>1, <2>3, <2>4
  <1>7. FlushInv(s)'
    BY <1>1, <1>2, <1>3 DEF Local, FlushInv, FlushIn
  <1> QED
    BY <1>1, <1>4, <1>5, <1>6, <1>7, Assembles DEF Local, Running

\* An event or a flush goes to the end of the queue: what stays true of what was there.
LEMMA Behind ==
  ASSUME WriterOK, NEW s \in Session, NEW e \in Events, queue' = [queue EXCEPT ![s] = Append(@, e)],
         Len(queue[s]) < Capacity
  PROVE  /\ queue' \in [Session -> Seq(Events)]
         /\ \A t \in Session : Len(queue'[t]) <= Capacity
         /\ Len(queue'[s]) = Len(queue[s]) + 1
         /\ queue'[s][Len(queue'[s])] = e /\ Len(queue'[s]) \in 1..Len(queue'[s])
         /\ \A i \in 1..Len(queue[s]) : /\ i \in 1..Len(queue'[s]) /\ i < Len(queue'[s])
                                        /\ queue'[s][i] = queue[s][i]
         /\ \A i \in 1..Len(queue'[s]) : i = Len(queue'[s]) \/ i \in 1..Len(queue[s])
         /\ \A t \in Session \ {s} : queue'[t] = queue[t]
  <1>1. /\ queue \in [Session -> Seq(Events)] /\ \A t \in Session : Len(queue[t]) <= Capacity
        /\ Len(queue[s]) \in Nat /\ Capacity \in Nat
    BY Typed, ConstantsOK DEF WriterOK, Events
  <1>2. /\ queue'[s] = Append(queue[s], e)
        /\ \A t \in Session \ {s} : queue'[t] = queue[t]
    BY <1>1
  <1>3. /\ queue'[s] \in Seq(Events) /\ Len(queue'[s]) = Len(queue[s]) + 1
        /\ queue'[s][Len(queue'[s])] = e /\ Len(queue'[s]) \in 1..Len(queue'[s])
        /\ \A i \in 1..Len(queue[s]) : /\ i \in 1..Len(queue'[s]) /\ i < Len(queue'[s])
                                       /\ queue'[s][i] = queue[s][i]
        /\ \A i \in 1..Len(queue'[s]) : i = Len(queue'[s]) \/ i \in 1..Len(queue[s])
    <2>1. PICK q : q = Append(queue[s], e)
      OBVIOUS
    <2>2. queue[s] \in Seq(Events) /\ Len(queue[s]) \in Nat
      BY <1>1
    <2>3. q \in Seq(Events) /\ Len(q) = Len(queue[s]) + 1
          /\ q[Len(queue[s]) + 1] = e /\ \A i \in 1..Len(queue[s]) : q[i] = queue[s][i]
      BY <2>1, <2>2, AppendProperties
    <2>4. /\ q \in Seq(Events) /\ Len(q) = Len(queue[s]) + 1 /\ Len(q) \in Nat
          /\ q[Len(q)] = e /\ Len(q) \in 1..Len(q)
          /\ \A i \in 1..Len(queue[s]) : i \in 1..Len(q) /\ q[i] = queue[s][i] /\ i < Len(q)
          /\ \A i \in 1..Len(q) : i = Len(q) \/ i \in 1..Len(queue[s])
      BY <2>2, <2>3
    <2>5. queue'[s] = q
      BY <1>2, <2>1
    <2> QED
      BY ONLY <2>4, <2>5
  <1>4. queue' \in [Session -> Seq(Events)]
    BY <1>1, <1>2, <1>3
  <1>5. \A t \in Session : Len(queue'[t]) <= Capacity
    BY <1>1, <1>2, <1>3
  <1> QED
    BY <1>2, <1>3, <1>4, <1>5

\* A handler's event that finds room.
LEMMA Accepted ==
  ASSUME IInv, NEW s \in Session, Send(s), Len(queue[s]) < Capacity
  PROVE  IInv'
  <1> DEFINE e == logging[s].event
  <1>1. /\ life[s] = "up" /\ logging[s].at = "send"
        /\ queue' = [queue EXCEPT ![s] = Append(@, e)]
        /\ accepted' = [accepted EXCEPT ![s] = accepted[s] \cup {e.n}]
        /\ logging' = [logging EXCEPT ![s] = [at |-> "sent", event |-> NoEvent]]
        /\ UNCHANGED <<life, shown, issued, health, flush, step, batch, ack, gone, drops,
                       recorded, failing, due, db, owner>>
    BY DEF Send, writer
  <1>2. /\ WriterOK /\ Local(s) /\ issued[s] \in Nat
        /\ accepted \in [Session -> SUBSET Nat]
        /\ logging \in [Session -> [at : {"idle", "send", "sent", "refused", "uncounted"},
                                    event : Event \cup {NoEvent}]]
    BY Typed DEF IInv, WriterOK
  <1>3. e \in Event /\ e \in Events /\ e.n = issued[s] /\ e.n \in Nat \ {0} /\ e # Flush
    <2>1. e \in Event /\ e.n = issued[s]
      BY <1>1, <1>2 DEF Local, HandlerInv
    <2>2. e.n \in Nat \ {0} /\ Flush.n = 0
      BY <2>1 DEF Event, Flush
    <2> QED
      BY <2>1, <2>2 DEF Events
  <1>4. /\ accepted'[s] = accepted[s] \cup {issued[s]} /\ logging'[s].at = "sent"
        /\ \A t \in Session \ {s} : accepted'[t] = accepted[t] /\ logging'[t] = logging[t]
    BY <1>1, <1>2, <1>3
  <1> HIDE DEF e
  <1>5. /\ queue' \in [Session -> Seq(Events)]
        /\ \A t \in Session : Len(queue'[t]) <= Capacity
        /\ Len(queue'[s]) = Len(queue[s]) + 1
        /\ queue'[s][Len(queue'[s])] = e /\ Len(queue'[s]) \in 1..Len(queue'[s])
        /\ \A i \in 1..Len(queue[s]) : /\ i \in 1..Len(queue'[s]) /\ i < Len(queue'[s])
                                       /\ queue'[s][i] = queue[s][i]
        /\ \A i \in 1..Len(queue'[s]) : i = Len(queue'[s]) \/ i \in 1..Len(queue[s])
        /\ \A t \in Session \ {s} : queue'[t] = queue[t]
    BY <1>1, <1>2, <1>3, Behind
  <1>6. WriterOK'
    <2>1. accepted' \in [Session -> SUBSET Nat]
      BY <1>1, <1>2, <1>3
    <2>2. logging' \in [Session -> [at : {"idle", "send", "sent", "refused", "uncounted"},
                                    event : Event \cup {NoEvent}]]
      BY <1>1, <1>2
    <2>3. queue' \in [Session -> Seq(Event \cup {Flush})]
      BY <1>5 DEF Events
    <2>4. \A t \in Session : Len(queue'[t]) <= Capacity
      BY <1>5
    <2> QED
      BY ONLY <1>1, <1>2, <2>1, <2>2, <2>3, <2>4 DEF WriterOK
  <1>7. OthersKept(s)
    BY <1>1, <1>4, <1>5 DEF OthersKept
  <1>8. /\ \A n \in Past(s) : n \in Past(s)' /\ n < issued[s]
        /\ issued[s] \in Past(s)'
    BY <1>1, <1>2, <1>4 DEF Past
  <1>9. HandlerInv(s)'
    <2>1. \A i \in 1..Len(queue'[s]) : queue'[s][i].n \in Past(s)'
      BY <1>2, <1>3, <1>5, <1>8 DEF Local, HandlerInv
    <2>2. accepted'[s] \subseteq Past(s)' \ {0}
      BY <1>2, <1>3, <1>4, <1>8 DEF Local, HandlerInv
    <2> QED
      BY <1>1, <1>2, <1>4, <1>8, <2>1, <2>2 DEF Local, HandlerInv
  <1>10. OrderInv(s)'
    <2>1. \A i, j \in 1..Len(queue'[s]) :
            i < j /\ queue'[s][j] # Flush => queue'[s][i].n < queue'[s][j].n
      <3>1. SUFFICES ASSUME NEW i \in 1..Len(queue'[s]), NEW j \in 1..Len(queue'[s]), i < j,
                            queue'[s][j] # Flush
                     PROVE  queue'[s][i].n < queue'[s][j].n
        OBVIOUS
      <3>2. i \in 1..Len(queue[s])
        BY <1>2, <1>5, <3>1, Typed
      <3>3. CASE j = Len(queue'[s])
        BY <1>2, <1>3, <1>5, <1>8, <3>2, <3>3 DEF Local, HandlerInv
      <3>4. CASE j \in 1..Len(queue[s])
        BY <1>2, <1>5, <3>1, <3>2, <3>4 DEF Local, OrderInv
      <3> QED
        BY <1>5, <3>3, <3>4
    <2>2. \A i \in 1..Len(batch[s]), j \in 1..Len(queue'[s]) :
            queue'[s][j] # Flush => batch[s][i].n < queue'[s][j].n
      BY <1>2, <1>3, <1>5, <1>8 DEF Local, OrderInv, HandlerInv
    <2>3. \A k \in 1..Len(db.timeline) : db.timeline[k].ses = s =>
            \A j \in 1..Len(queue'[s]) :
              queue'[s][j] # Flush => db.timeline[k].n < queue'[s][j].n
      BY <1>2, <1>3, <1>5, <1>8 DEF Local, OrderInv, HandlerInv
    <2> QED
      BY <1>1, <1>2, <2>1, <2>2, <2>3 DEF Local, OrderInv
  <1>11. /\ \A n : /\ Durable(s, n)' <=> Durable(s, n)
                   /\ InBatch(s, n)' <=> InBatch(s, n)
                   /\ InQueue(s, n) => InQueue(s, n)'
         /\ InQueue(s, issued[s])'
         /\ Lost(s)' <=> Lost(s)
    BY <1>1, <1>3, <1>5 DEF Durable, InBatch, InQueue, Lost
  <1>12. FlushIn(s)' <=> FlushIn(s)
    BY <1>3, <1>5 DEF FlushIn
  <1>13. StepInv(s)' /\ PlaceInv(s)'
    <2>1. StepInv(s)'
      BY <1>1, <1>2, <1>11 DEF Local, StepInv
    <2>2. PlaceInv(s)'
      BY <1>1, <1>2, <1>4, <1>11 DEF Local, PlaceInv
    <2> QED
      BY <2>1, <2>2
  <1>14. CountInv(s)'
    <2>1. Flushes(s)' = Flushes(s)
      BY <1>12 DEF Flushes
    <2>2. Held(s)' = 0 /\ Held(s) = 1
      BY <1>1, <1>4 DEF Held
    <2>3. PICK q \in Nat : q = Len(queue[s])
      BY <1>2, Typed
    <2>4. PICK b \in Nat : b = Len(batch[s])
      BY <1>2, Typed
    <2>5. q + b + 1 = (q + 1) + b + 0
      BY ONLY TRUE
    <2>6. health[s].pending + Flushes(s) = q + b + 1
      BY <1>2, <2>2, <2>3, <2>4 DEF Local, CountInv
    <2> QED
      BY <1>1, <1>5, <2>1, <2>2, <2>3, <2>4, <2>5, <2>6 DEF CountInv
  <1>15. FlushInv(s)'
    <2>1. \A i, j \in 1..Len(queue'[s]) : queue'[s][i] = Flush /\ queue'[s][j] = Flush => i = j
      BY <1>2, <1>3, <1>5 DEF Local, FlushInv
    <2>2. ASSUME NEW n, Ahead(s, n) PROVE Ahead(s, n)'
      <3>1. PICK i, j \in 1..Len(queue[s]) : i < j /\ queue[s][i].n = n /\ queue[s][j] = Flush
        BY <2>2 DEF Ahead
      <3>2. /\ i \in 1..Len(queue'[s]) /\ j \in 1..Len(queue'[s])
            /\ queue'[s][i] = queue[s][i] /\ queue'[s][j] = queue[s][j]
        BY <1>5, <3>1
      <3> QED
        BY ONLY <3>1, <3>2 DEF Ahead
    <2> QED
      BY <1>1, <1>2, <1>4, <1>11, <1>12, <2>1, <2>2 DEF Local, FlushInv
  <1>16. Local(s)'
    BY <1>9, <1>10, <1>13, <1>14, <1>15 DEF Local
  <1> QED
    BY <1>1, <1>6, <1>7, <1>16, Assembles DEF Running

\* A handler's event that does not.
LEMMA Refused ==
  ASSUME IInv, NEW s \in Session, Send(s), ~(Len(queue[s]) < Capacity)
  PROVE  IInv'
  <1>1. /\ life[s] = "up" /\ logging[s].at = "send"
        /\ logging' = [logging EXCEPT ![s] = [at |-> "refused", event |-> NoEvent]]
        /\ UNCHANGED <<life, shown, issued, accepted, queue, health, flush, step, batch, ack,
                       gone, drops, recorded, failing, due, db, owner>>
    BY DEF Send, writer
  <1>2. /\ WriterOK /\ Local(s) /\ issued[s] \in Nat
        /\ logging \in [Session -> [at : {"idle", "send", "sent", "refused", "uncounted"},
                                    event : Event \cup {NoEvent}]]
    BY Typed DEF IInv, WriterOK
  <1>3. /\ logging'[s].at = "refused"
        /\ \A t \in Session \ {s} : logging'[t] = logging[t]
        /\ logging' \in [Session -> [at : {"idle", "send", "sent", "refused", "uncounted"},
                                     event : Event \cup {NoEvent}]]
    BY <1>1, <1>2
  <1>4. WriterOK'
    BY ONLY <1>1, <1>2, <1>3 DEF WriterOK
  <1>5. OthersKept(s)
    BY <1>1, <1>3 DEF OthersKept
  <1>6. HandlerInv(s)'
    <2>1. \A n \in Past(s) : n \in Past(s)'
      BY <1>1, <1>3 DEF Past
    <2> QED
      BY <1>1, <1>2, <1>3, <2>1 DEF Local, HandlerInv
  <1>7. OrderInv(s)' /\ StepInv(s)' /\ FlushInv(s)'
    BY <1>1, <1>2 DEF Local, OrderInv, StepInv, FlushInv, FlushIn, Ahead, InBatch, Durable, Lost
  <1>8. PlaceInv(s)'
    <2>1. /\ \A n : /\ Durable(s, n)' <=> Durable(s, n)
                    /\ InBatch(s, n)' <=> InBatch(s, n)
                    /\ InQueue(s, n)' <=> InQueue(s, n)
          /\ Lost(s)' <=> Lost(s)
      BY <1>1 DEF Durable, InBatch, InQueue, Lost
    <2> QED
      BY <1>1, <1>2, <1>3, <2>1 DEF Local, PlaceInv
  <1>9. CountInv(s)'
    <2>1. Flushes(s)' = Flushes(s) /\ Held(s)' = Held(s)
      BY <1>1, <1>3 DEF Flushes, FlushIn, Held
    <2> QED
      BY <1>1, <1>2, <2>1 DEF Local, CountInv
  <1> QED
    BY <1>1, <1>4, <1>5, <1>6, <1>7, <1>8, <1>9, Assembles DEF Local, Running

\* The flush goes behind every event that got in before it.
LEMMA Follows ==
  ASSUME IInv, NEW s \in Session, FlushSend(s)
  PROVE  IInv'
  <1>1. /\ life[s] = "up" /\ flush[s].at = "sending" /\ Len(queue[s]) < Capacity
        /\ queue' = [queue EXCEPT ![s] = Append(@, Flush)]
        /\ flush' = [flush EXCEPT ![s].at = "waiting"]
        /\ UNCHANGED <<life, shown, issued, accepted, logging, health, step, batch, ack, gone,
                       drops, recorded, failing, due, db, owner>>
    BY DEF FlushSend, handlers, writer
  <1>2. /\ WriterOK /\ Local(s) /\ issued[s] \in Nat
        /\ flush \in [Session -> [at : {"none", "sending", "waiting", "ok", "failed"},
                                  owed : SUBSET Nat]]
    BY Typed DEF IInv, WriterOK
  <1>3. /\ flush'[s].at = "waiting" /\ flush'[s].owed = flush[s].owed
        /\ \A t \in Session \ {s} : flush'[t] = flush[t]
        /\ flush' \in [Session -> [at : {"none", "sending", "waiting", "ok", "failed"},
                                   owed : SUBSET Nat]]
    BY <1>1, <1>2
  <1>4. Flush \in Events /\ Flush.n = 0
    BY DEF Flush, Events
  <1>5. /\ queue' \in [Session -> Seq(Events)]
        /\ \A t \in Session : Len(queue'[t]) <= Capacity
        /\ Len(queue'[s]) = Len(queue[s]) + 1
        /\ queue'[s][Len(queue'[s])] = Flush /\ Len(queue'[s]) \in 1..Len(queue'[s])
        /\ \A i \in 1..Len(queue[s]) : /\ i \in 1..Len(queue'[s]) /\ i < Len(queue'[s])
                                       /\ queue'[s][i] = queue[s][i]
        /\ \A i \in 1..Len(queue'[s]) : i = Len(queue'[s]) \/ i \in 1..Len(queue[s])
        /\ \A t \in Session \ {s} : queue'[t] = queue[t]
    BY <1>1, <1>2, <1>4, Behind
  <1>6. WriterOK'
    <2>1. queue' \in [Session -> Seq(Event \cup {Flush})]
      BY <1>5 DEF Events
    <2>2. \A t \in Session : Len(queue'[t]) <= Capacity
      BY <1>5
    <2> QED
      BY ONLY <1>1, <1>2, <1>3, <2>1, <2>2 DEF WriterOK
  <1>7. OthersKept(s)
    BY <1>1, <1>3, <1>5 DEF OthersKept
  <1>8. ~ack[s] /\ \A i \in 1..Len(queue[s]) : queue[s][i] # Flush
    BY <1>1, <1>2 DEF Local, FlushInv, FlushIn
  <1>9. HandlerInv(s)'
    <2>1. Past(s)' = Past(s) /\ 0 \in Past(s)
      <3>1. logging[s].at = "send" => issued[s] > 0
        BY <1>2, Typed DEF Local, HandlerInv, Event
      <3> QED
        BY <1>1, <1>2, <3>1 DEF Past
    <2>2. \A i \in 1..Len(queue'[s]) : queue'[s][i].n \in Past(s)
      BY <1>2, <1>4, <1>5, <2>1 DEF Local, HandlerInv
    <2> QED
      BY <1>1, <1>2, <2>1, <2>2 DEF Local, HandlerInv
  <1>10. OrderInv(s)'
    <2>1. \A j \in 1..Len(queue'[s]) :
            queue'[s][j] # Flush => j \in 1..Len(queue[s]) /\ queue'[s][j] = queue[s][j]
      BY <1>5
    <2>2. \A i, j \in 1..Len(queue'[s]) : i < j /\ j \in 1..Len(queue[s])
            => i \in 1..Len(queue[s]) /\ queue'[s][i] = queue[s][i]
      BY <1>2, <1>5, Typed
    <2>3. \A i, j \in 1..Len(queue'[s]) :
            i < j /\ queue'[s][j] # Flush => queue'[s][i].n < queue'[s][j].n
      BY <1>2, <2>1, <2>2 DEF Local, OrderInv
    <2> QED
      BY <1>1, <1>2, <2>1, <2>3 DEF Local, OrderInv
  <1>11. /\ \A n : /\ Durable(s, n)' <=> Durable(s, n)
                   /\ InBatch(s, n)' <=> InBatch(s, n)
                   /\ InQueue(s, n) => InQueue(s, n)' /\ Ahead(s, n)'
         /\ Lost(s)' <=> Lost(s)
    <2>1. ASSUME NEW n, InQueue(s, n) PROVE InQueue(s, n)' /\ Ahead(s, n)'
      <3>1. PICK i \in 1..Len(queue[s]) : queue[s][i].n = n
        BY <2>1 DEF InQueue
      <3>2. i \in 1..Len(queue'[s]) /\ i < Len(queue'[s]) /\ queue'[s][i].n = n
        BY <1>5, <3>1
      <3> QED
        BY <1>5, <3>2 DEF InQueue, Ahead
    <2> QED
      BY <1>1, <2>1 DEF Durable, InBatch, Lost
  <1>12. StepInv(s)' /\ PlaceInv(s)'
    BY <1>1, <1>2, <1>11 DEF Local, StepInv, PlaceInv
  <1>13. CountInv(s)'
    <2>1. Flushes(s)' = 1 /\ Flushes(s) = 0
      BY <1>5, <1>8 DEF Flushes, FlushIn
    <2>2. Held(s)' = Held(s) /\ Held(s) \in Nat
      BY <1>1 DEF Held
    <2>3. PICK p \in Nat : p = health[s].pending
      BY <1>2, Typed
    <2>4. PICK q \in Nat : q = Len(queue[s])
      BY <1>2, Typed
    <2>5. PICK b \in Nat : b = Len(batch[s])
      BY <1>2, Typed
    <2>6. PICK h \in Nat : h = Held(s)
      BY <2>2
    <2>7. p + 0 = q + b + h
      BY <1>2, <2>1, <2>3, <2>4, <2>5, <2>6 DEF Local, CountInv
    <2>8. p + 1 = (q + 1) + b + h
      BY ONLY <2>7
    <2> QED
      BY <1>1, <1>5, <2>1, <2>2, <2>3, <2>4, <2>5, <2>6, <2>8 DEF CountInv
  <1>14. FlushInv(s)'
    <2>1. \A i, j \in 1..Len(queue'[s]) : queue'[s][i] = Flush /\ queue'[s][j] = Flush => i = j
      BY <1>5, <1>8
    <2>2. \A n \in flush[s].owed : Durable(s, n) \/ InBatch(s, n) \/ InQueue(s, n) \/ Lost(s)
      BY <1>2 DEF Local, FlushInv, PlaceInv
    <2> QED
      BY <1>1, <1>2, <1>3, <1>8, <1>11, <2>1, <2>2 DEF Local, FlushInv
  <1>15. Local(s)'
    BY <1>9, <1>10, <1>12, <1>13, <1>14 DEF Local
  <1> QED
    BY <1>1, <1>6, <1>7, <1>15, Assembles DEF Running

------------------------------------------------------------------------------
\* Steps that take from the queue

\* What the queue is without its first element.
Shorter(s) ==
  /\ queue' \in [Session -> Seq(Events)] /\ \A t \in Session : Len(queue'[t]) <= Capacity
  /\ Len(queue[s]) = Len(queue'[s]) + 1 /\ Len(queue'[s]) \in Nat
  /\ Head(queue[s]) = queue[s][1] /\ 1 \in 1..Len(queue[s])
  /\ \A i \in 1..Len(queue'[s]) : i + 1 \in 1..Len(queue[s]) /\ queue'[s][i] = queue[s][i + 1]
  /\ \A i \in 1..Len(queue[s]) :
       i = 1 \/ (i - 1 \in 1..Len(queue'[s]) /\ queue'[s][i - 1] = queue[s][i])
  /\ \A t \in Session \ {s} : queue'[t] = queue[t]

LEMMA Taken ==
  ASSUME WriterOK, NEW s \in Session, queue[s] # <<>>, queue' = [queue EXCEPT ![s] = Tail(@)]
  PROVE  Shorter(s)
  <1>1. /\ queue \in [Session -> Seq(Events)] /\ \A t \in Session : Len(queue[t]) <= Capacity
        /\ queue[s] \in Seq(Events) /\ Len(queue[s]) \in Nat /\ Capacity \in Nat
    BY Typed, ConstantsOK DEF WriterOK, Events
  <1>2. queue'[s] = Tail(queue[s]) /\ \A t \in Session \ {s} : queue'[t] = queue[t]
    BY <1>1
  <1>3. PICK q : q = Tail(queue[s])
    OBVIOUS
  <1>4. /\ q \in Seq(Events) /\ Len(q) = Len(queue[s]) - 1
        /\ \A i \in 1..Len(q) : q[i] = queue[s][i + 1]
        /\ Head(queue[s]) = queue[s][1]
    BY <1>1, <1>3, HeadTailProperties
  <1>5. Len(queue[s]) # 0
    BY <1>1, EmptySeq
  <1>6. /\ Len(queue[s]) = Len(q) + 1 /\ Len(q) \in Nat /\ 1 \in 1..Len(queue[s])
        /\ \A i \in 1..Len(q) : i + 1 \in 1..Len(queue[s])
        /\ \A i \in 1..Len(queue[s]) :
             i = 1 \/ (i - 1 \in 1..Len(q) /\ (i - 1) + 1 = i)
    BY <1>1, <1>4, <1>5
  <1>7. \A i \in 1..Len(queue[s]) : i = 1 \/ (i - 1 \in 1..Len(q) /\ q[i - 1] = queue[s][i])
    BY <1>4, <1>6
  <1>8. queue'[s] = q
    BY <1>2, <1>3
  <1>9. \A t \in Session : Len(queue'[t]) <= Capacity
    BY <1>1, <1>2, <1>6, <1>8
  <1>10. queue' \in [Session -> Seq(Events)]
    BY <1>1, <1>2, <1>4, <1>8
  <1> QED
    BY <1>2, <1>4, <1>6, <1>7, <1>8, <1>9, <1>10 DEF Shorter

\* Whatever becomes of the first element, the others keep their order.
LEMMA Shortened ==
  ASSUME WriterOK, NEW s \in Session, Local(s), Shorter(s),
         UNCHANGED <<issued, accepted, logging, batch, db>>,
         step'[s] = "committed" <=> step[s] = "committed"
  PROVE  /\ HandlerInv(s)' /\ OrderInv(s)'
         /\ FlushIn(s)' => FlushIn(s)
         /\ \A i, j \in 1..Len(queue'[s]) :
              queue'[s][i] = Flush /\ queue'[s][j] = Flush => i = j
  <1>1. /\ \A i \in 1..Len(queue'[s]) : i + 1 \in 1..Len(queue[s])
                                        /\ queue'[s][i] = queue[s][i + 1]
        /\ \A i, j \in 1..Len(queue'[s]) : i < j => i + 1 < j + 1
    BY DEF Shorter
  <1>2. HandlerInv(s)'
    <2>1. Past(s)' = Past(s)
      BY DEF Past
    <2> QED
      BY <1>1, <2>1 DEF Local, HandlerInv
  <1>3. OrderInv(s)'
    BY <1>1 DEF Local, OrderInv
  <1>4. FlushIn(s)' => FlushIn(s)
    BY <1>1 DEF FlushIn
  <1>5. ASSUME NEW i \in 1..Len(queue'[s]), NEW j \in 1..Len(queue'[s]),
               queue'[s][i] = Flush, queue'[s][j] = Flush
        PROVE  i = j
    <2>1. i + 1 = j + 1
      BY <1>1, <1>5 DEF Local, FlushInv
    <2> QED
      BY <2>1
  <1> QED
    BY <1>2, <1>3, <1>4, <1>5

\* The flush has been taken: there is no other.
LEMMA FlushTaken ==
  ASSUME WriterOK, NEW s \in Session, Local(s), Shorter(s), Head(queue[s]) = Flush
  PROVE  /\ FlushIn(s) /\ ~FlushIn(s)' /\ \A n : ~Ahead(s, n)
  <1>1. 1 \in 1..Len(queue[s]) /\ queue[s][1] = Flush
    BY DEF Shorter
  <1>2. FlushIn(s)
    BY <1>1 DEF FlushIn
  <1>3. \A j \in 1..Len(queue[s]) : queue[s][j] = Flush => j = 1
    BY <1>1 DEF Local, FlushInv
  <1>4. ~FlushIn(s)'
    <2>1. SUFFICES ASSUME NEW i \in 1..Len(queue'[s]), queue'[s][i] = Flush PROVE FALSE
      BY DEF FlushIn
    <2>2. i + 1 \in 1..Len(queue[s]) /\ queue[s][i + 1] = Flush
      BY <2>1 DEF Shorter
    <2>3. i + 1 = 1
      BY <1>3, <2>2
    <2> QED
      BY <2>3
  <1>5. ASSUME NEW n, Ahead(s, n) PROVE FALSE
    <2>1. PICK i, j \in 1..Len(queue[s]) : i < j /\ queue[s][i].n = n /\ queue[s][j] = Flush
      BY <1>5 DEF Ahead
    <2>2. j = 1 /\ i < 1 /\ i \in 1..Len(queue[s])
      BY <1>3, <2>1
    <2> QED
      BY <2>2
  <1> QED
    BY <1>2, <1>4, <1>5

\* An event has been taken: whatever is behind it is still ahead of the flush.
LEMMA EventTaken ==
  ASSUME WriterOK, NEW s \in Session, Local(s), Shorter(s), Head(queue[s]) # Flush
  PROVE  /\ Head(queue[s]) \in Event
         /\ FlushIn(s)' <=> FlushIn(s)
         /\ FlushIn(s) => Len(queue'[s]) >= 1
         /\ \A n : InQueue(s, n) => n = Head(queue[s]).n \/ InQueue(s, n)'
         /\ \A n : Ahead(s, n) => n = Head(queue[s]).n \/ Ahead(s, n)'
  <1>1. /\ 1 \in 1..Len(queue[s]) /\ queue[s][1] # Flush /\ Head(queue[s]) = queue[s][1]
        /\ \A i \in 1..Len(queue[s]) :
             i = 1 \/ (i - 1 \in 1..Len(queue'[s]) /\ queue'[s][i - 1] = queue[s][i])
        /\ \A i \in 1..Len(queue'[s]) : i + 1 \in 1..Len(queue[s])
                                        /\ queue'[s][i] = queue[s][i + 1]
    BY DEF Shorter
  <1>2. Head(queue[s]) \in Event
    BY <1>1, Typed
  <1>3. FlushIn(s)' <=> FlushIn(s)
    BY <1>1 DEF FlushIn
  <1>4. FlushIn(s) => Len(queue'[s]) >= 1
    <2>1. SUFFICES ASSUME NEW i \in 1..Len(queue[s]), queue[s][i] = Flush
                   PROVE  Len(queue'[s]) >= 1
      BY DEF FlushIn
    <2>2. i - 1 \in 1..Len(queue'[s]) /\ Len(queue'[s]) \in Nat
      BY <1>1, <2>1 DEF Shorter
    <2> QED
      BY <2>2
  <1>5. ASSUME NEW n, InQueue(s, n) PROVE n = Head(queue[s]).n \/ InQueue(s, n)'
    BY <1>1, <1>5 DEF InQueue
  <1>6. ASSUME NEW n, Ahead(s, n) PROVE n = Head(queue[s]).n \/ Ahead(s, n)'
    <2>1. PICK i, j \in 1..Len(queue[s]) : i < j /\ queue[s][i].n = n /\ queue[s][j] = Flush
      BY <1>6 DEF Ahead
    <2>2. CASE i = 1
      BY <1>1, <2>1, <2>2
    <2>3. CASE i # 1
      <3>1. j # 1
        BY <2>1, <2>3
      <3>2. /\ i - 1 \in 1..Len(queue'[s]) /\ j - 1 \in 1..Len(queue'[s]) /\ i - 1 < j - 1
            /\ queue'[s][i - 1] = queue[s][i] /\ queue'[s][j - 1] = queue[s][j]
        BY <1>1, <2>1, <2>3, <3>1
      <3> QED
        BY <2>1, <3>2 DEF Ahead
    <2> QED
      BY <2>2, <2>3
  <1> QED
    BY <1>2, <1>3, <1>4, <1>5, <1>6

\* Pending and the length of the queue when an event is taken.
LEMMA PendingEvent ==
  ASSUME WriterOK, NEW s \in Session, Local(s), Shorter(s), Head(queue[s]) # Flush
  PROVE  /\ health[s].pending - 1 \in Nat
         /\ health[s].pending - 1 + Flushes(s) = Len(queue'[s]) + Len(batch[s]) + Held(s)
  <1>1. health[s].pending \in Nat /\ Len(batch[s]) \in Nat
    BY Typed
  <1>2. Len(queue[s]) = Len(queue'[s]) + 1 /\ Len(queue'[s]) \in Nat
    BY DEF Shorter
  <1>3. Held(s) \in Nat
    BY DEF Held
  <1>4. Flushes(s) \in Nat /\ Flushes(s) <= Len(queue'[s])
    BY <1>2, EventTaken DEF Flushes
  <1>5. PICK p \in Nat : p = health[s].pending
    BY <1>1
  <1>6. PICK q \in Nat : q = Len(queue'[s])
    BY <1>2
  <1>7. PICK b \in Nat : b = Len(batch[s])
    BY <1>1
  <1>8. PICK f \in Nat : f = Flushes(s)
    BY <1>4
  <1>9. PICK h \in Nat : h = Held(s)
    BY <1>3
  <1>10. p + f = (q + 1) + b + h /\ f <= q
    BY <1>2, <1>4, <1>5, <1>6, <1>7, <1>8, <1>9 DEF Local, CountInv
  <1>11. p - 1 \in Nat /\ p - 1 + f = q + b + h
    BY ONLY <1>10
  <1> QED
    BY <1>5, <1>6, <1>7, <1>8, <1>9, <1>11

\* The same when the flush is.
LEMMA PendingFlush ==
  ASSUME WriterOK, NEW s \in Session, Local(s), Shorter(s), Head(queue[s]) = Flush
  PROVE  health[s].pending + 0 = Len(queue'[s]) + Len(batch[s]) + Held(s)
  <1>1. health[s].pending \in Nat /\ Len(batch[s]) \in Nat
    BY Typed
  <1>2. Len(queue[s]) = Len(queue'[s]) + 1 /\ Len(queue'[s]) \in Nat
    BY DEF Shorter
  <1>3. Held(s) \in Nat
    BY DEF Held
  <1>4. Flushes(s) = 1
    BY FlushTaken DEF Flushes
  <1>5. PICK p \in Nat : p = health[s].pending
    BY <1>1
  <1>6. PICK q \in Nat : q = Len(queue'[s])
    BY <1>2
  <1>7. PICK b \in Nat : b = Len(batch[s])
    BY <1>1
  <1>8. PICK h \in Nat : h = Held(s)
    BY <1>3
  <1>9. p + 1 = (q + 1) + b + h
    BY <1>2, <1>4, <1>5, <1>6, <1>7, <1>8 DEF Local, CountInv
  <1>10. p + 0 = q + b + h
    BY ONLY <1>9
  <1> QED
    BY <1>5, <1>6, <1>7, <1>8, <1>10

\* A writer that could not start refuses what is queued.
LEMMA RefusesEvent ==
  ASSUME IInv, NEW s \in Session, step[s] = "refusing", queue[s] # <<>>,
         Head(queue[s]) # Flush, queue' = [queue EXCEPT ![s] = Tail(@)],
         health' = [health EXCEPT ![s].pending = @ - 1, ![s].dropped = @ + 1],
         UNCHANGED <<life, shown, issued, accepted, logging, flush, step, batch, ack, gone,
                     drops, recorded, failing, due, db, owner>>
  PROVE  IInv'
  <1>1. WriterOK /\ Local(s) /\ health[s].dropped \in Nat
    BY Typed DEF IInv
  <1>2. Shorter(s)
    BY <1>1, Taken
  <1>3. HandlerInv(s)' /\ OrderInv(s)'
        /\ \A i, j \in 1..Len(queue'[s]) : queue'[s][i] = Flush /\ queue'[s][j] = Flush => i = j
    BY <1>1, <1>2, Shortened
  <1>4. /\ health[s].pending - 1 \in Nat
        /\ health[s].pending - 1 + Flushes(s) = Len(queue'[s]) + Len(batch[s]) + Held(s)
    BY <1>1, <1>2, PendingEvent
  <1>5. Recounted(s, health[s].pending - 1, health[s].dropped + 1)
    <2>1. health[s].dropped + 1 \in Nat
      BY <1>1
    <2> QED
      BY <1>1, <1>4, <2>1, PendingAndDropped
  <1>6. FlushIn(s)' <=> FlushIn(s)
    BY <1>1, <1>2, EventTaken
  <1>7. WriterOK'
    <2>1. /\ health' \in [Session -> [ready : BOOLEAN, pending : Nat, enqueued : Nat,
                                      committed : Nat, dropped : Nat]]
          /\ queue' \in [Session -> Seq(Event \cup {Flush})]
          /\ \A t \in Session : Len(queue'[t]) <= Capacity
      BY <1>2, <1>5 DEF Shorter, Events, Recounted, Counters
    <2>2. UNCHANGED <<life, shown, issued, accepted, logging, flush, step, batch, ack, gone,
                      drops, recorded, failing, due, db, owner>>
      OBVIOUS
    <2> QED
      BY ONLY <1>1, <2>1, <2>2 DEF WriterOK
  <1>8. OthersKept(s)
    BY <1>2, <1>5 DEF OthersKept, Shorter, Recounted
  <1>9. Lost(s) /\ Lost(s)'
    BY DEF Lost
  <1>10. StepInv(s)' /\ PlaceInv(s)'
    BY <1>1, <1>9 DEF Local, StepInv, PlaceInv, Durable
  <1>11. CountInv(s)'
    <2>1. Flushes(s)' = Flushes(s) /\ Held(s)' = Held(s)
      BY <1>6 DEF Flushes, Held
    <2> QED
      BY <1>4, <1>5, <2>1 DEF CountInv, Recounted
  <1>12. FlushInv(s)'
    BY <1>1, <1>3, <1>6, <1>9 DEF Local, FlushInv, Durable
  <1> QED
    BY <1>3, <1>7, <1>8, <1>10, <1>11, <1>12, Assembles DEF Local, Running

LEMMA RefusesFlush ==
  ASSUME IInv, NEW s \in Session, step[s] = "refusing", queue[s] # <<>>,
         Head(queue[s]) = Flush, queue' = [queue EXCEPT ![s] = Tail(@)],
         Answered(s, "failed"),
         UNCHANGED <<life, shown, issued, accepted, logging, health, step, batch, ack, gone,
                     drops, recorded, failing, due, db, owner>>
  PROVE  IInv'
  <1>1. WriterOK /\ Local(s)
        /\ flush \in [Session -> [at : {"none", "sending", "waiting", "ok", "failed"},
                                  owed : SUBSET Nat]]
    BY DEF IInv, WriterOK
  <1>2. Shorter(s)
    BY <1>1, Taken
  <1>3. HandlerInv(s)' /\ OrderInv(s)'
        /\ \A i, j \in 1..Len(queue'[s]) : queue'[s][i] = Flush /\ queue'[s][j] = Flush => i = j
    BY <1>1, <1>2, Shortened
  <1>4. FlushIn(s) /\ ~FlushIn(s)'
    BY <1>1, <1>2, FlushTaken
  <1>5. /\ flush' \in [Session -> [at : {"none", "sending", "waiting", "ok", "failed"},
                                   owed : SUBSET Nat]]
        /\ flush'[s].owed = flush[s].owed
        /\ flush'[s].at = IF flush[s].at = "waiting" THEN "failed" ELSE flush[s].at
        /\ \A t \in Session \ {s} : flush'[t] = flush[t]
    BY <1>1 DEF Answered
  <1>6. WriterOK'
    <2>1. /\ queue' \in [Session -> Seq(Event \cup {Flush})]
          /\ \A t \in Session : Len(queue'[t]) <= Capacity
      BY <1>2 DEF Shorter, Events
    <2>2. UNCHANGED <<life, shown, issued, accepted, logging, health, step, batch, ack, gone,
                      drops, recorded, failing, due, db, owner>>
      OBVIOUS
    <2> QED
      BY ONLY <1>1, <1>5, <2>1, <2>2 DEF WriterOK
  <1>7. OthersKept(s)
    BY <1>2, <1>5 DEF OthersKept, Shorter
  <1>8. Lost(s) /\ Lost(s)'
    BY DEF Lost
  <1>9. StepInv(s)' /\ PlaceInv(s)'
    BY <1>1, <1>8 DEF Local, StepInv, PlaceInv, Durable
  <1>10. CountInv(s)'
    <2>1. Flushes(s)' = 0 /\ Held(s)' = Held(s)
      BY <1>4 DEF Flushes, Held
    <2> QED
      BY <1>1, <1>2, <2>1, PendingFlush DEF CountInv
  <1>11. FlushInv(s)'
    BY <1>1, <1>3, <1>4, <1>5, <1>8 DEF Local, FlushInv, Durable
  <1> QED
    BY <1>3, <1>6, <1>7, <1>9, <1>10, <1>11, Assembles DEF Local, Running

\* The writer receives.
LEMMA ReceivesEvent ==
  ASSUME IInv, NEW s \in Session, step[s] = "receive", Len(batch[s]) < BatchSize,
         queue[s] # <<>>, Head(queue[s]) # Flush, queue' = [queue EXCEPT ![s] = Tail(@)],
         batch' = [batch EXCEPT ![s] = Append(@, Head(queue[s]))],
         UNCHANGED <<life, shown, issued, accepted, logging, health, flush, step, ack, gone,
                     drops, recorded, failing, due, db, owner>>
  PROVE  IInv'
  <1>1. /\ WriterOK /\ Local(s) /\ batch \in [Session -> Seq(Event)]
        /\ \A t \in Session : Len(batch[t]) <= BatchSize
    BY DEF IInv, WriterOK
  <1>2. Shorter(s)
    BY <1>1, Taken
  <1>3. /\ Head(queue[s]) \in Event
        /\ FlushIn(s)' <=> FlushIn(s)
        /\ \A n : InQueue(s, n) => n = Head(queue[s]).n \/ InQueue(s, n)'
        /\ \A n : Ahead(s, n) => n = Head(queue[s]).n \/ Ahead(s, n)'
    BY <1>1, <1>2, EventTaken
  <1>4. PICK e \in Event : e = Head(queue[s])
    BY <1>3
  <1>5. /\ Len(queue'[s]) \in Nat /\ 1 \in 1..Len(queue[s]) /\ queue[s][1] = e /\ e # Flush
        /\ \A i \in 1..Len(queue'[s]) : /\ i + 1 \in 1..Len(queue[s]) /\ 1 < i + 1
                                        /\ queue'[s][i] = queue[s][i + 1]
    BY <1>2, <1>4 DEF Shorter
  <1>6. PICK b : b = Append(batch[s], e)
    OBVIOUS
  <1>7. /\ b \in Seq(Event) /\ Len(b) = Len(batch[s]) + 1 /\ Len(batch[s]) \in Nat
        /\ b[Len(batch[s]) + 1] = e /\ \A i \in 1..Len(batch[s]) : b[i] = batch[s][i]
    <2>1. batch[s] \in Seq(Event) /\ Len(batch[s]) \in Nat
      BY <1>1, Typed
    <2> QED
      BY <1>6, <2>1, AppendProperties
  <1>8. batch'[s] = b /\ \A t \in Session \ {s} : batch'[t] = batch[t]
    BY <1>1, <1>4, <1>6
  <1>9. /\ Len(batch'[s]) = Len(batch[s]) + 1
        /\ batch'[s][Len(batch'[s])] = e /\ Len(batch'[s]) \in 1..Len(batch'[s])
        /\ \A i \in 1..Len(batch[s]) : /\ i \in 1..Len(batch'[s]) /\ i < Len(batch'[s])
                                       /\ batch'[s][i] = batch[s][i]
        /\ \A i \in 1..Len(batch'[s]) : i = Len(batch'[s]) \/ i \in 1..Len(batch[s])
    BY <1>7, <1>8
  <1>10. WriterOK'
    <2>1. /\ queue' \in [Session -> Seq(Event \cup {Flush})]
          /\ \A t \in Session : Len(queue'[t]) <= Capacity
      BY <1>2 DEF Shorter, Events
    <2>2. batch' \in [Session -> Seq(Event)]
      BY <1>1, <1>7, <1>8
    <2>3. \A t \in Session : Len(batch'[t]) <= BatchSize
      <3>1. BatchSize \in Nat
        BY ConstantsOK
      <3> QED
        BY <1>1, <1>7, <1>8, <3>1
    <2>4. UNCHANGED <<life, shown, issued, accepted, logging, health, flush, step, ack, gone,
                      drops, recorded, failing, due, db, owner>>
      OBVIOUS
    <2> QED
      BY ONLY <1>1, <2>1, <2>2, <2>3, <2>4 DEF WriterOK
  <1>11. OthersKept(s)
    BY <1>2, <1>8 DEF OthersKept, Shorter
  <1>12. HandlerInv(s)'
    <2>1. Past(s)' = Past(s)
      BY DEF Past
    <2>2. \A i \in 1..Len(queue'[s]) : queue'[s][i].n \in Past(s)
      BY <1>1, <1>5 DEF Local, HandlerInv
    <2>3. \A i \in 1..Len(batch'[s]) : batch'[s][i].n \in Past(s)
      BY <1>1, <1>5, <1>9 DEF Local, HandlerInv
    <2> QED
      BY <1>1, <2>1, <2>2, <2>3 DEF Local, HandlerInv
  <1>13. OrderInv(s)'
    <2>1. \A i, j \in 1..Len(queue'[s]) :
            i < j /\ queue'[s][j] # Flush => queue'[s][i].n < queue'[s][j].n
      <3>1. \A i, j \in 1..Len(queue'[s]) : i < j => i + 1 < j + 1
        BY <1>5
      <3> QED
        BY <1>1, <1>5, <3>1 DEF Local, OrderInv
    <2>2. \A i, j \in 1..Len(batch'[s]) : i < j => batch'[s][i].n < batch'[s][j].n
      <3>1. SUFFICES ASSUME NEW i \in 1..Len(batch'[s]), NEW j \in 1..Len(batch'[s]), i < j
                     PROVE  batch'[s][i].n < batch'[s][j].n
        OBVIOUS
      <3>2. i \in 1..Len(batch[s])
        BY <1>7, <1>9, <3>1
      <3>3. CASE j = Len(batch'[s])
        BY <1>1, <1>5, <1>9, <3>2, <3>3 DEF Local, OrderInv
      <3>4. CASE j \in 1..Len(batch[s])
        BY <1>1, <1>9, <3>1, <3>2, <3>4 DEF Local, OrderInv
      <3> QED
        BY <1>9, <3>3, <3>4
    <2>3. \A i \in 1..Len(batch'[s]), j \in 1..Len(queue'[s]) :
            queue'[s][j] # Flush => batch'[s][i].n < queue'[s][j].n
      <3>1. SUFFICES ASSUME NEW i \in 1..Len(batch'[s]), NEW j \in 1..Len(queue'[s]),
                            queue'[s][j] # Flush
                     PROVE  batch'[s][i].n < queue'[s][j].n
        OBVIOUS
      <3>2. OrderInv(s)
        BY <1>1 DEF Local
      <3>3. /\ j + 1 \in 1..Len(queue[s]) /\ 1 < j + 1 /\ queue'[s][j] = queue[s][j + 1]
            /\ queue[s][j + 1] # Flush
        BY <1>5, <3>1
      <3>4. CASE i = Len(batch'[s])
        BY ONLY <1>5, <1>9, <3>2, <3>3, <3>4 DEF OrderInv
      <3>5. CASE i \in 1..Len(batch[s])
        BY ONLY <1>9, <3>2, <3>3, <3>5 DEF OrderInv
      <3> QED
        BY <1>9, <3>4, <3>5
    <2>4. \A k \in 1..Len(db.timeline) : db.timeline[k].ses = s =>
            /\ \A j \in 1..Len(queue'[s]) :
                 queue'[s][j] # Flush => db.timeline[k].n < queue'[s][j].n
            /\ \A i \in 1..Len(batch'[s]) : db.timeline[k].n < batch'[s][i].n
      <3>1. SUFFICES ASSUME NEW k \in 1..Len(db.timeline), db.timeline[k].ses = s
                     PROVE  /\ \A j \in 1..Len(queue'[s]) :
                                 queue'[s][j] # Flush => db.timeline[k].n < queue'[s][j].n
                            /\ \A i \in 1..Len(batch'[s]) : db.timeline[k].n < batch'[s][i].n
        OBVIOUS
      <3>2. /\ \A j \in 1..Len(queue[s]) : queue[s][j] # Flush => db.timeline[k].n < queue[s][j].n
            /\ \A i \in 1..Len(batch[s]) : db.timeline[k].n < batch[s][i].n
        BY <1>1, <3>1 DEF Local, OrderInv
      <3>3. \A j \in 1..Len(queue'[s]) : queue'[s][j] # Flush => db.timeline[k].n < queue'[s][j].n
        BY ONLY <1>5, <3>2
      <3>4. \A i \in 1..Len(batch'[s]) : db.timeline[k].n < batch'[s][i].n
        BY ONLY <1>5, <1>9, <3>2
      <3> QED
        BY <3>3, <3>4
    <2> QED
      BY <2>1, <2>2, <2>3, <2>4 DEF OrderInv
  <1>14. /\ \A n : /\ Durable(s, n)' <=> Durable(s, n)
                   /\ InBatch(s, n) => InBatch(s, n)'
                   /\ InQueue(s, n) => InBatch(s, n)' \/ InQueue(s, n)'
                   /\ Ahead(s, n) => InBatch(s, n)' \/ Ahead(s, n)'
         /\ Lost(s)' <=> Lost(s)
    <2>1. InBatch(s, e.n)'
      BY <1>9 DEF InBatch
    <2>2. \A n : InBatch(s, n) => InBatch(s, n)'
      BY <1>9 DEF InBatch
    <2> QED
      BY <1>3, <1>4, <2>1, <2>2 DEF Durable, Lost
  <1>15. StepInv(s)' /\ PlaceInv(s)'
    <2>1. PlaceInv(s)'
      <3>1. \A n \in accepted[s] : Durable(s, n) \/ InBatch(s, n) \/ InQueue(s, n) \/ Lost(s)
        BY <1>1 DEF Local, PlaceInv
      <3>2. \A n \in 1..issued[s] : \/ n \in accepted[s] \/ health[s].dropped > 0 \/ Lost(s)
                                    \/ /\ logging[s].at \in {"send", "refused", "uncounted"}
                                       /\ n = issued[s]
        BY <1>1 DEF Local, PlaceInv
      <3>3. UNCHANGED <<accepted, issued, health, logging>>
        OBVIOUS
      <3> QED
        BY ONLY <1>14, <3>1, <3>2, <3>3 DEF PlaceInv
    <2>2. StepInv(s)'
      <3>1. step'[s] = "receive" /\ life'[s] = life[s] /\ step[s] = "receive"
        OBVIOUS
      <3>2. life[s] # "new" /\ life[s] # "dead"
        BY <1>1, <3>1 DEF Local, StepInv
      <3> QED
        BY ONLY <3>1, <3>2 DEF StepInv
    <2> QED
      BY <2>1, <2>2
  <1>16. CountInv(s)'
    <2>1. Flushes(s)' = Flushes(s) /\ Held(s)' = Held(s) /\ Held(s) \in Nat
      BY <1>3 DEF Flushes, Held
    <2>2. PICK q \in Nat : q = Len(queue'[s])
      BY <1>5
    <2>3. PICK m \in Nat : m = Len(batch[s])
      BY <1>7
    <2>4. PICK h \in Nat : h = Held(s)
      BY <2>1
    <2>5. Len(queue[s]) = q + 1
      BY <1>2, <2>2 DEF Shorter
    <2>6. (q + 1) + m + h = q + (m + 1) + h
      BY ONLY TRUE
    <2>7. health[s].pending + Flushes(s) = (q + 1) + m + h
      BY <1>1, <2>3, <2>4, <2>5 DEF Local, CountInv
    <2> QED
      BY <1>9, <2>1, <2>2, <2>3, <2>4, <2>6, <2>7 DEF CountInv
  <1>17. FlushInv(s)'
    <2>1. \A i, j \in 1..Len(queue'[s]) : queue'[s][i] = Flush /\ queue'[s][j] = Flush => i = j
      <3>1. ASSUME NEW i \in 1..Len(queue'[s]), NEW j \in 1..Len(queue'[s]),
                   queue'[s][i] = Flush, queue'[s][j] = Flush
            PROVE  i = j
        <4>1. \A k, l \in 1..Len(queue[s]) : queue[s][k] = Flush /\ queue[s][l] = Flush => k = l
          BY <1>1 DEF Local, FlushInv
        <4>2. /\ i + 1 \in 1..Len(queue[s]) /\ queue[s][i + 1] = Flush
              /\ j + 1 \in 1..Len(queue[s]) /\ queue[s][j + 1] = Flush
          BY <1>5, <3>1
        <4>3. i + 1 = j + 1
          BY ONLY <4>1, <4>2
        <4> QED
          BY ONLY <4>3, i \in Int, j \in Int
      <3> QED
        BY <3>1
    <2> QED
      BY <1>1, <1>3, <1>14, <2>1 DEF Local, FlushInv
  <1> QED
    BY <1>10, <1>11, <1>12, <1>13, <1>15, <1>16, <1>17, Assembles DEF Local, Running

LEMMA ReceivesFlush ==
  ASSUME IInv, NEW s \in Session, step[s] = "receive", queue[s] # <<>>,
         Head(queue[s]) = Flush, queue' = [queue EXCEPT ![s] = Tail(@)],
         ack' = [ack EXCEPT ![s] = TRUE],
         UNCHANGED <<life, shown, issued, accepted, logging, health, flush, step, batch, gone,
                     drops, recorded, failing, due, db, owner>>
  PROVE  IInv'
  <1>1. WriterOK /\ Local(s) /\ ack \in [Session -> BOOLEAN]
    BY DEF IInv, WriterOK
  <1>2. Shorter(s)
    BY <1>1, Taken
  <1>3. HandlerInv(s)' /\ OrderInv(s)'
        /\ \A i, j \in 1..Len(queue'[s]) : queue'[s][i] = Flush /\ queue'[s][j] = Flush => i = j
    BY <1>1, <1>2, Shortened
  <1>4. FlushIn(s) /\ ~FlushIn(s)' /\ \A n : ~Ahead(s, n)
    BY <1>1, <1>2, FlushTaken
  <1>5. ack' \in [Session -> BOOLEAN] /\ \A t \in Session \ {s} : ack'[t] = ack[t]
    BY <1>1
  <1>6. WriterOK'
    <2>1. /\ queue' \in [Session -> Seq(Event \cup {Flush})]
          /\ \A t \in Session : Len(queue'[t]) <= Capacity
      BY <1>2 DEF Shorter, Events
    <2>2. UNCHANGED <<life, shown, issued, accepted, logging, health, flush, step, batch, gone,
                      drops, recorded, failing, due, db, owner>>
      OBVIOUS
    <2> QED
      BY ONLY <1>1, <1>5, <2>1, <2>2 DEF WriterOK
  <1>7. OthersKept(s)
    BY <1>2, <1>5 DEF OthersKept, Shorter
  <1>8. /\ \A n : /\ Durable(s, n)' <=> Durable(s, n)
                  /\ InBatch(s, n)' <=> InBatch(s, n)
                  /\ InQueue(s, n) => n = 0 \/ InQueue(s, n)'
        /\ Lost(s)' <=> Lost(s)
    <2>1. ASSUME NEW n, InQueue(s, n) PROVE n = 0 \/ InQueue(s, n)'
      <3>1. PICK i \in 1..Len(queue[s]) : queue[s][i].n = n
        BY <2>1 DEF InQueue
      <3>2. CASE i = 1
        BY <1>2, <3>1, <3>2 DEF Shorter, Flush
      <3>3. CASE i # 1
        BY <1>2, <3>1, <3>3 DEF Shorter, InQueue
      <3> QED
        BY <3>2, <3>3
    <2> QED
      BY <2>1 DEF Durable, InBatch, Lost
  <1>9. StepInv(s)' /\ PlaceInv(s)'
    <2>1. PlaceInv(s)'
      BY <1>1, <1>8 DEF Local, PlaceInv, HandlerInv
    <2>2. StepInv(s)'
      BY <1>1 DEF Local, StepInv
    <2> QED
      BY <2>1, <2>2
  <1>10. CountInv(s)'
    <2>1. Flushes(s)' = 0 /\ Held(s)' = Held(s)
      BY <1>4 DEF Flushes, Held
    <2> QED
      BY <1>1, <1>2, <2>1, PendingFlush DEF CountInv
  <1>11. FlushInv(s)'
    BY <1>1, <1>3, <1>4, <1>8 DEF Local, FlushInv
  <1> QED
    BY <1>3, <1>6, <1>7, <1>9, <1>10, <1>11, Assembles DEF Local, Running

\* It notices the end of the channel, or has received enough.
LEMMA Pauses ==
  ASSUME IInv, NEW s \in Session,
         UNCHANGED <<life, shown, issued, accepted, logging, queue, health, flush, batch, ack,
                     recorded, failing, due, db, owner>>,
         \/ /\ gone' = [gone EXCEPT ![s] = TRUE] /\ UNCHANGED <<step, drops>>
         \/ /\ step[s] = "receive" /\ step' = [step EXCEPT ![s] = "decide"]
            /\ drops' = [drops EXCEPT ![s] = health[s].dropped] /\ UNCHANGED gone
         \/ /\ step[s] = "refusing" /\ life[s] = "closed"
            /\ step' = [step EXCEPT ![s] = "abandoned"] /\ UNCHANGED <<gone, drops>>
  PROVE  IInv'
  <1>1. /\ WriterOK /\ Local(s) /\ health[s].dropped \in Nat
        /\ gone \in [Session -> BOOLEAN] /\ drops \in [Session -> Nat]
        /\ step \in [Session -> {"init", "refusing", "receive", "decide",
                                 "committed", "answer", "stopped", "abandoned"}]
    BY Typed DEF IInv, WriterOK
  <1>2. /\ gone' \in [Session -> BOOLEAN] /\ drops' \in [Session -> Nat]
        /\ step' \in [Session -> {"init", "refusing", "receive", "decide",
                                  "committed", "answer", "stopped", "abandoned"}]
        /\ \A t \in Session \ {s} : step'[t] = step[t]
        /\ \/ step'[s] = step[s]
           \/ step[s] = "receive" /\ step'[s] = "decide"
           \/ step[s] = "refusing" /\ life[s] = "closed" /\ step'[s] = "abandoned"
    BY <1>1
  <1>3. UNCHANGED <<life, shown, issued, accepted, logging, queue, health, flush, batch, ack,
                    recorded, failing, due, db, owner>>
    OBVIOUS
  <1>4. WriterOK'
    BY ONLY <1>1, <1>2, <1>3 DEF WriterOK
  <1>5. OthersKept(s)
    BY <1>2, <1>3 DEF OthersKept
  <1>6. Still(s)
    <2>1. Lost(s) => Lost(s)'
      BY <1>2, <1>3 DEF Lost
    <2> QED
      BY <1>1, <1>2, <1>3, <2>1, Typed DEF Still
  <1>7. StepInv(s)'
    <2>1. \A n : Durable(s, n)' <=> Durable(s, n)
      BY <1>3 DEF Durable
    <2>2. StepInv(s) /\ life'[s] = life[s] /\ batch'[s] = batch[s]
      BY <1>1, <1>3 DEF Local
    <2> QED
      BY ONLY <1>2, <2>1, <2>2 DEF StepInv
  <1>8. /\ Running(s)' => Running(s)
        /\ step[s] \notin {"init", "refusing"} => step'[s] \notin {"init", "refusing"}
        /\ step[s] \in {"stopped", "abandoned"} => step'[s] \in {"stopped", "abandoned"}
    BY <1>2 DEF Running
  <1> QED
    BY <1>3, <1>4, <1>5, <1>6, <1>7, <1>8, Settles

------------------------------------------------------------------------------
\* The end of the writer's round, and of the session

\* What was committed is counted, and forgotten.
LEMMA Settled ==
  ASSUME IInv, NEW s \in Session, Committed(s)
  PROVE  IInv'
  <1>1. /\ step[s] = "committed"
        /\ health' = [health EXCEPT ![s].pending = @ - Len(batch[s]),
                                    ![s].committed = @ + Len(batch[s])]
        /\ failing' = [failing EXCEPT ![s] = "no"]
        /\ recorded' = [recorded EXCEPT ![s] = drops[s]]
        /\ batch' = [batch EXCEPT ![s] = <<>>]
        /\ step' = [step EXCEPT ![s] = "answer"]
        /\ UNCHANGED <<life, shown, issued, accepted, logging, queue, flush, ack, gone, drops,
                       due, db, owner>>
    BY DEF Committed, handlers
  <1>2. /\ WriterOK /\ Local(s)
        /\ batch \in [Session -> Seq(Event)] /\ \A t \in Session : Len(batch[t]) <= BatchSize
        /\ step \in [Session -> {"init", "refusing", "receive", "decide",
                                 "committed", "answer", "stopped", "abandoned"}]
        /\ health[s].pending \in Nat /\ health[s].committed \in Nat
        /\ Len(batch[s]) \in Nat /\ Len(queue[s]) \in Nat
    BY Typed DEF IInv, WriterOK
  <1>3. /\ health[s].pending - Len(batch[s]) \in Nat
        /\ health[s].pending - Len(batch[s]) + Flushes(s) = Len(queue[s]) + 0 + Held(s)
    <2>1. Held(s) \in Nat
      BY DEF Held
    <2>2. FlushIn(s) => Len(queue[s]) >= 1
      BY <1>2 DEF FlushIn
    <2>3. Flushes(s) \in Nat /\ Flushes(s) <= Len(queue[s])
      BY <1>2, <2>2 DEF Flushes
    <2>4. PICK p \in Nat : p = health[s].pending
      BY <1>2
    <2>5. PICK q \in Nat : q = Len(queue[s])
      BY <1>2
    <2>6. PICK b \in Nat : b = Len(batch[s])
      BY <1>2
    <2>7. PICK f \in Nat : f = Flushes(s)
      BY <2>3
    <2>8. PICK h \in Nat : h = Held(s)
      BY <2>1
    <2>9. p + f = q + b + h /\ f <= q
      BY <1>2, <2>3, <2>4, <2>5, <2>6, <2>7, <2>8 DEF Local, CountInv
    <2>10. p - b \in Nat /\ p - b + f = q + 0 + h
      BY ONLY <2>9
    <2> QED
      BY <2>4, <2>5, <2>6, <2>7, <2>8, <2>10
  <1>4. Recounted(s, health[s].pending - Len(batch[s]), health[s].dropped)
    <2>1. health[s].committed + Len(batch[s]) \in Nat
      BY <1>2
    <2>2. health' = [health EXCEPT ![s].pending = health[s].pending - Len(batch[s]),
                                   ![s].committed = health[s].committed + Len(batch[s])]
      BY <1>1
    <2> QED
      BY <1>2, <1>3, <2>1, <2>2, PendingAndCommitted
  <1>5. batch'[s] = <<>> /\ Len(batch'[s]) = 0
        /\ \A t \in Session \ {s} : batch'[t] = batch[t]
    BY <1>1, <1>2
  <1>6. step'[s] = "answer" /\ \A t \in Session \ {s} : step'[t] = step[t]
    BY <1>1, <1>2
  <1>7. WriterOK'
    <2>1. health' \in [Session -> [ready : BOOLEAN, pending : Nat, enqueued : Nat,
                                   committed : Nat, dropped : Nat]]
      BY <1>4 DEF Recounted, Counters
    <2>2. /\ failing' \in [Session -> {"no", "recently", "long"}]
          /\ recorded' \in [Session -> Nat]
      BY <1>1, <1>2 DEF WriterOK
    <2>3. batch' \in [Session -> Seq(Event)]
      BY <1>1, <1>2
    <2>4. \A t \in Session : Len(batch'[t]) <= BatchSize
      <3>1. BatchSize \in Nat
        BY ConstantsOK
      <3> QED
        BY <1>2, <1>5, <3>1
    <2>5. step' \in [Session -> {"init", "refusing", "receive", "decide",
                                 "committed", "answer", "stopped", "abandoned"}]
      BY <1>1, <1>2
    <2> QED
      BY ONLY <1>1, <1>2, <2>1, <2>2, <2>3, <2>4, <2>5 DEF WriterOK
  <1>8. OthersKept(s)
    BY <1>1, <1>4, <1>5, <1>6 DEF OthersKept, Recounted
  <1>9. HandlerInv(s)' /\ OrderInv(s)'
    <2>1. Past(s)' = Past(s)
      BY <1>1 DEF Past
    <2>2. HandlerInv(s)'
      BY <1>1, <1>2, <1>5, <2>1 DEF Local, HandlerInv
    <2>3. OrderInv(s)'
      BY <1>1, <1>2, <1>5 DEF Local, OrderInv
    <2> QED
      BY <2>2, <2>3
  <1>10. /\ \A n : /\ Durable(s, n)' <=> Durable(s, n)
                   /\ InBatch(s, n) => Durable(s, n)
                   /\ InQueue(s, n)' <=> InQueue(s, n)
                   /\ Ahead(s, n)' <=> Ahead(s, n)
         /\ Lost(s)' <=> Lost(s)
         /\ FlushIn(s)' <=> FlushIn(s)
    <2>1. \A n : InBatch(s, n) => Durable(s, n)
      BY <1>1, <1>2 DEF Local, StepInv, InBatch
    <2> QED
      BY <1>1, <1>6, <2>1 DEF Durable, InQueue, Ahead, Lost, FlushIn
  <1>11. StepInv(s)'
    BY <1>1, <1>2, <1>5, <1>6 DEF Local, StepInv
  <1>12. PlaceInv(s)'
    BY <1>1, <1>2, <1>4, <1>10 DEF Local, PlaceInv, Recounted
  <1>13. CountInv(s)'
    <2>1. Flushes(s)' = Flushes(s) /\ Held(s)' = Held(s)
      BY <1>1, <1>10 DEF Flushes, Held
    <2> QED
      BY <1>1, <1>3, <1>4, <1>5, <2>1 DEF CountInv, Recounted
  <1>14. FlushInv(s)'
    BY <1>1, <1>2, <1>10 DEF Local, FlushInv
  <1>15. Running(s)
    BY <1>1 DEF Running
  <1> QED
    BY <1>1, <1>6, <1>7, <1>8, <1>9, <1>11, <1>12, <1>13, <1>14, <1>15, Assembles DEF Local

\* The round is over: a flush that is answered has nothing left to wait for.
LEMMA Answers ==
  ASSUME IInv, NEW s \in Session, Answer(s)
  PROVE  IInv'
  <1>1. /\ step[s] \in {"answer", "decide"} /\ (step[s] = "decide" => batch[s] = <<>>)
        /\ ack' = [ack EXCEPT ![s] = FALSE]
        /\ due' = [due EXCEPT ![s] = FALSE]
        /\ \/ step' = [step EXCEPT ![s] = "stopped"] /\ owner' = Free
           \/ step' = [step EXCEPT ![s] = "receive"] /\ owner' = owner
        /\ UNCHANGED <<life, shown, issued, accepted, logging, queue, health, batch, gone, drops,
                       recorded, failing, db>>
    BY DEF Answer, handlers, HasWork
  <1>2. \/ ack[s] /\ flush[s].at = "waiting" /\ flush' = [flush EXCEPT ![s].at = "ok"]
        \/ ~ack[s] /\ flush' = flush
        \/ flush[s].at # "waiting" /\ flush' = flush
    BY DEF Answer, Answered
  <1>3. /\ WriterOK /\ Local(s)
        /\ ack \in [Session -> BOOLEAN] /\ due \in [Session -> BOOLEAN]
        /\ step \in [Session -> {"init", "refusing", "receive", "decide",
                                 "committed", "answer", "stopped", "abandoned"}]
        /\ flush \in [Session -> [at : {"none", "sending", "waiting", "ok", "failed"},
                                  owed : SUBSET Nat]]
    BY DEF IInv, WriterOK
  <1>4. /\ ack' \in [Session -> BOOLEAN] /\ due' \in [Session -> BOOLEAN]
        /\ step' \in [Session -> {"init", "refusing", "receive", "decide",
                                  "committed", "answer", "stopped", "abandoned"}]
        /\ flush' \in [Session -> [at : {"none", "sending", "waiting", "ok", "failed"},
                                   owed : SUBSET Nat]]
        /\ owner' \in Session \cup {Free}
        /\ ~ack'[s] /\ step'[s] \in {"stopped", "receive"}
        /\ \A t \in Session \ {s} : /\ step'[t] = step[t] /\ ack'[t] = ack[t]
                                    /\ flush'[t] = flush[t]
    <2>1. flush' \in [Session -> [at : {"none", "sending", "waiting", "ok", "failed"},
                                  owed : SUBSET Nat]]
          /\ \A t \in Session \ {s} : flush'[t] = flush[t]
      BY <1>2, <1>3
    <2>2. owner' \in Session \cup {Free}
      BY <1>1, <1>3 DEF WriterOK
    <2> QED
      BY <1>1, <1>3, <2>1, <2>2
  <1>5. WriterOK'
    BY ONLY <1>1, <1>3, <1>4 DEF WriterOK
  <1>6. OthersKept(s)
    BY <1>1, <1>4 DEF OthersKept
  <1>7. batch[s] = <<>>
    BY <1>1, <1>3 DEF Local, StepInv
  <1>8. ~Lost(s)
    BY <1>1, <1>3 DEF Lost, Local, StepInv
  <1>9. /\ \A n : /\ Durable(s, n)' <=> Durable(s, n)
                  /\ InBatch(s, n)' <=> InBatch(s, n)
                  /\ ~InBatch(s, n)
                  /\ InQueue(s, n)' <=> InQueue(s, n)
                  /\ Ahead(s, n)' <=> Ahead(s, n)
                  /\ Ahead(s, n) => FlushIn(s)
        /\ FlushIn(s)' <=> FlushIn(s)
    <2>1. Len(batch[s]) = 0
      BY <1>7
    <2> QED
      BY <1>1, <2>1 DEF Durable, InBatch, InQueue, Ahead, FlushIn
  <1>10. HandlerInv(s)' /\ OrderInv(s)' /\ CountInv(s)'
    <2>1. Past(s)' = Past(s)
      BY <1>1 DEF Past
    <2>2. HandlerInv(s)'
      BY <1>1, <1>3, <2>1 DEF Local, HandlerInv
    <2>3. OrderInv(s)'
      BY <1>1, <1>3 DEF Local, OrderInv
    <2>4. CountInv(s)'
      BY <1>1, <1>3, <1>9 DEF Local, CountInv, Flushes, Held
    <2> QED
      BY <2>2, <2>3, <2>4
  <1>11. StepInv(s)'
    <2>1. life[s] # "new" /\ life[s] # "dead"
      BY <1>1, <1>3 DEF Local, StepInv
    <2> QED
      BY <1>1, <1>4, <2>1 DEF StepInv
  <1>12. PlaceInv(s)'
    BY <1>1, <1>3, <1>8, <1>9 DEF Local, PlaceInv
  <1>13. FlushInv(s)'
    <2>1. ack[s] /\ flush[s].at = "waiting" => \A n \in flush[s].owed : Durable(s, n)
      BY <1>3, <1>8, <1>9 DEF Local, FlushInv
    <2>2. flush'[s].owed = flush[s].owed
          /\ \/ flush'[s].at = flush[s].at
             \/ ack[s] /\ flush[s].at = "waiting" /\ flush'[s].at = "ok"
      BY <1>2, <1>3
    <2>3. FlushInv(s)
      BY <1>3 DEF Local
    <2>4. queue'[s] = queue[s] /\ accepted'[s] = accepted[s]
      BY <1>1
    <2> QED
      BY ONLY <1>4, <1>9, <2>1, <2>2, <2>3, <2>4, <1>8 DEF FlushInv
  <1>14. Running(s) /\ owner = s /\ \A t \in Session \ {s} : ~Running(t)
    <2>1. Running(s)
      BY <1>1 DEF Running
    <2> QED
      BY <2>1 DEF IInv, LockInv
  <1>15. /\ Running(s)' => owner' = owner
         /\ step'[s] \notin {"init", "refusing"}
    BY <1>1, <1>3 DEF Running
  <1>16. step[s] \notin {"stopped", "abandoned"}
    BY <1>1
  <1> QED
    BY <1>1, <1>5, <1>6, <1>10, <1>11, <1>12, <1>13, <1>14, <1>15, <1>16, Assembles DEF Local

\* The process dies.
LEMMA Dies ==
  ASSUME IInv, NEW s \in Session, Crash(s)
  PROVE  IInv'
  <1>1. /\ life[s] \in {"up", "closed"}
        /\ life' = [life EXCEPT ![s] = "dead"]
        /\ shown' = [shown EXCEPT ![s] = [r \in Request |-> "none"]]
        /\ logging' = [logging EXCEPT ![s] = [at |-> "idle", event |-> NoEvent]]
        /\ queue' = [queue EXCEPT ![s] = <<>>]
        /\ health' = [health EXCEPT ![s] = Fresh]
        /\ step' = [step EXCEPT ![s] = "stopped"]
        /\ batch' = [batch EXCEPT ![s] = <<>>]
        /\ ack' = [ack EXCEPT ![s] = FALSE] /\ gone' = [gone EXCEPT ![s] = FALSE]
        /\ drops' = [drops EXCEPT ![s] = 0] /\ recorded' = [recorded EXCEPT ![s] = 0]
        /\ failing' = [failing EXCEPT ![s] = "no"] /\ due' = [due EXCEPT ![s] = FALSE]
        /\ owner' = IF owner = s THEN Free ELSE owner
        /\ UNCHANGED <<issued, accepted, flush, db>>
    BY DEF Crash
  <1>2. WriterOK /\ Local(s) /\ issued[s] \in Nat
    BY Typed DEF IInv
  <1>3. /\ Fresh \in Counters /\ Fresh.pending = 0
    BY DEF Fresh, Counters
  <1>4. /\ life \in [Session -> {"new", "up", "closed", "dead"}]
        /\ shown \in [Session -> [Request -> State \cup {"none"}]]
        /\ logging \in [Session -> [at : {"idle", "send", "sent", "refused", "uncounted"},
                                    event : Event \cup {NoEvent}]]
        /\ queue \in [Session -> Seq(Event \cup {Flush})]
        /\ \A t \in Session : Len(queue[t]) <= Capacity
        /\ health \in [Session -> Counters]
        /\ step \in [Session -> {"init", "refusing", "receive", "decide",
                                 "committed", "answer", "stopped", "abandoned"}]
        /\ batch \in [Session -> Seq(Event)]
        /\ \A t \in Session : Len(batch[t]) <= BatchSize
        /\ ack \in [Session -> BOOLEAN] /\ gone \in [Session -> BOOLEAN]
        /\ drops \in [Session -> Nat] /\ recorded \in [Session -> Nat]
        /\ failing \in [Session -> {"no", "recently", "long"}] /\ due \in [Session -> BOOLEAN]
    BY <1>2 DEF WriterOK, Counters
  <1>5. /\ life'[s] = "dead" /\ logging'[s].at = "idle" /\ queue'[s] = <<>> /\ batch'[s] = <<>>
        /\ step'[s] = "stopped" /\ ~ack'[s]
        /\ Len(queue'[s]) = 0 /\ Len(batch'[s]) = 0
    BY <1>1, <1>4
  <1>6. health'[s].pending = 0
    BY <1>1, <1>3, <1>4
  <1>7. OthersKept(s)
    BY <1>1, <1>4 DEF OthersKept
  <1>8. WriterOK'
    <2>1. /\ life' \in [Session -> {"new", "up", "closed", "dead"}]
          /\ shown' \in [Session -> [Request -> State \cup {"none"}]]
          /\ step' \in [Session -> {"init", "refusing", "receive", "decide",
                                    "committed", "answer", "stopped", "abandoned"}]
          /\ ack' \in [Session -> BOOLEAN] /\ gone' \in [Session -> BOOLEAN]
          /\ drops' \in [Session -> Nat] /\ recorded' \in [Session -> Nat]
          /\ failing' \in [Session -> {"no", "recently", "long"}]
          /\ due' \in [Session -> BOOLEAN]
      BY <1>1, <1>4
    <2>2. logging' \in [Session -> [at : {"idle", "send", "sent", "refused", "uncounted"},
                                    event : Event \cup {NoEvent}]]
      BY <1>1, <1>4
    <2>3. queue' \in [Session -> Seq(Event \cup {Flush})] /\ batch' \in [Session -> Seq(Event)]
      BY <1>1, <1>4
    <2>4. \A t \in Session : Len(queue'[t]) <= Capacity /\ Len(batch'[t]) <= BatchSize
      <3>1. BatchSize \in Nat /\ Capacity \in Nat
        BY ConstantsOK
      <3>2. Len(queue'[s]) <= Capacity /\ Len(batch'[s]) <= BatchSize
        BY <1>5, <3>1
      <3>3. ASSUME NEW t \in Session \ {s}
            PROVE  Len(queue'[t]) <= Capacity /\ Len(batch'[t]) <= BatchSize
        <4>1. Len(queue[t]) <= Capacity /\ Len(batch[t]) <= BatchSize
          BY <1>4 DEF WriterOK
        <4>2. queue'[t] = queue[t] /\ batch'[t] = batch[t]
          BY <1>7 DEF OthersKept
        <4> QED
          BY <4>1, <4>2
      <3> QED
        BY <3>2, <3>3
    <2>5. health' \in [Session -> [ready : BOOLEAN, pending : Nat, enqueued : Nat,
                                   committed : Nat, dropped : Nat]]
      BY <1>1, <1>3, <1>4 DEF Counters
    <2>6. owner' \in Session \cup {Free}
      BY <1>1, <1>2 DEF WriterOK
    <2>7. UNCHANGED <<issued, accepted, flush, db>>
      BY <1>1
    <2> QED
      BY ONLY <1>2, <2>1, <2>2, <2>3, <2>4, <2>5, <2>6, <2>7 DEF WriterOK
  <1>9. HandlerInv(s)' /\ OrderInv(s)'
    <2>1. \A n \in Past(s) : n \in Past(s)'
      BY <1>1, <1>5 DEF Past
    <2>2. HandlerInv(s)'
      BY <1>1, <1>2, <1>5, <2>1 DEF Local, HandlerInv
    <2>3. OrderInv(s)'
      BY <1>1, <1>2, <1>5 DEF Local, OrderInv
    <2> QED
      BY <2>2, <2>3
  <1>10. StepInv(s)' /\ PlaceInv(s)'
    <2>1. Lost(s)'
      BY <1>5 DEF Lost
    <2> QED
      BY <1>5, <2>1 DEF StepInv, PlaceInv
  <1>11. ~FlushIn(s)' /\ Lost(s)'
    BY <1>5 DEF FlushIn, Lost
  <1>12. CountInv(s)'
    <2>1. Flushes(s)' = 0 /\ Held(s)' = 0
      BY <1>5, <1>11 DEF Flushes, Held
    <2> QED
      BY <1>5, <1>6, <2>1 DEF CountInv
  <1>13. FlushInv(s)'
    <2>1. \A n : Durable(s, n)' <=> Durable(s, n)
      BY <1>1 DEF Durable
    <2> QED
      BY <1>1, <1>2, <1>5, <1>11, <2>1 DEF Local, FlushInv
  <1>14. \A t \in Session \ {s} : Running(t) => owner' = owner
    BY <1>1 DEF IInv, LockInv
  <1>15. ~Running(s)'
    BY <1>5 DEF Running
  <1> QED
    BY <1>1, <1>5, <1>7, <1>8, <1>9, <1>10, <1>12, <1>13, <1>14, <1>15, Assembles DEF Local

------------------------------------------------------------------------------
\* Steps that change the database

\* The largest of some of the numbers up to n.
LEMMA Largest ==
  ASSUME NEW n \in Nat, NEW S \in SUBSET (1..n), S # {}
  PROVE  Max(S) \in S /\ \A y \in S : y <= Max(S)
  <1> DEFINE D == {n - y : y \in S}
  <1>1. D \in SUBSET Nat /\ D # {}
    <2>1. \A y \in S : n - y \in Nat
      OBVIOUS
    <2>2. PICK y : y \in S
      OBVIOUS
    <2>3. n - y \in D
      BY <2>2
    <2> QED
      BY <2>1, <2>3
  <1>2. PICK d \in D : \A k \in D : ~(<<k, d>> \in OpToRel(<, Nat))
    <2> HIDE DEF D
    <2> QED
      BY <1>1, NatLessThanWellFounded, WFMin
  <1>3. \A k \in D : ~(k < d)
    BY <1>1, <1>2 DEF OpToRel
  <1>4. PICK x \in S : d = n - x
    BY <1>2
  <1>5. \A y \in S : x >= y
    BY <1>3, <1>4
  <1>6. Max(S) \in S /\ \A y \in S : Max(S) >= y
    BY <1>5 DEF Max
  <1> QED
    BY <1>6

\* The timeline when lines are added to it.
Longer(a) ==
  /\ db'.timeline \in Seq(Line) /\ DOMAIN db'.timeline = 1..Len(db'.timeline)
  /\ Len(db'.timeline) \in Nat /\ Len(db.timeline) \in Nat /\ Len(a) \in Nat
  /\ Len(db.timeline) <= Len(db'.timeline)
  /\ \A k \in 1..Len(db.timeline) : /\ k \in 1..Len(db'.timeline)
                                    /\ db'.timeline[k] = db.timeline[k]
  /\ \A i \in 1..Len(a) : /\ Len(db.timeline) + i \in 1..Len(db'.timeline)
                          /\ db'.timeline[Len(db.timeline) + i] = a[i]
  /\ \A k \in 1..Len(db'.timeline) :
       \/ k \in 1..Len(db.timeline)
       \/ /\ k > Len(db.timeline) /\ k - Len(db.timeline) \in 1..Len(a)
          /\ db'.timeline[k] = a[k - Len(db.timeline)]

LEMMA Lengthened ==
  ASSUME WriterOK, NEW a \in Seq(Line), db'.timeline = db.timeline \o a
  PROVE  Longer(a)
  <1>1. db.timeline \in Seq(Line)
    BY DEF WriterOK
  <1>2. PICK T : T = db.timeline \o a
    OBVIOUS
  <1>3. PICK l \in Nat : l = Len(db.timeline)
    BY <1>1, LenProperties
  <1>4. PICK m \in Nat : m = Len(a)
    BY LenProperties
  <1>5. /\ T \in Seq(Line) /\ Len(T) = l + m
        /\ \A i \in 1..(l + m) : T[i] = IF i <= l THEN db.timeline[i] ELSE a[i - l]
    BY <1>1, <1>2, <1>3, <1>4, ConcatProperties
  <1>6. DOMAIN T = 1..Len(T)
    BY <1>5, LenProperties
  <1>7. /\ \A k \in 1..l : k \in 1..(l + m) /\ k <= l
        /\ \A i \in 1..m : l + i \in 1..(l + m) /\ ~(l + i <= l) /\ (l + i) - l = i
        /\ \A k \in 1..(l + m) : k \in 1..l \/ (k > l /\ ~(k <= l) /\ k - l \in 1..m)
        /\ l + m \in Nat /\ l <= l + m
    OBVIOUS
  <1>8. /\ \A k \in 1..l : k \in 1..Len(T) /\ T[k] = db.timeline[k]
        /\ \A i \in 1..m : l + i \in 1..Len(T) /\ T[l + i] = a[i]
        /\ \A k \in 1..Len(T) : k \in 1..l \/ (k > l /\ k - l \in 1..m /\ T[k] = a[k - l])
        /\ l <= Len(T) /\ Len(T) \in Nat
    <2>1. \A k \in 1..l : k \in 1..Len(T) /\ T[k] = db.timeline[k]
      BY ONLY <1>5, <1>7
    <2>2. \A i \in 1..m : l + i \in 1..Len(T) /\ T[l + i] = a[i]
      BY ONLY <1>5, <1>7
    <2>3. \A k \in 1..Len(T) : k \in 1..l \/ (k > l /\ k - l \in 1..m /\ T[k] = a[k - l])
      BY ONLY <1>5, <1>7
    <2> QED
      BY ONLY <1>5, <1>7, <2>1, <2>2, <2>3
  <1>9. db'.timeline = T
    BY <1>2
  <1> QED
    BY ONLY <1>3, <1>4, <1>5, <1>6, <1>8, <1>9 DEF Longer

\* What a commit adds: the events of the batch, in their order.
Lines(s) == [i \in DOMAIN batch[s] |-> LineOf(s, batch[s][i])]

LEMMA LinesAdded ==
  ASSUME WriterOK, NEW s \in Session, db'.timeline = db.timeline \o Lines(s)
  PROVE  /\ Longer(Lines(s)) /\ Len(Lines(s)) = Len(batch[s])
         /\ \A i \in 1..Len(batch[s]) :
              /\ Lines(s)[i].ses = s /\ Lines(s)[i].req = batch[s][i].req
              /\ Lines(s)[i].n = batch[s][i].n /\ Lines(s)[i].state = batch[s][i].state
  <1>1. batch[s] \in Seq(Event) /\ Len(batch[s]) \in Nat /\ DOMAIN batch[s] = 1..Len(batch[s])
        /\ \A i \in 1..Len(batch[s]) : batch[s][i] \in Event
    <2>1. batch[s] \in Seq(Event)
      BY DEF WriterOK
    <2> QED
      BY <2>1, LenProperties, ElementOfSeq
  <1>2. \A e \in Event : LineOf(s, e) \in Line
    BY DEF Event, LineOf, Line
  <1>3. Lines(s) \in [1..Len(batch[s]) -> Line]
    BY <1>1, <1>2 DEF Lines
  <1>4. Lines(s) \in Seq(Line)
    BY <1>1, <1>3, SeqDef
  <1>5. Len(Lines(s)) = Len(batch[s])
    BY <1>1, <1>3, <1>4, LenProperties
  <1>6. Longer(Lines(s))
    BY <1>4, Lengthened
  <1>7. ASSUME NEW i \in 1..Len(batch[s])
        PROVE  /\ Lines(s)[i].ses = s /\ Lines(s)[i].req = batch[s][i].req
               /\ Lines(s)[i].n = batch[s][i].n /\ Lines(s)[i].state = batch[s][i].state
    <2>1. Lines(s)[i] = LineOf(s, batch[s][i])
      BY <1>1 DEF Lines
    <2> QED
      BY <2>1 DEF LineOf
  <1> QED
    BY <1>5, <1>6, <1>7

\* The rows a commit writes.
LEMMA Upserts ==
  ASSUME WriterOK, NEW s \in Session, NEW x \in Row, db'.rows = Upserted(s)
  PROVE  \/ /\ x[1] = s
            /\ \E m \in 1..Len(batch[s]) :
                 /\ batch[s][m].req = x[2] /\ db'.rows[x].state = batch[s][m].state
                 /\ db'.rows[x].n = batch[s][m].n
                 /\ \A i \in 1..Len(batch[s]) : i > m => batch[s][i].req # x[2]
         \/ /\ db'.rows[x] = db.rows[x]
            /\ x[1] # s \/ \A i \in 1..Len(batch[s]) : batch[s][i].req # x[2]
  <1>1. Len(batch[s]) \in Nat /\ DOMAIN batch[s] = 1..Len(batch[s])
    <2>1. batch[s] \in Seq(Event)
      BY DEF WriterOK
    <2> QED
      BY <2>1, LenProperties
  <1>2. CASE x[1] = s /\ Of(s, x[2]) # {}
    <2>1. db'.rows[x] = Snapshot(s, Max(Of(s, x[2])))
      BY <1>2 DEF Upserted
    <2>2. Of(s, x[2]) \in SUBSET (1..Len(batch[s]))
      BY <1>1 DEF Of
    <2>3. PICK m : m = Max(Of(s, x[2]))
      OBVIOUS
    <2>4. m \in Of(s, x[2]) /\ \A y \in Of(s, x[2]) : y <= m
      BY <1>1, <1>2, <2>2, <2>3, Largest
    <2>5. m \in 1..Len(batch[s]) /\ batch[s][m].req = x[2]
      BY <1>1, <2>4 DEF Of
    <2>6. ASSUME NEW i \in 1..Len(batch[s]), i > m PROVE batch[s][i].req # x[2]
      <3>1. batch[s][i].req = x[2] => i <= m
        BY <1>1, <2>4 DEF Of
      <3> QED
        BY <2>5, <2>6, <3>1
    <2>7. db'.rows[x].state = batch[s][m].state /\ db'.rows[x].n = batch[s][m].n
      BY <2>1, <2>3 DEF Snapshot
    <2> QED
      BY <1>2, <2>5, <2>6, <2>7
  <1>3. CASE ~(x[1] = s /\ Of(s, x[2]) # {})
    <2>1. db'.rows[x] = db.rows[x]
      BY <1>3 DEF Upserted
    <2>2. x[1] # s \/ \A i \in 1..Len(batch[s]) : batch[s][i].req # x[2]
      BY <1>1, <1>3 DEF Of
    <2> QED
      BY <2>1, <2>2
  <1> QED
    BY <1>2, <1>3

\* What the writer commits is of one session, in order, and later than all it committed.
LEMMA CommitHistory ==
  ASSUME IInv, NEW s \in Session, step[s] # "committed", db'.rows = Upserted(s),
         db'.timeline = db.timeline \o Lines(s)
  PROVE  DurableHistory'
  <1>1. WriterOK /\ OrderInv(s) /\ DurableHistory
    BY DEF IInv, Local
  <1>2. PICK l \in Nat : l = Len(db.timeline)
    BY <1>1, Typed
  <1>3. /\ DOMAIN db.timeline = 1..l /\ DOMAIN db'.timeline = 1..Len(db'.timeline)
        /\ Len(db'.timeline) \in Nat /\ Len(batch[s]) \in Nat
        /\ \A k \in 1..l : k \in 1..Len(db'.timeline) /\ db'.timeline[k] = db.timeline[k]
        /\ \A i \in 1..Len(batch[s]) :
             /\ l + i \in 1..Len(db'.timeline) /\ db'.timeline[l + i].ses = s
             /\ db'.timeline[l + i].req = batch[s][i].req
             /\ db'.timeline[l + i].state = batch[s][i].state
        /\ \A k \in 1..Len(db'.timeline) :
             \/ k \in 1..l
             \/ /\ k > l /\ k - l \in 1..Len(batch[s])
                /\ db'.timeline[k].ses = s /\ db'.timeline[k].n = batch[s][k - l].n
                /\ db'.timeline[k].req = batch[s][k - l].req
    <2>1. /\ Longer(Lines(s)) /\ Len(Lines(s)) = Len(batch[s])
          /\ \A i \in 1..Len(batch[s]) :
               /\ Lines(s)[i].ses = s /\ Lines(s)[i].req = batch[s][i].req
               /\ Lines(s)[i].n = batch[s][i].n /\ Lines(s)[i].state = batch[s][i].state
      BY <1>1, LinesAdded
    <2>2. DOMAIN db.timeline = 1..l /\ Len(batch[s]) \in Nat
      BY <1>1, <1>2, Typed
    <2>3. /\ DOMAIN db'.timeline = 1..Len(db'.timeline) /\ Len(db'.timeline) \in Nat
          /\ \A k \in 1..l : k \in 1..Len(db'.timeline) /\ db'.timeline[k] = db.timeline[k]
      BY ONLY <1>2, <2>1 DEF Longer
    <2>4. \A i \in 1..Len(batch[s]) :
            /\ l + i \in 1..Len(db'.timeline) /\ db'.timeline[l + i] = Lines(s)[i]
      BY ONLY <1>2, <2>1 DEF Longer
    <2>5. \A k \in 1..Len(db'.timeline) :
            \/ k \in 1..l
            \/ k > l /\ k - l \in 1..Len(batch[s]) /\ db'.timeline[k] = Lines(s)[k - l]
      BY ONLY <1>2, <2>1 DEF Longer
    <2>6. \A i \in 1..Len(batch[s]) :
            /\ l + i \in 1..Len(db'.timeline) /\ db'.timeline[l + i].ses = s
            /\ db'.timeline[l + i].req = batch[s][i].req
            /\ db'.timeline[l + i].state = batch[s][i].state
      BY ONLY <2>1, <2>4
    <2>7. \A k \in 1..Len(db'.timeline) :
            \/ k \in 1..l
            \/ /\ k > l /\ k - l \in 1..Len(batch[s])
               /\ db'.timeline[k].ses = s /\ db'.timeline[k].n = batch[s][k - l].n
               /\ db'.timeline[k].req = batch[s][k - l].req
      BY ONLY <2>1, <2>5
    <2> QED
      BY ONLY <2>2, <2>3, <2>6, <2>7
  <1>4. ASSUME NEW i \in 1..Len(db'.timeline), NEW j \in 1..Len(db'.timeline),
               i < j, db'.timeline[i].ses = db'.timeline[j].ses, db'.timeline[j].n > 0
        PROVE  db'.timeline[i].n < db'.timeline[j].n
    <2>1. CASE j \in 1..l
      <3>1. i \in 1..l
        BY <1>3, <1>4, <2>1
      <3>2. db'.timeline[i] = db.timeline[i] /\ db'.timeline[j] = db.timeline[j]
        BY <1>3, <2>1, <3>1
      <3> QED
        BY <1>1, <1>3, <1>4, <2>1, <3>1, <3>2 DEF DurableHistory
    <2>2. CASE /\ j > l /\ j - l \in 1..Len(batch[s])
               /\ db'.timeline[j].ses = s /\ db'.timeline[j].n = batch[s][j - l].n
      <3>1. CASE i \in 1..l
        <4>1. db'.timeline[i] = db.timeline[i] /\ db.timeline[i].ses = s
          BY <1>3, <1>4, <2>2, <3>1
        <4>2. db.timeline[i].n < batch[s][j - l].n
          BY <1>1, <1>2, <2>2, <3>1, <4>1 DEF OrderInv
        <4> QED
          BY <2>2, <4>1, <4>2
      <3>2. CASE i > l /\ i - l \in 1..Len(batch[s]) /\ db'.timeline[i].n = batch[s][i - l].n
        <4>1. i - l < j - l
          BY <1>3, <1>4, <2>2, <3>2
        <4>2. batch[s][i - l].n < batch[s][j - l].n
          BY <1>1, <2>2, <3>2, <4>1 DEF OrderInv
        <4> QED
          BY <2>2, <3>2, <4>2
      <3> QED
        BY <1>3, <3>1, <3>2
    <2> QED
      BY <1>3, <2>1, <2>2
  <1>5. ASSUME NEW x \in Row, db'.rows[x] = db.rows[x],
               x[1] # s \/ \A i \in 1..Len(batch[s]) : batch[s][i].req # x[2]
        PROVE  \/ db'.rows[x].state = "none" /\ \A i \in 1..Len(db'.timeline) : ~IsOf(i, x)'
               \/ \E i \in 1..Len(db'.timeline) :
                    /\ IsOf(i, x)' /\ db'.rows[x].state = db'.timeline[i].state
                    /\ \A j \in 1..Len(db'.timeline) : j > i => ~IsOf(j, x)'
    <2>1. ASSUME NEW k \in 1..Len(db'.timeline), ~(k \in 1..l) PROVE ~IsOf(k, x)'
      <3>1. /\ k - l \in 1..Len(batch[s]) /\ db'.timeline[k].ses = s
            /\ db'.timeline[k].req = batch[s][k - l].req
        BY <1>3, <2>1
      <3> QED
        BY <1>5, <3>1 DEF IsOf
    <2>2. ASSUME NEW k \in 1..l
          PROVE  /\ k \in 1..Len(db'.timeline) /\ db'.timeline[k] = db.timeline[k]
                 /\ IsOf(k, x)' <=> IsOf(k, x)
      BY <1>3, <2>2 DEF IsOf
    <2>3. CASE db.rows[x].state = "none" /\ \A i \in 1..l : ~IsOf(i, x)
      BY <1>5, <2>1, <2>2, <2>3
    <2>4. CASE \E i \in 1..l : /\ IsOf(i, x) /\ db.rows[x].state = db.timeline[i].state
                               /\ \A j \in 1..l : j > i => ~IsOf(j, x)
      <3>1. PICK i \in 1..l : /\ IsOf(i, x) /\ db.rows[x].state = db.timeline[i].state
                              /\ \A j \in 1..l : j > i => ~IsOf(j, x)
        BY <2>4
      <3>2. \A j \in 1..Len(db'.timeline) : j > i => ~IsOf(j, x)'
        BY <2>1, <2>2, <3>1
      <3> QED
        BY <1>5, <2>2, <3>1, <3>2
    <2> QED
      BY <1>1, <1>3, <2>3, <2>4 DEF DurableHistory
  <1>6. ASSUME NEW x \in Row, x[1] = s, NEW m \in 1..Len(batch[s]), batch[s][m].req = x[2],
               db'.rows[x].state = batch[s][m].state,
               \A i \in 1..Len(batch[s]) : i > m => batch[s][i].req # x[2]
        PROVE  \E i \in 1..Len(db'.timeline) :
                 /\ IsOf(i, x)' /\ db'.rows[x].state = db'.timeline[i].state
                 /\ \A j \in 1..Len(db'.timeline) : j > i => ~IsOf(j, x)'
    <2>1. PICK k \in 1..Len(db'.timeline) : k = l + m
      BY <1>3, <1>6
    <2>2. x = <<x[1], x[2]>>
      BY DEF Row
    <2>3. /\ db'.timeline[k].ses = s /\ db'.timeline[k].req = x[2]
          /\ db'.timeline[k].state = batch[s][m].state
      BY <1>3, <1>6, <2>1
    <2>4. IsOf(k, x)'
      BY <1>6, <2>2, <2>3 DEF IsOf
    <2>5. ASSUME NEW j \in 1..Len(db'.timeline), j > k PROVE ~IsOf(j, x)'
      <3>1. j - l \in 1..Len(batch[s]) /\ j - l > m
            /\ db'.timeline[j].req = batch[s][j - l].req
        BY <1>2, <1>3, <1>6, <2>1, <2>5
      <3>2. db'.timeline[j].req # x[2]
        BY <1>6, <3>1
      <3> QED
        BY <3>2 DEF IsOf
    <2> QED
      BY <1>6, <2>3, <2>4, <2>5
  <1>7. ASSUME NEW x \in Row
        PROVE  \/ db'.rows[x].state = "none" /\ \A i \in 1..Len(db'.timeline) : ~IsOf(i, x)'
               \/ \E i \in 1..Len(db'.timeline) :
                    /\ IsOf(i, x)' /\ db'.rows[x].state = db'.timeline[i].state
                    /\ \A j \in 1..Len(db'.timeline) : j > i => ~IsOf(j, x)'
    <2>1. CASE /\ x[1] = s
               /\ \E m \in 1..Len(batch[s]) :
                    /\ batch[s][m].req = x[2] /\ db'.rows[x].state = batch[s][m].state
                    /\ db'.rows[x].n = batch[s][m].n
                    /\ \A i \in 1..Len(batch[s]) : i > m => batch[s][i].req # x[2]
      BY <1>6, <2>1
    <2>2. CASE /\ db'.rows[x] = db.rows[x]
               /\ x[1] # s \/ \A i \in 1..Len(batch[s]) : batch[s][i].req # x[2]
      BY <1>5, <2>2
    <2> QED
      BY <1>1, <2>1, <2>2, Upserts
  <1> QED
    BY <1>3, <1>4, <1>7 DEF DurableHistory

LEMMA Commits ==
  ASSUME IInv, NEW s \in Session, Commit(s)
  PROVE  IInv'
  <1>1. /\ step[s] = "decide"
        /\ db' = [rows |-> Upserted(s), timeline |-> db.timeline \o Lines(s), drops |-> drops[s]]
        /\ step' = [step EXCEPT ![s] = "committed"]
        /\ UNCHANGED <<life, shown, issued, accepted, logging, queue, health, flush, batch, ack,
                       gone, drops, recorded, failing, due, owner>>
    BY DEF Commit, handlers, Lines
  <1>2. db'.rows = Upserted(s) /\ db'.timeline = db.timeline \o Lines(s)
    BY <1>1
  <1>3. /\ WriterOK /\ Local(s)
        /\ step \in [Session -> {"init", "refusing", "receive", "decide",
                                 "committed", "answer", "stopped", "abandoned"}]
        /\ drops[s] \in Nat
        /\ db.rows \in [Row -> [n : Nat, state : State \cup {"none", "interrupted"}]]
    BY DEF IInv, WriterOK
  <1>4. PICK l \in Nat : l = Len(db.timeline)
    BY <1>3, Typed
  <1>5. /\ db'.timeline \in Seq(Line)
        /\ DOMAIN db.timeline = 1..l /\ DOMAIN db'.timeline = 1..Len(db'.timeline)
        /\ \A k \in 1..l : k \in 1..Len(db'.timeline) /\ db'.timeline[k] = db.timeline[k]
        /\ \A i \in 1..Len(batch[s]) :
             /\ l + i \in 1..Len(db'.timeline) /\ db'.timeline[l + i].ses = s
             /\ db'.timeline[l + i].n = batch[s][i].n
        /\ \A k \in 1..Len(db'.timeline) :
             \/ k \in 1..l
             \/ /\ k > l /\ db'.timeline[k].ses = s
                /\ \E i \in 1..Len(batch[s]) : db'.timeline[k].n = batch[s][i].n
        /\ l <= Len(db'.timeline)
    <2>1. /\ Longer(Lines(s)) /\ Len(Lines(s)) = Len(batch[s])
          /\ \A i \in 1..Len(batch[s]) : Lines(s)[i].ses = s /\ Lines(s)[i].n = batch[s][i].n
      BY <1>2, <1>3, LinesAdded
    <2>2. DOMAIN db.timeline = 1..l
      BY <1>3, <1>4, Typed
    <2>3. /\ db'.timeline \in Seq(Line) /\ l <= Len(db'.timeline)
          /\ DOMAIN db'.timeline = 1..Len(db'.timeline)
          /\ \A k \in 1..l : k \in 1..Len(db'.timeline) /\ db'.timeline[k] = db.timeline[k]
      BY ONLY <1>4, <2>1 DEF Longer
    <2>4. \A i \in 1..Len(batch[s]) :
            /\ l + i \in 1..Len(db'.timeline) /\ db'.timeline[l + i] = Lines(s)[i]
      BY ONLY <1>4, <2>1 DEF Longer
    <2>5. \A k \in 1..Len(db'.timeline) :
            \/ k \in 1..l
            \/ k > l /\ k - l \in 1..Len(batch[s]) /\ db'.timeline[k] = Lines(s)[k - l]
      BY ONLY <1>4, <2>1 DEF Longer
    <2>6. \A i \in 1..Len(batch[s]) :
            /\ l + i \in 1..Len(db'.timeline) /\ db'.timeline[l + i].ses = s
            /\ db'.timeline[l + i].n = batch[s][i].n
      BY ONLY <2>1, <2>4
    <2>7. \A k \in 1..Len(db'.timeline) :
            \/ k \in 1..l
            \/ /\ k > l /\ db'.timeline[k].ses = s
               /\ \E i \in 1..Len(batch[s]) : db'.timeline[k].n = batch[s][i].n
      BY ONLY <2>1, <2>5
    <2> QED
      BY ONLY <2>2, <2>3, <2>6, <2>7
  <1>6. step'[s] = "committed" /\ \A t \in Session \ {s} : step'[t] = step[t]
    BY <1>1, <1>3
  <1>7. WriterOK'
    <2>1. Upserted(s) \in [Row -> [n : Nat, state : State \cup {"none", "interrupted"}]]
      <3>1. ASSUME NEW x \in Row
            PROVE  db'.rows[x] \in [n : Nat, state : State \cup {"none", "interrupted"}]
        <4>1. \A i \in 1..Len(batch[s]) : batch[s][i].n \in Nat /\ batch[s][i].state \in State
          BY <1>3, Typed DEF Event
        <4>2. db.rows[x] \in [n : Nat, state : State \cup {"none", "interrupted"}]
          BY <1>3
        <4>3. CASE x[1] = s /\ Of(s, x[2]) # {}
          <5>1. db'.rows[x] = Snapshot(s, Max(Of(s, x[2])))
            BY <1>2, <4>3 DEF Upserted
          <5>2. /\ Of(s, x[2]) \in SUBSET (1..Len(batch[s])) /\ Len(batch[s]) \in Nat
            <6>1. batch[s] \in Seq(Event)
              BY <1>3 DEF WriterOK
            <6> QED
              BY <6>1, LenProperties DEF Of
          <5>3. Max(Of(s, x[2])) \in 1..Len(batch[s])
            BY <4>3, <5>2, Largest
          <5> QED
            BY <4>1, <5>1, <5>3 DEF Snapshot
        <4>4. CASE ~(x[1] = s /\ Of(s, x[2]) # {})
          <5>1. db'.rows[x] = db.rows[x]
            BY <1>2, <4>4 DEF Upserted
          <5> QED
            BY <4>2, <5>1
        <4> QED
          BY <4>3, <4>4
      <3>2. Upserted(s) = [x \in Row |-> Upserted(s)[x]]
        BY DEF Upserted
      <3> QED
        BY <1>2, <3>1, <3>2
    <2>2. db' \in [rows     : [Row -> [n : Nat, state : State \cup {"none", "interrupted"}]],
                   timeline : Seq(Line),
                   drops    : Nat]
      <3>1. db.timeline \o Lines(s) \in Seq(Line)
        BY <1>2, <1>5
      <3> QED
        BY ONLY <1>1, <1>3, <2>1, <3>1
    <2>3. step' \in [Session -> {"init", "refusing", "receive", "decide",
                                 "committed", "answer", "stopped", "abandoned"}]
      BY <1>1, <1>3
    <2> QED
      BY ONLY <1>1, <1>3, <2>2, <2>3 DEF WriterOK
  <1>8. OthersKept(s)
    BY <1>1, <1>6 DEF OthersKept
  <1>9. ASSUME NEW t \in Session \ {s} PROVE Extends(t)
    BY <1>4, <1>5 DEF Extends
  <1>10. HandlerInv(s)'
    <2>1. Past(s)' = Past(s)
      BY <1>1 DEF Past
    <2>2. \A k \in 1..Len(db'.timeline) : db'.timeline[k].ses = s => db'.timeline[k].n \in Past(s)
      BY <1>3, <1>4, <1>5 DEF Local, HandlerInv
    <2> QED
      BY <1>1, <1>3, <2>1, <2>2 DEF Local, HandlerInv
  <1>11. OrderInv(s)'
    <2>1. ASSUME NEW k \in 1..Len(db'.timeline), db'.timeline[k].ses = s,
                 NEW j \in 1..Len(queue[s]), queue[s][j] # Flush
          PROVE  db'.timeline[k].n < queue[s][j].n
      <3>1. OrderInv(s)
        BY <1>3 DEF Local
      <3>2. CASE k \in 1..l
        BY <1>4, <1>5, <2>1, <3>1, <3>2 DEF OrderInv
      <3>3. CASE \E i \in 1..Len(batch[s]) : db'.timeline[k].n = batch[s][i].n
        BY <2>1, <3>1, <3>3 DEF OrderInv
      <3> QED
        BY <1>5, <3>2, <3>3
    <2> QED
      BY <1>1, <1>3, <1>6, <2>1 DEF Local, OrderInv
  <1>12. /\ \A n : /\ Durable(s, n) => Durable(s, n)'
                   /\ InBatch(s, n)' <=> InBatch(s, n)
                   /\ InQueue(s, n)' <=> InQueue(s, n)
                   /\ Ahead(s, n)' <=> Ahead(s, n)
         /\ \A i \in 1..Len(batch[s]) : Durable(s, batch[s][i].n)'
         /\ FlushIn(s)' <=> FlushIn(s)
         /\ ~Lost(s) \/ Lost(s)'
    <2>1. \A n : Durable(s, n) => Durable(s, n)'
      BY <1>5 DEF Durable
    <2>2. \A i \in 1..Len(batch[s]) : Durable(s, batch[s][i].n)'
      <3>1. ASSUME NEW i \in 1..Len(batch[s]), NEW n, n = batch[s][i].n
            PROVE  Durable(s, n)'
        BY <1>5, <3>1 DEF Durable
      <3>2. batch' = batch
        BY <1>1
      <3> QED
        BY <3>1, <3>2
    <2>3. ~Lost(s) \/ Lost(s)'
      BY <1>1, <1>3, <1>6 DEF Lost, Local, StepInv
    <2>4. \A n : /\ InBatch(s, n)' <=> InBatch(s, n)
                 /\ InQueue(s, n)' <=> InQueue(s, n)
                 /\ Ahead(s, n)' <=> Ahead(s, n)
      BY <1>1 DEF InBatch, InQueue, Ahead
    <2>5. FlushIn(s)' <=> FlushIn(s)
      BY <1>1 DEF FlushIn
    <2> QED
      BY <2>1, <2>2, <2>3, <2>4, <2>5
  <1>13. StepInv(s)'
    <2>1. life[s] # "new" /\ life[s] # "dead"
      BY <1>1, <1>3 DEF Local, StepInv
    <2>2. \A i \in 1..Len(batch'[s]) : Durable(s, batch[s][i].n)'
      BY <1>1, <1>12
    <2> QED
      BY <1>1, <1>6, <2>1, <2>2 DEF StepInv
  <1>14. PlaceInv(s)'
    BY <1>1, <1>3, <1>12 DEF Local, PlaceInv
  <1>15. CountInv(s)'
    BY <1>1, <1>3, <1>12 DEF Local, CountInv, Flushes, Held
  <1>16. FlushInv(s)'
    BY <1>1, <1>3, <1>12 DEF Local, FlushInv
  <1>17. Local(s)' /\ \A t \in Session \ {s} : Local(t)'
    BY <1>7, <1>8, <1>9, <1>10, <1>11, <1>13, <1>14, <1>15, <1>16, OthersLocal DEF Local
  <1>18. owner = s /\ \A t \in Session : Running(t)' => t = s
    <2>1. Running(s)
      BY <1>1 DEF Running
    <2> QED
      BY <1>6, <2>1 DEF IInv, LockInv, Running
  <1>19. ASSUME NEW x \in Row
         PROVE  /\ x[1] \in Session
                /\ \/ db'.rows[x].state # "interrupted" /\ x[1] = s
                   \/ db'.rows[x] = db.rows[x]
    <2>1. CASE /\ x[1] = s
               /\ \E m \in 1..Len(batch[s]) :
                    /\ batch[s][m].req = x[2] /\ db'.rows[x].state = batch[s][m].state
                    /\ db'.rows[x].n = batch[s][m].n
                    /\ \A i \in 1..Len(batch[s]) : i > m => batch[s][i].req # x[2]
      <3>1. \A i \in 1..Len(batch[s]) : batch[s][i].state # "interrupted"
        BY <1>3, Typed DEF Event, State
      <3> QED
        BY <2>1, <3>1
    <2>2. CASE /\ db'.rows[x] = db.rows[x]
               /\ x[1] # s \/ \A i \in 1..Len(batch[s]) : batch[s][i].req # x[2]
      BY <2>2 DEF Row
    <2> QED
      BY <1>2, <1>3, <2>1, <2>2, Upserts
  <1>20. \A x \in OpenRows' : x \in Row /\ (x[1] = s \/ x \in OpenRows)
    BY <1>19 DEF OpenRows
  <1>21. LockInv'
    <2>1. \A x \in OpenRows' : step'[x[1]] \notin {"init", "refusing"}
      BY <1>6, <1>19, <1>20 DEF IInv, LockInv
    <2> QED
      BY <1>1, <1>18, <2>1 DEF LockInv
  <1>22. RecoveryIsExact'
    <2>1. \A x \in OpenRows' : x[1] = s
      BY <1>1, <1>20 DEF IInv, RecoveryIsExact
    <2>2. \A x \in Row : db'.rows[x].state = "interrupted"
                           => step'[x[1]] \in {"stopped", "abandoned"}
      BY <1>1, <1>6, <1>19 DEF IInv, RecoveryIsExact
    <2> QED
      BY <1>18, <2>1, <2>2 DEF RecoveryIsExact, Running
  <1>23. DurableHistory'
    BY <1>1, <1>2, CommitHistory
  <1> QED
    BY <1>7, <1>17, <1>21, <1>22, <1>23 DEF IInv

\* A finite set as a sequence: every element once.
LEMMA Listed ==
  ASSUME NEW S, IsFiniteSet(S)
  PROVE  /\ SetToSeq(S) \in Seq(S) /\ Len(SetToSeq(S)) \in Nat
         /\ \A i \in 1..Len(SetToSeq(S)) : SetToSeq(S)[i] \in S
         /\ \A i, j \in 1..Len(SetToSeq(S)) : SetToSeq(S)[i] = SetToSeq(S)[j] => i = j
         /\ \A x \in S : \E i \in 1..Len(SetToSeq(S)) : SetToSeq(S)[i] = x
  <1>1. PICK n \in Nat : n = Cardinality(S)
    BY FS_CardinalityType
  <1>2. PICK b : b \in Bijection(1..n, S)
    BY <1>1, FS_CardinalityType DEF ExistsBijection
  <1>3. b \in [1..n -> S] /\ \A i, j \in 1..n : b[i] = b[j] => i = j
    BY <1>2, Fun_BijectionProperties
  <1>4. IsInjective(b)
    BY <1>3 DEF IsInjective
  <1>5. PICK f : f = SetToSeq(S)
    OBVIOUS
  <1>6. f = CHOOSE g \in [1..n -> S] : IsInjective(g)
    BY <1>1, <1>5 DEF SetToSeq
  <1>7. f \in [1..n -> S] /\ IsInjective(f)
    BY <1>3, <1>4, <1>6
  <1>8. \A i, j \in 1..n : f[i] = f[j] => i = j
    BY <1>7 DEF IsInjective
  <1>9. f \in Injection(1..n, S)
    BY <1>7, <1>8, Fun_IsInj
  <1>10. Cardinality(1..n) = n
    BY FS_Interval
  <1>11. f \in Surjection(1..n, S)
    BY <1>1, <1>9, <1>10, FS_Injection
  <1>12. \A x \in S : \E i \in 1..n : f[i] = x
    BY <1>11, Fun_SurjectionProperties
  <1>13. f \in Seq(S)
    BY <1>7, SeqDef
  <1>14. Len(f) = n
    BY <1>7, <1>13, LenProperties
  <1> QED
    BY ONLY <1>5, <1>7, <1>8, <1>12, <1>13, <1>14

\* What recovery adds: a line for every open row, each once.
Ends == SetToSeq({Interrupted(x) : x \in OpenRows})

LEMMA RowsEnd ==
  ASSUME WriterOK
  PROVE  /\ Ends \in Seq(Line) /\ Len(Ends) \in Nat
         /\ \A i \in 1..Len(Ends) : \E x \in OpenRows : Ends[i] = Interrupted(x)
         /\ \A i, j \in 1..Len(Ends) : Ends[i] = Ends[j] => i = j
         /\ \A x \in OpenRows : \E i \in 1..Len(Ends) : Ends[i] = Interrupted(x)
  <1>1. PICK I : I = {Interrupted(x) : x \in OpenRows}
    OBVIOUS
  <1>2. IsFiniteSet(OpenRows)
    <2>1. IsFiniteSet(Row)
      BY ConstantsOK, FS_Product DEF Row
    <2> QED
      BY <2>1, FS_Subset DEF OpenRows
  <1>3. IsFiniteSet(I)
    <2>1. PICK f : f = [x \in OpenRows |-> Interrupted(x)]
      OBVIOUS
    <2>2. f \in Surjection(OpenRows, I)
      BY <1>1, <2>1, Fun_IsSurj
    <2> QED
      BY <1>2, <2>2, FS_Surjection
  <1>4. PICK e : e = SetToSeq(I)
    OBVIOUS
  <1>5. /\ e \in Seq(I) /\ Len(e) \in Nat
        /\ \A i \in 1..Len(e) : e[i] \in I
        /\ \A i, j \in 1..Len(e) : e[i] = e[j] => i = j
        /\ \A x \in I : \E i \in 1..Len(e) : e[i] = x
    BY <1>3, <1>4, Listed
  <1>6. I \subseteq Line
    BY <1>1 DEF OpenRows, Row, Interrupted, Line
  <1>7. e \in Seq(Line)
    <2>1. e \in [1..Len(e) -> Line]
      BY <1>5, <1>6, LenProperties
    <2> QED
      BY <1>5, <2>1, SeqDef
  <1>8. Ends = e
    BY <1>1, <1>4 DEF Ends
  <1> QED
    BY ZenonT(40), <1>1, <1>5, <1>7, <1>8

\* A recovery ends every open row with a line of its own, and touches no event.
LEMMA RecoveryHistory ==
  ASSUME IInv, db' = Recovered
  PROVE  DurableHistory' /\ \A t : Extends(t)
  <1>1. /\ WriterOK /\ DurableHistory
        /\ db.rows \in [Row -> [n : Nat, state : State \cup {"none", "interrupted"}]]
    BY DEF IInv, WriterOK
  <1>2. PICK e : e = Ends
    OBVIOUS
  <1>3. /\ e \in Seq(Line) /\ Len(e) \in Nat
        /\ \A i \in 1..Len(e) : \E x \in OpenRows : e[i] = Interrupted(x)
        /\ \A i, j \in 1..Len(e) : e[i] = e[j] => i = j
        /\ \A x \in OpenRows : \E i \in 1..Len(e) : e[i] = Interrupted(x)
    BY <1>1, <1>2, RowsEnd
  <1>4. /\ db'.timeline = db.timeline \o e
        /\ \A x \in Row : db'.rows[x] = IF x \in OpenRows
                                        THEN [n |-> db.rows[x].n, state |-> "interrupted"]
                                        ELSE db.rows[x]
    <2>1. DOMAIN db = {"rows", "timeline", "drops"}
      BY <1>1 DEF WriterOK
    <2> QED
      BY <1>2, <2>1 DEF Recovered, Ends
  <1>5. PICK l \in Nat : l = Len(db.timeline)
    BY <1>1, LenProperties DEF WriterOK
  <1>6. /\ DOMAIN db.timeline = 1..l /\ DOMAIN db'.timeline = 1..Len(db'.timeline)
        /\ Len(db'.timeline) \in Nat /\ l <= Len(db'.timeline)
        /\ \A k \in 1..l : k \in 1..Len(db'.timeline) /\ db'.timeline[k] = db.timeline[k]
        /\ \A i \in 1..Len(e) : l + i \in 1..Len(db'.timeline) /\ db'.timeline[l + i] = e[i]
        /\ \A k \in 1..Len(db'.timeline) :
             k \in 1..l \/ (k > l /\ k - l \in 1..Len(e) /\ db'.timeline[k] = e[k - l])
    <2>1. Longer(e)
      BY <1>1, <1>3, <1>4, Lengthened
    <2>2. DOMAIN db.timeline = 1..l
      BY <1>1, <1>5, LenProperties DEF WriterOK
    <2> QED
      BY ONLY <1>5, <2>1, <2>2 DEF Longer
  <1>7. ASSUME NEW k \in 1..Len(db'.timeline), ~(k \in 1..l)
        PROVE  db'.timeline[k].n = 0 /\ \E x \in OpenRows : db'.timeline[k] = Interrupted(x)
    <2>1. k - l \in 1..Len(e) /\ db'.timeline[k] = e[k - l]
      BY <1>6, <1>7
    <2>2. PICK x \in OpenRows : e[k - l] = Interrupted(x)
      BY <1>3, <2>1
    <2>3. Interrupted(x).n = 0
      BY DEF Interrupted
    <2> QED
      BY <2>1, <2>2, <2>3
  <1>8. \A t : Extends(t)
    BY <1>5, <1>6, <1>7 DEF Extends
  <1>9. ASSUME NEW i \in 1..Len(db'.timeline), NEW j \in 1..Len(db'.timeline),
               i < j, db'.timeline[i].ses = db'.timeline[j].ses, db'.timeline[j].n > 0
        PROVE  db'.timeline[i].n < db'.timeline[j].n
    <2>1. j \in 1..l
      BY <1>7, <1>9
    <2>2. i \in 1..l
      BY <1>6, <1>9, <2>1
    <2>3. db'.timeline[i] = db.timeline[i] /\ db'.timeline[j] = db.timeline[j]
      BY <1>6, <2>1, <2>2
    <2> QED
      BY <1>1, <1>6, <1>9, <2>1, <2>2, <2>3 DEF DurableHistory
  <1>10. ASSUME NEW x \in Row, NEW k \in 1..l
         PROVE  /\ k \in 1..Len(db'.timeline) /\ db'.timeline[k] = db.timeline[k]
                /\ IsOf(k, x)' <=> IsOf(k, x)
    BY <1>6, <1>10 DEF IsOf
  <1>11. ASSUME NEW x \in Row, NEW k \in 1..Len(db'.timeline), ~(k \in 1..l), IsOf(k, x)'
         PROVE  x \in OpenRows /\ db'.timeline[k] = Interrupted(x)
    <2>1. PICK y \in OpenRows : db'.timeline[k] = Interrupted(y)
      BY <1>7, <1>11
    <2>2. <<db'.timeline[k].ses, db'.timeline[k].req>> = x
      BY <1>11 DEF IsOf
    <2>3. <<y[1], y[2]>> = x
      BY <2>1, <2>2 DEF Interrupted
    <2>4. y = <<y[1], y[2]>>
      BY DEF OpenRows, Row
    <2> QED
      BY <2>1, <2>3, <2>4
  <1>12. ASSUME NEW x \in Row, x \notin OpenRows
         PROVE  \/ db'.rows[x].state = "none" /\ \A i \in 1..Len(db'.timeline) : ~IsOf(i, x)'
                \/ \E i \in 1..Len(db'.timeline) :
                     /\ IsOf(i, x)' /\ db'.rows[x].state = db'.timeline[i].state
                     /\ \A j \in 1..Len(db'.timeline) : j > i => ~IsOf(j, x)'
    <2>1. \A k \in 1..Len(db'.timeline) : k \in 1..l \/ ~IsOf(k, x)'
      BY <1>11, <1>12
    <2>2. db'.rows[x] = db.rows[x]
      BY <1>4, <1>12
    <2>3. CASE db.rows[x].state = "none" /\ \A i \in 1..l : ~IsOf(i, x)
      BY <1>10, <2>1, <2>2, <2>3
    <2>4. CASE \E i \in 1..l : /\ IsOf(i, x) /\ db.rows[x].state = db.timeline[i].state
                               /\ \A j \in 1..l : j > i => ~IsOf(j, x)
      <3>1. PICK i \in 1..l : /\ IsOf(i, x) /\ db.rows[x].state = db.timeline[i].state
                              /\ \A j \in 1..l : j > i => ~IsOf(j, x)
        BY <2>4
      <3>2. \A j \in 1..Len(db'.timeline) : j > i => ~IsOf(j, x)'
        BY <1>10, <2>1, <3>1
      <3> QED
        BY <1>10, <2>2, <3>1, <3>2
    <2> QED
      BY <1>1, <1>6, <2>3, <2>4 DEF DurableHistory
  <1>13. ASSUME NEW x \in Row, x \in OpenRows
         PROVE  \E i \in 1..Len(db'.timeline) :
                  /\ IsOf(i, x)' /\ db'.rows[x].state = db'.timeline[i].state
                  /\ \A j \in 1..Len(db'.timeline) : j > i => ~IsOf(j, x)'
    <2>1. PICK i \in 1..Len(e) : e[i] = Interrupted(x)
      BY <1>3, <1>13
    <2>2. PICK k \in 1..Len(db'.timeline) : k = l + i /\ db'.timeline[k] = Interrupted(x)
      BY <1>6, <2>1
    <2>3. x = <<x[1], x[2]>>
      BY DEF Row
    <2>4. IsOf(k, x)' /\ db'.timeline[k].state = "interrupted"
      BY <2>2, <2>3 DEF IsOf, Interrupted
    <2>5. db'.rows[x].state = "interrupted"
      <3>1. db'.rows[x] = [n |-> db.rows[x].n, state |-> "interrupted"]
        BY <1>4, <1>13
      <3> QED
        BY <3>1
    <2>6. ASSUME NEW j \in 1..Len(db'.timeline), j > k PROVE ~IsOf(j, x)'
      <3> SUFFICES ASSUME IsOf(j, x)' PROVE FALSE
        OBVIOUS
      <3>1. ~(j \in 1..l)
        BY <1>5, <2>2, <2>6
      <3>2. db'.timeline[j] = Interrupted(x)
        BY <1>11, <3>1
      <3>3. j - l \in 1..Len(e) /\ db'.timeline[j] = e[j - l]
        BY <1>6, <3>1
      <3>4. j - l = i
        BY <1>3, <2>1, <3>2, <3>3
      <3> QED
        BY <2>2, <2>6, <3>4
    <2> QED
      BY <2>4, <2>5, <2>6
  <1>14. ASSUME NEW x \in Row
         PROVE  \/ db'.rows[x].state = "none" /\ \A i \in 1..Len(db'.timeline) : ~IsOf(i, x)'
                \/ \E i \in 1..Len(db'.timeline) :
                     /\ IsOf(i, x)' /\ db'.rows[x].state = db'.timeline[i].state
                     /\ \A j \in 1..Len(db'.timeline) : j > i => ~IsOf(j, x)'
    BY <1>12, <1>13
  <1> QED
    BY <1>6, <1>8, <1>9, <1>14 DEF DurableHistory

LEMMA Initializes ==
  ASSUME IInv, NEW s \in Session, Initialize(s)
  PROVE  IInv'
  <1>1. /\ life[s] # "dead" /\ life[s] # "new" /\ step[s] = "init"
        /\ owner = Free /\ owner' = s
        /\ db' = Recovered
        /\ health' = [health EXCEPT ![s].dropped = @ + db.drops, ![s].ready = TRUE]
        /\ recorded' = [recorded EXCEPT ![s] = health'[s].dropped]
        /\ step' = [step EXCEPT ![s] = "receive"]
        /\ UNCHANGED <<life, shown, issued, accepted, logging, queue, flush, batch, ack,
                       gone, drops, failing, due>>
    BY DEF Initialize, handlers
  <1>2. /\ WriterOK /\ Local(s) /\ health[s].dropped \in Nat /\ db.drops \in Nat
        /\ step \in [Session -> {"init", "refusing", "receive", "decide",
                                 "committed", "answer", "stopped", "abandoned"}]
        /\ recorded \in [Session -> Nat]
        /\ db \in [rows     : [Row -> [n : Nat, state : State \cup {"none", "interrupted"}]],
                   timeline : Seq(Line),
                   drops    : Nat]
    BY Typed DEF IInv, WriterOK
  <1>3. PICK x \in Nat : x = health[s].dropped + db.drops
    BY <1>2
  <1>4. x >= health[s].dropped
    BY <1>2, <1>3
  <1>5. health' = [health EXCEPT ![s].dropped = x, ![s].ready = TRUE]
    BY <1>1, <1>3
  <1>6. Recounted(s, health[s].pending, x)
    BY <1>2, <1>5, DroppedAndReady
  <1>7. DurableHistory' /\ \A t : Extends(t)
    BY <1>1, RecoveryHistory
  <1>8. /\ db'.timeline = db.timeline \o Ends /\ db'.drops = db.drops
        /\ \A y \in Row : db'.rows[y] = IF y \in OpenRows
                                        THEN [n |-> db.rows[y].n, state |-> "interrupted"]
                                        ELSE db.rows[y]
    BY <1>1, <1>2 DEF Recovered, Ends
  <1>9. db' \in [rows     : [Row -> [n : Nat, state : State \cup {"none", "interrupted"}]],
                 timeline : Seq(Line),
                 drops    : Nat]
    <2>1. db.timeline \o Ends \in Seq(Line)
      BY <1>2, RowsEnd, ConcatProperties
    <2>2. PICK R : R = [y \in Row |-> IF y \in OpenRows
                                      THEN [n |-> db.rows[y].n, state |-> "interrupted"]
                                      ELSE db.rows[y]]
      OBVIOUS
    <2>3. R \in [Row -> [n : Nat, state : State \cup {"none", "interrupted"}]]
      BY <1>2, <2>2
    <2>4. db' = [db EXCEPT !.rows = R, !.timeline = db.timeline \o Ends]
      BY <1>1, <2>2 DEF Recovered, Ends
    <2> QED
      BY ONLY <1>2, <2>1, <2>3, <2>4
  <1>10. /\ step'[s] = "receive" /\ \A t \in Session \ {s} : step'[t] = step[t]
    BY <1>1, <1>2
  <1>11. WriterOK'
    <2>1. health' \in [Session -> [ready : BOOLEAN, pending : Nat, enqueued : Nat,
                                   committed : Nat, dropped : Nat]]
      BY <1>6 DEF Recounted, Counters
    <2>2. step' \in [Session -> {"init", "refusing", "receive", "decide",
                                 "committed", "answer", "stopped", "abandoned"}]
      BY <1>1, <1>2
    <2>3. recorded' \in [Session -> Nat]
      <3>1. health'[s].dropped = x
        BY <1>6 DEF Recounted
      <3> QED
        BY <1>1, <1>2, <3>1
    <2>4. owner' \in Session \cup {Free}
      BY <1>1
    <2>5. UNCHANGED <<life, shown, issued, accepted, logging, queue, flush, batch, ack,
                      gone, drops, failing, due>>
      BY <1>1
    <2> QED
      BY ONLY <1>2, <1>9, <2>1, <2>2, <2>3, <2>4, <2>5 DEF WriterOK
  <1>12. OthersKept(s)
    BY <1>1, <1>6, <1>10 DEF OthersKept, Recounted
  <1>13. Still(s)
    <2>1. Lost(s) => Lost(s)'
      BY <1>1 DEF Lost
    <2>2. health'[s].pending = health[s].pending /\ health'[s].dropped >= health[s].dropped
      BY <1>4, <1>6 DEF Recounted
    <2> QED
      BY <1>1, <1>10, <2>1, <2>2 DEF Still
  <1>14. StepInv(s)'
    BY <1>1, <1>10 DEF StepInv
  <1>15. Local(s)' /\ \A t \in Session \ {s} : Local(t)'
    BY <1>2, <1>7, <1>11, <1>12, <1>13, <1>14, StillLocal, OthersLocal
  <1>16. ASSUME NEW y \in Row
         PROVE  /\ y[1] \in Session /\ db'.rows[y].state # "open"
                /\ db'.rows[y].state = "interrupted" =>
                     y \in OpenRows \/ db.rows[y].state = "interrupted"
    <2>1. y[1] \in Session
      BY DEF Row
    <2>2. CASE y \in OpenRows
      <3>1. db'.rows[y] = [n |-> db.rows[y].n, state |-> "interrupted"]
        BY <1>8, <2>2
      <3> QED
        BY <2>1, <2>2, <3>1
    <2>3. CASE y \notin OpenRows
      BY <1>8, <2>1, <2>3 DEF OpenRows
    <2> QED
      BY <2>2, <2>3
  <1>17. OpenRows' = {}
    BY <1>16 DEF OpenRows
  <1>18. \A t \in Session : ~Running(t)
    BY <1>1, ConstantsOK DEF IInv, LockInv
  <1>19. LockInv'
    BY <1>1, <1>10, <1>17, <1>18 DEF LockInv, Running
  <1>20. RecoveryIsExact'
    <2>1. ASSUME NEW y \in Row, db'.rows[y].state = "interrupted"
          PROVE  step'[y[1]] \in {"stopped", "abandoned"}
      <3>1. CASE y \in OpenRows
        <4>1. step[y[1]] \notin {"init", "refusing"}
          BY <3>1 DEF IInv, LockInv
        <4>2. step[y[1]] \in {"stopped", "abandoned"}
          BY <1>2, <1>16, <1>18, <4>1 DEF Running
        <4> QED
          BY <1>1, <1>10, <1>16, <4>2
      <3>2. CASE db.rows[y].state = "interrupted"
        <4>1. step[y[1]] \in {"stopped", "abandoned"}
          BY <3>2 DEF IInv, RecoveryIsExact
        <4> QED
          BY <1>1, <1>10, <1>16, <4>1
      <3> QED
        BY <1>16, <2>1, <3>1, <3>2
    <2> QED
      BY <1>17, <2>1 DEF RecoveryIsExact
  <1> QED
    BY <1>7, <1>11, <1>15, <1>19, <1>20 DEF IInv

------------------------------------------------------------------------------
\* Theorems

LEMMA Starts ==
  ASSUME Init
  PROVE  IInv
  <1>1. /\ Free \notin Session /\ Capacity \in Nat \ {0} /\ BatchSize \in Nat \ {0}
    BY ConstantsOK
  <1>2. /\ \A s \in Session : /\ life[s] = "new" /\ step[s] = "init" /\ issued[s] = 0
                              /\ accepted[s] = {} /\ logging[s].at = "idle"
                              /\ queue[s] = <<>> /\ batch[s] = <<>> /\ ~ack[s]
                              /\ health[s].pending = 0
                              /\ flush[s].at = "none" /\ flush[s].owed = {}
        /\ db.timeline = <<>> /\ \A x \in Row : db.rows[x].state = "none"
    BY DEF Init, Fresh
  <1>3. WriterOK
    <2>1. /\ queue \in [Session -> Seq(Event \cup {Flush})] /\ batch \in [Session -> Seq(Event)]
          /\ \A s \in Session : Len(queue[s]) <= Capacity /\ Len(batch[s]) <= BatchSize
      BY <1>1 DEF Init
    <2>2. health \in [Session -> [ready : BOOLEAN, pending : Nat, enqueued : Nat,
                                  committed : Nat, dropped : Nat]]
      BY DEF Init, Fresh
    <2>3. db \in [rows     : [Row -> [n : Nat, state : State \cup {"none", "interrupted"}]],
                  timeline : Seq(Line),
                  drops    : Nat]
      BY DEF Init
    <2>4. logging \in [Session -> [at : {"idle", "send", "sent", "refused", "uncounted"},
                                   event : Event \cup {NoEvent}]]
      BY DEF Init
    <2>5. flush \in [Session -> [at : {"none", "sending", "waiting", "ok", "failed"},
                                 owed : SUBSET Nat]]
      BY DEF Init
    <2> QED
      BY <2>1, <2>2, <2>3, <2>4, <2>5 DEF WriterOK, Init
  <1>4. Len(db.timeline) = 0 /\ DOMAIN db.timeline = {}
    BY <1>2
  <1>5. ASSUME NEW s \in Session PROVE Local(s)
    <2>1. Len(queue[s]) = 0 /\ Len(batch[s]) = 0
      BY <1>2
    <2>2. HandlerInv(s) /\ OrderInv(s) /\ StepInv(s) /\ PlaceInv(s)
      BY <1>2, <1>4, <2>1 DEF HandlerInv, OrderInv, StepInv, PlaceInv
    <2>3. ~FlushIn(s)
      BY <2>1 DEF FlushIn
    <2>4. CountInv(s) /\ FlushInv(s)
      BY <1>2, <2>1, <2>3 DEF CountInv, FlushInv, Flushes, Held
    <2> QED
      BY <2>2, <2>4 DEF Local
  <1>6. LockInv /\ RecoveryIsExact
    BY <1>2 DEF LockInv, RecoveryIsExact, Running, OpenRows
  <1>7. DurableHistory
    BY <1>2, <1>4 DEF DurableHistory
  <1> QED
    BY <1>3, <1>5, <1>6, <1>7 DEF IInv

\* The queue under a writer that works, or one that only empties it.
LEMMA Takes ==
  ASSUME IInv, NEW s \in Session, Refuse(s) \/ Receive(s)
  PROVE  IInv'
  <1>1. CASE Refuse(s)
    <2>1. /\ step[s] = "refusing"
          /\ UNCHANGED <<life, shown, issued, accepted, logging, batch, ack, gone, drops,
                         recorded, failing, due, db, owner>>
      BY <1>1 DEF Refuse, handlers
    <2>2. CASE /\ queue[s] # <<>> /\ queue' = [queue EXCEPT ![s] = Tail(@)]
               /\ Head(queue[s]) = Flush /\ Answered(s, "failed")
               /\ UNCHANGED <<health, step>>
      BY <2>1, <2>2, RefusesFlush
    <2>3. CASE /\ queue[s] # <<>> /\ queue' = [queue EXCEPT ![s] = Tail(@)]
               /\ Head(queue[s]) # Flush
               /\ health' = [health EXCEPT ![s].pending = @ - 1, ![s].dropped = @ + 1]
               /\ UNCHANGED <<flush, step>>
      BY <2>1, <2>3, RefusesEvent
    <2>4. CASE /\ life[s] = "closed" /\ step' = [step EXCEPT ![s] = "abandoned"]
               /\ UNCHANGED <<queue, health, flush>>
      BY <2>1, <2>4, Pauses
    <2> QED
      BY <1>1, <2>2, <2>3, <2>4 DEF Refuse
  <1>2. CASE Receive(s)
    <2>1. /\ step[s] = "receive"
          /\ UNCHANGED <<life, shown, issued, accepted, logging, health, flush, recorded,
                         failing, due, db, owner>>
      BY <1>2 DEF Receive, handlers
    <2>2. CASE /\ queue[s] # <<>> /\ queue' = [queue EXCEPT ![s] = Tail(@)]
               /\ Head(queue[s]) = Flush /\ ack' = [ack EXCEPT ![s] = TRUE]
               /\ UNCHANGED <<step, gone, drops, batch>>
      BY <2>1, <2>2, ReceivesFlush
    <2>3. CASE /\ Len(batch[s]) < BatchSize
               /\ queue[s] # <<>> /\ queue' = [queue EXCEPT ![s] = Tail(@)]
               /\ Head(queue[s]) # Flush
               /\ batch' = [batch EXCEPT ![s] = Append(@, Head(queue[s]))]
               /\ UNCHANGED <<step, gone, drops, ack>>
      BY <2>1, <2>3, ReceivesEvent
    <2>4. CASE /\ gone' = [gone EXCEPT ![s] = TRUE]
               /\ UNCHANGED <<queue, step, batch, ack, drops>>
      BY <2>1, <2>4, Pauses
    <2>5. CASE /\ step' = [step EXCEPT ![s] = "decide"]
               /\ drops' = [drops EXCEPT ![s] = health[s].dropped]
               /\ UNCHANGED <<queue, batch, ack, gone>>
      BY <2>1, <2>5, Pauses
    <2> QED
      BY <1>2, <2>2, <2>3, <2>4, <2>5 DEF Receive
  <1> QED
    BY <1>1, <1>2

\* A step that at most reads leaves the invariant as it is.
LEMMA Unmoved ==
  ASSUME IInv,
         UNCHANGED <<life, shown, issued, accepted, logging, queue, health, flush, step,
                     batch, ack, gone, drops, recorded, failing, due, db, owner>>
  PROVE  IInv'
  <1>1. WriterOK' /\ LockInv' /\ RecoveryIsExact' /\ DurableHistory'
    <2>1. WriterOK' <=> WriterOK
      BY DEF WriterOK
    <2>2. LockInv' <=> LockInv
      BY DEF LockInv, OpenRows, Running
    <2>3. RecoveryIsExact' <=> RecoveryIsExact
      BY DEF RecoveryIsExact, OpenRows
    <2>4. DurableHistory' <=> DurableHistory
      BY DEF DurableHistory, IsOf
    <2> QED
      BY <2>1, <2>2, <2>3, <2>4 DEF IInv
  <1>2. ASSUME NEW s \in Session PROVE Local(s)'
    <2>1. Local(s)
      BY DEF IInv
    <2>2. Local(s)' <=> Local(s)
      BY DEF Local, HandlerInv, OrderInv, StepInv, PlaceInv, CountInv, FlushInv, Past,
             InBatch, InQueue, FlushIn, Ahead, Flushes, Held, Durable, Lost
    <2> QED
      BY <2>1, <2>2
  <1> QED
    BY <1>1, <1>2 DEF IInv

LEMMA Preserves ==
  ASSUME IInv, [Next]_vars
  PROVE  IInv'
  <1>1. CASE UNCHANGED vars
    BY <1>1, Unmoved DEF vars
  <1>2. ASSUME NEW s \in Session, HealthCall(s) \/ HealthLooks(s) PROVE IInv'
    BY <1>2, Unmoved DEF HealthCall, HealthLooks, writer
  <1>3. ASSUME NEW s \in Session, NEW r \in Request, NEW state \in State, Log(s, r, state)
        PROVE  IInv'
    BY <1>3, Counts
  <1>4. ASSUME NEW s \in Session, Handler(s) PROVE IInv'
    BY <1>4, Accepted, Refused, Counted DEF Handler
  <1>5. ASSUME NEW s \in Session, FlushCall(s) \/ FlushSend(s) \/ FlushTimesOut(s)
        PROVE  IInv'
    BY <1>5, Called, Follows, Lives
  <1>6. ASSUME NEW s \in Session, Writer(s) PROVE IInv'
    BY <1>6, Initializes, Rests, Takes, Commits, Settled, CommitsFail, Answers DEF Writer
  <1>7. ASSUME NEW s \in Session, \/ IntervalEnds(s) \/ FailingForLong(s)
                                  \/ Open(s) \/ Close(s) \/ Crash(s)
        PROVE  IInv'
    BY <1>7, Rests, Lives, Dies
  <1> QED
    BY <1>1, <1>2, <1>3, <1>4, <1>5, <1>6, <1>7 DEF Next

\* In every reachable state the invariant above holds of every session.
THEOREM Inductive == Spec => []IInv
  <1> QED
    BY Starts, Preserves, PTL DEF Spec

------------------------------------------------------------------------------
\* The health call

\* Of the events whose logging is over there is one to say: who was accepted stays so,
\* and no later event is among them.
Accounted(s, n) == n \in accepted[s] => Durable(s, n)

\* What a call has found so far is true now. Only a writer that could not start takes
\* events off the count without writing them.
ReadInv(s) ==
  /\ InHand(s) => issued[s] > 0
  /\ health[s].ready => step[s] \notin {"init", "refusing"}
  /\ reading[s].status \in Half =>
       /\ life[s] = "up" /\ reading[s].since <= Returned(s)
       /\ reading[s].status = "ready" => step[s] \notin {"init", "refusing"}
       /\ reading[s].pending = 0 =>
            \/ reading[s].status = "pending read" /\ step[s] = "refusing"
            \/ \A n \in 1..reading[s].since : Accounted(s, n)
  /\ reading[s].status = "healthy" /\ reading[s].pending = 0
       => \A n \in 1..reading[s].since : Durable(s, n)

ReadingOK == reading \in [Session -> [since : Nat, pending : Nat, status : {"none"} \cup Half \cup Status]]

RInv == ReadingOK /\ \A s \in Session : ReadInv(s)

\* With no event pending and none taken by a writer that could not start, every event
\* that got into the queue is in the database.
LEMMA NothingPending ==
  ASSUME IInv, NEW s \in Session, life[s] = "up", health[s].pending = 0, step[s] # "refusing",
         NEW n \in accepted[s]
  PROVE  Durable(s, n)
  <1>1. WriterOK /\ StepInv(s) /\ HandlerInv(s) /\ PlaceInv(s) /\ CountInv(s)
    BY DEF IInv, Local
  <1>2. ~Lost(s)
    BY <1>1 DEF Lost, StepInv
  <1>3. /\ Len(batch[s]) = 0
        /\ Len(queue[s]) = 0 \/ (Len(queue[s]) = 1 /\ FlushIn(s))
    <2>1. PICK q \in Nat : q = Len(queue[s])
      BY <1>1, Typed
    <2>2. PICK b \in Nat : b = Len(batch[s])
      BY <1>1, Typed
    <2>3. PICK f \in {0, 1} : f = Flushes(s) /\ (f = 1 => FlushIn(s))
      BY DEF Flushes
    <2>4. PICK h \in {0, 1} : h = Held(s)
      BY DEF Held
    <2>5. FlushIn(s) => q >= 1
      BY <2>1 DEF FlushIn
    <2>6. 0 + f = q + b + h
      BY <1>1, <2>1, <2>2, <2>3, <2>4 DEF CountInv
    <2>7. b = 0 /\ (q = 0 \/ (q = 1 /\ f = 1))
      <3>1. /\ q \in Nat /\ b \in Nat /\ (h = 0 \/ h = 1)
            /\ f = 0 \/ (f = 1 /\ q >= 1)
        BY <2>3, <2>5
      <3>2. CASE f = 0
        BY ONLY <2>6, <3>1, <3>2
      <3>3. CASE f = 1 /\ q >= 1
        BY ONLY <2>6, <3>1, <3>3
      <3> QED
        BY <3>1, <3>2, <3>3
    <2> QED
      BY <2>1, <2>2, <2>3, <2>7
  <1>4. ~InBatch(s, n)
    BY <1>3 DEF InBatch
  <1>5. ~InQueue(s, n)
    <2>1. \A i \in 1..Len(queue[s]) : queue[s][i] = Flush
      BY <1>3 DEF FlushIn
    <2>2. Flush.n = 0 /\ n # 0
      BY <1>1 DEF Flush, HandlerInv
    <2> QED
      BY <2>1, <2>2 DEF InQueue
  <1> QED
    BY <1>1, <1>2, <1>4, <1>5 DEF PlaceInv

\* What the readers of t need of a step: no event logged before is accepted now, and a
\* writer that could not start stays so.
Kept(t) ==
  /\ InHand(t)' => issued'[t] > 0
  /\ \A n \in Nat : n <= Returned(t) /\ n \in accepted'[t] => n \in accepted[t]
  /\ life'[t] = "up" => /\ Returned(t) <= Returned(t)'
                        /\ step[t] = "refusing" => step'[t] = "refusing"
  /\ step[t] \notin {"init", "refusing"} => step'[t] \notin {"init", "refusing"}
  /\ health'[t].ready => health[t].ready \/ step'[t] \notin {"init", "refusing"}
  /\ health[t].ready => step'[t] \notin {"init", "refusing"}

\* What any step does that is not a look of s's health call.
Goes(s) ==
  /\ \A n : Durable(s, n) => Durable(s, n)'
  /\ Kept(s)

LEMMA GoesOn ==
  ASSUME IInv, RInv, NEW s \in Session, Goes(s), reading'[s] = reading[s],
         reading[s].status \in Half => life'[s] = "up", IInv'
  PROVE  ReadInv(s)'
  <1>1. ReadInv(s) /\ reading[s].since \in Nat /\ Returned(s) \in Int /\ Returned(s)' \in Int
    <2>1. issued[s] \in Nat /\ issued'[s] \in Nat
      BY DEF IInv, WriterOK
    <2> QED
      BY <2>1 DEF RInv, ReadingOK, Returned
  <1>2. /\ health'[s].ready => step'[s] \notin {"init", "refusing"}
        /\ InHand(s)' => issued'[s] > 0
    BY <1>1 DEF ReadInv, Goes, Kept
  <1>3. ASSUME reading[s].status \in Half
        PROVE  /\ life'[s] = "up" /\ reading[s].since <= Returned(s)'
               /\ reading[s].status = "ready" => step'[s] \notin {"init", "refusing"}
               /\ reading[s].pending = 0 =>
                    \/ reading[s].status = "pending read" /\ step'[s] = "refusing"
                    \/ \A n \in 1..reading[s].since : Accounted(s, n)'
    <2>1. life'[s] = "up" /\ reading[s].since <= Returned(s)'
      <3>1. life'[s] = "up" /\ reading[s].since <= Returned(s)
        BY <1>1, <1>3 DEF ReadInv
      <3>2. Returned(s) <= Returned(s)'
        BY <3>1 DEF Goes, Kept
      <3>3. PICK a \in Nat, b \in Int, c \in Int :
              a = reading[s].since /\ b = Returned(s) /\ c = Returned(s)'
        BY <1>1
      <3>4. a <= b /\ b <= c
        BY <3>1, <3>2, <3>3
      <3>5. a <= c
        BY ONLY <3>4
      <3> QED
        BY <3>1, <3>3, <3>5
    <2>2. reading[s].status = "ready" => step'[s] \notin {"init", "refusing"}
      BY <1>1, <1>3 DEF ReadInv, Goes, Kept
    <2>3. CASE reading[s].status = "pending read" /\ step[s] = "refusing"
      BY <2>1, <2>2, <2>3 DEF Goes, Kept
    <2>4. ASSUME \A n \in 1..reading[s].since : Accounted(s, n), NEW n \in 1..reading[s].since,
                 n \in accepted'[s]
          PROVE  Durable(s, n)'
      <3>1. n <= Returned(s) /\ n \in Nat
        <4>1. reading[s].since <= Returned(s)
          BY <1>1, <1>3 DEF ReadInv
        <4>2. PICK a \in Nat, b \in Int : a = reading[s].since /\ b = Returned(s)
          BY <1>1
        <4>3. a <= b /\ n \in 1..a
          BY <2>4, <4>1, <4>2
        <4>4. n <= b /\ n \in Nat
          BY ONLY <4>3
        <4> QED
          BY <4>2, <4>4
      <3> QED
        BY <2>4, <3>1 DEF Accounted, Goes, Kept
    <2> QED
      BY <1>1, <1>3, <2>1, <2>2, <2>3, <2>4 DEF ReadInv, Accounted
  <1>4. reading[s].status = "healthy" /\ reading[s].pending = 0
          => \A n \in 1..reading[s].since : Durable(s, n)'
    BY <1>1 DEF ReadInv, Goes, Kept
  <1>5. reading'[s] = reading[s]
    OBVIOUS
  <1>6. reading[s].status \in Half =>
          /\ life'[s] = "up" /\ reading[s].since <= Returned(s)'
          /\ reading[s].status = "ready" => step'[s] \notin {"init", "refusing"}
          /\ reading[s].pending = 0 =>
               \/ reading[s].status = "pending read" /\ step'[s] = "refusing"
               \/ \A n \in 1..reading[s].since : Accounted(s, n)'
    BY <1>3
  <1>7. reading'[s].status \in Half =>
          /\ life'[s] = "up" /\ reading'[s].since <= Returned(s)'
          /\ reading'[s].status = "ready" => step'[s] \notin {"init", "refusing"}
          /\ reading'[s].pending = 0 =>
               \/ reading'[s].status = "pending read" /\ step'[s] = "refusing"
               \/ \A n \in 1..reading'[s].since : Accounted(s, n)'
    BY ONLY <1>5, <1>6
  <1> QED
    BY ONLY <1>2, <1>4, <1>5, <1>7 DEF ReadInv

\* The database grows.
LEMMA Grows ==
  ASSUME IInv, NEW a, Longer(a), NEW s, NEW n, Durable(s, n)
  PROVE  Durable(s, n)'
  <1>1. DOMAIN db.timeline = 1..Len(db.timeline)
    <2>1. db.timeline \in Seq(Line)
      BY DEF IInv, WriterOK
    <2> QED
      BY <2>1, LenProperties
  <1>2. PICK k \in 1..Len(db.timeline) : db.timeline[k].ses = s /\ db.timeline[k].n = n
    BY <1>1 DEF Durable
  <1>3. db'.timeline[k] = db.timeline[k] /\ k \in DOMAIN db'.timeline
    BY DEF Longer
  <1> QED
    BY <1>2, <1>3 DEF Durable

\* What is in the database stays there.
LEMMA DurableStays ==
  ASSUME IInv, Next, NEW t, NEW n, Durable(t, n)
  PROVE  Durable(t, n)'
  <1>0. WriterOK
    BY DEF IInv
  <1>1. CASE UNCHANGED db
    BY <1>1 DEF Durable
  <1>2. ASSUME NEW s \in Session, Initialize(s) PROVE Durable(t, n)'
    <2>1. DOMAIN db = {"rows", "timeline", "drops"}
      BY <1>0 DEF WriterOK
    <2>2. db'.timeline = db.timeline \o Ends
      BY <1>2, <2>1 DEF Initialize, Recovered, Ends
    <2>3. Ends \in Seq(Line)
      BY <1>0, RowsEnd
    <2>4. Longer(Ends)
      BY <1>0, <2>2, <2>3, Lengthened
    <2> QED
      BY <2>4, Grows
  <1>3. ASSUME NEW s \in Session, Commit(s) PROVE Durable(t, n)'
    <2>1. db'.timeline = db.timeline \o Lines(s)
      BY <1>3 DEF Commit, Lines
    <2>2. Longer(Lines(s))
      BY <1>0, <2>1, LinesAdded
    <2> QED
      BY <2>2, Grows
  <1>4. ASSUME NEW s \in Session,
               \/ \E r \in Request, state \in State : Log(s, r, state)
               \/ Handler(s)
               \/ HealthCall(s) \/ HealthLooks(s)
               \/ FlushCall(s) \/ FlushSend(s) \/ FlushTimesOut(s)
        PROVE  UNCHANGED db
    BY <1>4 DEF Log, Handler, Send, Logged, HealthCall, HealthLooks, FlushCall, FlushSend,
                FlushTimesOut
  <1>5. ASSUME NEW s \in Session, \/ InitializeFails(s) \/ Refuse(s) \/ Receive(s) \/ Park(s)
                                  \/ Committed(s) \/ CommitFails(s) \/ Answer(s)
        PROVE  UNCHANGED db
    BY <1>5 DEF InitializeFails, Refuse, Receive, Park, Committed, CommitFails, Answer
  <1>6. ASSUME NEW s \in Session, \/ IntervalEnds(s) \/ FailingForLong(s)
                                  \/ Open(s) \/ Close(s) \/ Crash(s)
        PROVE  UNCHANGED db
    BY <1>6 DEF IntervalEnds, FailingForLong, Open, Close, Crash
  <1> QED
    BY <1>1, <1>2, <1>3, <1>4, <1>5, <1>6 DEF Next, Writer

\* The handler's part, and the writer's.
Handled(t) ==
  /\ \/ accepted'[t] = accepted[t]
     \/ accepted'[t] = accepted[t] \cup {issued[t]} /\ InHand(t)
  /\ \/ issued'[t] = issued[t] /\ (InHand(t)' => InHand(t))
     \/ issued'[t] = issued[t] + 1 /\ InHand(t)' /\ ~InHand(t)
Written(t) ==
  /\ life'[t] = "up" /\ step[t] = "refusing" => step'[t] = "refusing"
  /\ step[t] \notin {"init", "refusing"} => step'[t] \notin {"init", "refusing"}
  /\ health'[t].ready => health[t].ready \/ step'[t] \notin {"init", "refusing"}
  /\ health[t].ready => step'[t] \notin {"init", "refusing"}

LEMMA HandledWritten ==
  ASSUME IInv, RInv, NEW t \in Session, Handled(t), Written(t)
  PROVE  Kept(t)
  <1>1. PICK i \in Nat : i = issued[t]
    BY DEF IInv, WriterOK
  <1>2. Returned(t) = (IF InHand(t) THEN i - 1 ELSE i)
    BY <1>1 DEF Returned
  <1>3. Returned(t)' = (IF InHand(t)' THEN issued'[t] - 1 ELSE issued'[t])
    BY DEF Returned
  <1>4. Returned(t) <= Returned(t)'
    <2>1. CASE issued'[t] = i /\ (InHand(t)' => InHand(t))
      BY <1>2, <1>3, <2>1
    <2>2. CASE issued'[t] = i + 1 /\ InHand(t)' /\ ~InHand(t)
      BY <1>2, <1>3, <2>2
    <2> QED
      BY <1>1, <2>1, <2>2 DEF Handled
  <1>5. ASSUME NEW n \in Nat, n <= Returned(t), n \in accepted'[t] PROVE n \in accepted[t]
    <2>1. CASE accepted'[t] = accepted[t] \cup {i} /\ InHand(t)
      <3>1. n <= i - 1
        BY <1>2, <1>5, <2>1
      <3>2. n # i
        BY ONLY <3>1
      <3> QED
        BY <1>5, <2>1, <3>2
    <2> QED
      BY <1>1, <1>5, <2>1 DEF Handled
  <1>6. InHand(t)' => issued'[t] > 0
    <2>1. InHand(t) => i > 0
      BY <1>1 DEF RInv, ReadInv
    <2>2. (issued'[t] = i /\ (InHand(t)' => InHand(t))) \/ issued'[t] = i + 1
      BY <1>1 DEF Handled
    <2>3. i + 1 > 0
      BY <1>1
    <2> QED
      BY <2>1, <2>2, <2>3
  <1> QED
    BY <1>4, <1>5, <1>6 DEF Written, Kept

\* A session that takes no step.
LEMMA OthersKeep ==
  ASSUME IInv, RInv, NEW t \in Session,
         life'[t] = life[t], issued'[t] = issued[t], accepted'[t] = accepted[t],
         logging'[t] = logging[t], step'[t] = step[t], health'[t].ready = health[t].ready
  PROVE  Kept(t)
  <1>1. Handled(t)
    BY DEF Handled, InHand
  <1>2. Written(t)
    BY DEF Written, RInv, ReadInv
  <1> QED
    BY <1>1, <1>2, HandledWritten

\* The sequences of handlers' steps.
LEMMA HandlersKeep ==
  ASSUME IInv, RInv, NEW s \in Session, NEW t \in Session,
         (\E r \in Request, state \in State : Log(s, r, state)) \/ Handler(s)
  PROVE  Kept(t)
  <1>0. /\ WriterOK /\ HandlerInv(s) /\ issued[s] \in Nat
        /\ logging \in [Session -> [at : {"idle", "send", "sent", "refused", "uncounted"},
                                    event : Event \cup {NoEvent}]]
        /\ issued \in [Session -> Nat] /\ accepted \in [Session -> SUBSET Nat]
        /\ health \in [Session -> [ready : BOOLEAN, pending : Nat, enqueued : Nat,
                                   committed : Nat, dropped : Nat]]
    BY DEF IInv, Local, WriterOK
  <1>1. Written(t)
    <2>1. /\ life' = life /\ step' = step
          /\ \/ health' = health
             \/ \E p : health' = [health EXCEPT ![s].pending = p]
             \/ \E p : health' = [health EXCEPT ![s].enqueued = p]
             \/ \E p : health' = [health EXCEPT ![s].dropped = p]
      <3>1. CASE \E r \in Request, state \in State : Log(s, r, state)
        BY <3>1 DEF Log, writer
      <3>2. CASE Send(s)
        BY <3>2 DEF Send, writer
      <3>3. CASE Logged(s)
        BY <3>3 DEF Logged, writer
      <3> QED
        BY <3>1, <3>2, <3>3 DEF Handler
    <2>2. health'[t].ready = health[t].ready
      <3>0. health \in [Session -> [ready : BOOLEAN, pending : Nat, enqueued : Nat,
                                    committed : Nat, dropped : Nat]]
        BY <1>0
      <3>1. ASSUME NEW p, health' = [health EXCEPT ![s].pending = p]
            PROVE  health'[t].ready = health[t].ready
        BY ONLY <3>0, <3>1, s \in Session, t \in Session
      <3>2. ASSUME NEW p, health' = [health EXCEPT ![s].enqueued = p]
            PROVE  health'[t].ready = health[t].ready
        BY ONLY <3>0, <3>2, s \in Session, t \in Session
      <3>3. ASSUME NEW p, health' = [health EXCEPT ![s].dropped = p]
            PROVE  health'[t].ready = health[t].ready
        BY ONLY <3>0, <3>3, s \in Session, t \in Session
      <3> QED
        BY <2>1, <3>1, <3>2, <3>3
    <2> QED
      BY <2>1, <2>2 DEF Written, RInv, ReadInv
  <1>2. Handled(t)
    <2>1. ASSUME NEW r \in Request, NEW state \in State, Log(s, r, state) PROVE Handled(t)
      <3>1. /\ logging[s].at = "idle" /\ accepted' = accepted
            /\ issued' = [issued EXCEPT ![s] = @ + 1]
            /\ logging' = [logging EXCEPT ![s] =
                 [at |-> "send", event |-> [n |-> issued[s] + 1, req |-> r, state |-> state]]]
        BY <2>1 DEF Log
      <3>2. CASE t = s
        BY <1>0, <3>1, <3>2 DEF Handled, InHand
      <3>3. CASE t # s
        BY <1>0, <3>1, <3>3 DEF Handled, InHand
      <3> QED
        BY <3>2, <3>3
    <2>2. ASSUME Send(s) PROVE Handled(t)
      <3>1. /\ logging[s].at = "send" /\ issued' = issued
            /\ \/ accepted' = accepted
               \/ accepted' = [accepted EXCEPT ![s] = @ \cup {logging[s].event.n}]
            /\ \A u \in Session \ {s} : logging'[u] = logging[u]
        BY <1>0, <2>2 DEF Send
      <3>2. logging[s].event.n = issued[s]
        BY <1>0, <3>1 DEF HandlerInv
      <3> QED
        BY <1>0, <3>1, <3>2 DEF Handled, InHand
    <2>3. ASSUME Logged(s) PROVE Handled(t)
      <3>1. /\ logging[s].at # "idle" /\ issued' = issued /\ accepted' = accepted
            /\ \A u \in Session \ {s} : logging'[u] = logging[u]
        BY <1>0, <2>3 DEF Logged
      <3> QED
        BY <3>1 DEF Handled, InHand
    <2> QED
      BY <2>1, <2>2, <2>3 DEF Handler
  <1> QED
    BY <1>1, <1>2, HandledWritten

\* Steps of the writer and of time.
LEMMA WriterKeeps ==
  ASSUME IInv, RInv, NEW s \in Session, NEW t \in Session,
         Writer(s) \/ IntervalEnds(s) \/ FailingForLong(s)
  PROVE  Kept(t)
  <1>0. /\ step \in [Session -> {"init", "refusing", "receive", "decide", "committed", "answer",
                                 "stopped", "abandoned"}]
        /\ health \in [Session -> [ready : BOOLEAN, pending : Nat, enqueued : Nat,
                                   committed : Nat, dropped : Nat]]
        /\ ReadInv(s) /\ ReadInv(t)
    BY DEF IInv, WriterOK, RInv
  <1>1. UNCHANGED <<life, issued, accepted, logging>>
    <2>1. CASE Initialize(s) \/ InitializeFails(s) \/ Refuse(s) \/ Receive(s) \/ Park(s)
      BY <2>1 DEF Initialize, InitializeFails, Refuse, Receive, Park, handlers
    <2>2. CASE Commit(s) \/ Committed(s) \/ CommitFails(s) \/ Answer(s)
      BY <2>2 DEF Commit, Committed, CommitFails, Answer, handlers
    <2>3. CASE IntervalEnds(s) \/ FailingForLong(s)
      BY <2>3 DEF IntervalEnds, FailingForLong, handlers
    <2> QED
      BY <2>1, <2>2, <2>3 DEF Writer
  <1>2. Handled(t)
    BY <1>1 DEF Handled, InHand
  <1>3. /\ \A u \in Session \ {s} : step'[u] = step[u] /\ health'[u].ready = health[u].ready
        /\ \/ step'[s] = step[s] /\ health'[s].ready = health[s].ready
           \/ step[s] = "init" /\ step'[s] = "receive"
           \/ /\ step[s] = "init" /\ step'[s] = "refusing"
              /\ health'[s].ready = health[s].ready
           \/ /\ step[s] = "refusing" /\ step'[s] = "abandoned" /\ life'[s] # "up"
              /\ health'[s].ready = health[s].ready
           \/ /\ step[s] \notin {"init", "refusing"} /\ step'[s] \notin {"init", "refusing"}
              /\ health'[s].ready = health[s].ready
    <2>1. CASE Initialize(s)
      BY <1>0, <2>1 DEF Initialize
    <2>2. CASE InitializeFails(s)
      BY <1>0, <2>2 DEF InitializeFails
    <2>3. CASE Refuse(s)
      BY <1>0, <1>1, <2>3 DEF Refuse
    <2>4. CASE Receive(s)
      BY <1>0, <2>4 DEF Receive
    <2>5. CASE Park(s) \/ Commit(s)
      BY <1>0, <2>5 DEF Park, Commit
    <2>6. CASE Committed(s)
      BY <1>0, <2>6 DEF Committed
    <2>7. CASE CommitFails(s)
      BY <1>0, <2>7 DEF CommitFails
    <2>8. CASE Answer(s)
      BY <1>0, <2>8 DEF Answer
    <2>9. CASE IntervalEnds(s) \/ FailingForLong(s)
      BY <2>9 DEF IntervalEnds, FailingForLong
    <2> QED
      BY <2>1, <2>2, <2>3, <2>4, <2>5, <2>6, <2>7, <2>8, <2>9 DEF Writer
  <1>4. Written(t)
    <2>1. CASE t # s
      BY <1>0, <1>3, <2>1 DEF Written, ReadInv
    <2>2. CASE t = s
      BY <1>0, <1>3, <2>2 DEF Written, ReadInv
    <2> QED
      BY <2>1, <2>2
  <1> QED
    BY <1>2, <1>4, HandledWritten

\* The flush call, and the beginning and end of a session but for its crash.
LEMMA OthersStepsKeep ==
  ASSUME IInv, RInv, NEW s \in Session, NEW t \in Session,
         \/ FlushCall(s) \/ FlushSend(s) \/ FlushTimesOut(s)
         \/ Open(s) \/ Close(s)
  PROVE  Kept(t)
  <1>1. UNCHANGED <<issued, accepted, logging, step, health>>
    BY DEF FlushCall, FlushSend, FlushTimesOut, Open, Close, handlers, writer
  <1>2. Handled(t)
    BY <1>1 DEF Handled, InHand
  <1>3. Written(t)
    BY <1>1 DEF Written, RInv, ReadInv
  <1> QED
    BY <1>2, <1>3, HandledWritten

\* While a call reads, its session stays up unless it crashes.
LEMMA CallsStay ==
  ASSUME IInv, RInv, Next, NEW t \in Session, reading[t].status \in Half
  PROVE  life'[t] = "up" \/ Crash(t)
  <1>1. life[t] = "up" /\ life \in [Session -> {"new", "up", "closed", "dead"}]
    BY DEF RInv, ReadInv, IInv, WriterOK
  <1>2. ASSUME NEW s \in Session,
               \/ \E r \in Request, state \in State : Log(s, r, state)
               \/ Handler(s)
               \/ HealthCall(s) \/ HealthLooks(s)
               \/ FlushCall(s) \/ FlushSend(s) \/ FlushTimesOut(s)
               \/ IntervalEnds(s) \/ FailingForLong(s)
        PROVE  life' = life
    BY <1>2 DEF Log, Handler, Send, Logged, HealthCall, HealthLooks, FlushCall, FlushSend,
                FlushTimesOut, IntervalEnds, FailingForLong
  <1>3. ASSUME NEW s \in Session, Writer(s) PROVE life' = life
    BY <1>3 DEF Writer, Initialize, InitializeFails, Refuse, Receive, Park, Commit, Committed,
                CommitFails, Answer
  <1>4. ASSUME NEW s \in Session, Open(s) PROVE life'[t] = "up"
    BY <1>1, <1>4 DEF Open
  <1>5. ASSUME NEW s \in Session, Close(s) PROVE life'[t] = "up"
    BY <1>1, <1>5 DEF Close
  <1>6. ASSUME NEW s \in Session, Crash(s) PROVE life'[t] = "up" \/ Crash(t)
    BY <1>1, <1>6 DEF Crash
  <1> QED
    BY <1>1, <1>2, <1>3, <1>4, <1>5, <1>6 DEF Next

\* The looks of a health call.
LEMMA Looks ==
  ASSUME IInv, RInv, NEW s \in Session, HealthCall(s) \/ HealthLooks(s)
  PROVE  RInv'
  <1>0. /\ reading \in [Session -> [since : Nat, pending : Nat,
                                    status : {"none"} \cup Half \cup Status]]
        /\ issued[s] \in Nat /\ health[s].pending \in Nat /\ health[s].dropped \in Nat
        /\ ReadInv(s)
    BY DEF RInv, ReadingOK, IInv, WriterOK
  <1>1. /\ UNCHANGED <<life, issued, accepted, logging, health, step, db>>
        /\ life[s] = "up"
    BY DEF HealthCall, HealthLooks, writer
  <1>2. ASSUME NEW t \in Session, reading'[t] = reading[t] PROVE ReadInv(t)'
    <2>1. ReadInv(t)
      BY DEF RInv
    <2>2. /\ Returned(t)' = Returned(t) /\ \A n : Durable(t, n)' <=> Durable(t, n)
          /\ InHand(t)' <=> InHand(t)
      BY <1>1 DEF Returned, InHand, Durable
    <2> QED
      BY <1>1, <1>2, <2>1, <2>2 DEF ReadInv, Accounted
  <1>3. CASE HealthCall(s)
    <2>1. Returned(s) \in Nat
      <3>1. logging[s].at = "idle" \/ issued[s] > 0
        BY <1>0 DEF ReadInv, InHand
      <3> QED
        BY <1>0, <3>1 DEF Returned, InHand
    <2>2. reading' = [reading EXCEPT ![s] = [since   |-> Returned(s),
                                             pending |-> health[s].pending,
                                             status  |-> "pending read"]]
      BY <1>3 DEF HealthCall
    <2>3. ReadingOK'
      BY <1>0, <2>1, <2>2 DEF ReadingOK, Half
    <2>4. /\ reading'[s].since = Returned(s) /\ reading'[s].pending = health[s].pending
          /\ reading'[s].status = "pending read"
          /\ \A t \in Session \ {s} : reading'[t] = reading[t]
      BY <1>0, <2>2
    <2>5. ReadInv(s)'
      <3>1. health[s].pending = 0 /\ step[s] # "refusing" => \A n \in accepted[s] : Durable(s, n)
        BY <1>1, NothingPending
      <3>2. /\ Returned(s)' = Returned(s) /\ \A n : Durable(s, n)' <=> Durable(s, n)
            /\ InHand(s)' <=> InHand(s)
        BY <1>1 DEF Returned, InHand, Durable
      <3>3. Returned(s) <= Returned(s)'
        BY <2>1, <3>2
      <3> QED
        BY <1>0, <1>1, <2>4, <3>1, <3>2, <3>3 DEF ReadInv, Accounted
    <2> QED
      BY <1>2, <2>3, <2>4, <2>5 DEF RInv
  <1>4. CASE HealthLooks(s)
    <2>1. reading' = [reading EXCEPT ![s].status = Look(s)] /\ reading[s].status \in Half
      BY <1>4 DEF HealthLooks
    <2>2. \/ /\ reading[s].status = "pending read" /\ Look(s) = "error"
          \/ /\ reading[s].status = "pending read" /\ Look(s) = "no error"
             /\ step[s] # "refusing"
          \/ /\ reading[s].status = "no error" /\ Look(s) = "initializing"
          \/ /\ reading[s].status = "no error" /\ Look(s) = "ready" /\ health[s].ready
          \/ /\ reading[s].status = "ready" /\ Look(s) \in {"gaps", "lagging"}
          \/ /\ reading[s].status = "ready" /\ Look(s) = "healthy"
             /\ ~(health[s].dropped > 0)
      BY <2>1 DEF Look, Half
    <2>3. ReadingOK'
      BY <1>0, <2>1, <2>2 DEF ReadingOK, Half, Status
    <2>4. /\ reading'[s].since = reading[s].since /\ reading'[s].pending = reading[s].pending
          /\ reading'[s].status = Look(s)
          /\ \A t \in Session \ {s} : reading'[t] = reading[t]
      BY <1>0, <2>1
    <2>5. ReadInv(s)'
      <3>1. /\ Returned(s)' = Returned(s) /\ \A n : Durable(s, n)' <=> Durable(s, n)
            /\ InHand(s)' <=> InHand(s)
        BY <1>1 DEF Returned, InHand, Durable
      <3>2. CASE Look(s) \in {"error", "initializing", "gaps", "lagging"}
        BY <1>0, <1>1, <2>4, <3>1, <3>2 DEF ReadInv, Half
      <3>3. CASE Look(s) = "no error" /\ step[s] # "refusing"
        BY <1>0, <1>1, <2>1, <2>4, <3>1, <3>3 DEF ReadInv, Accounted
      <3>4. CASE reading[s].status = "no error" /\ Look(s) = "ready" /\ health[s].ready
        BY <1>0, <1>1, <2>1, <2>4, <3>1, <3>4 DEF ReadInv, Accounted
      <3>5. CASE reading[s].status = "ready" /\ Look(s) = "healthy" /\ ~(health[s].dropped > 0)
        <4>1. ASSUME reading[s].pending = 0, NEW n \in 1..reading[s].since PROVE Durable(s, n)
          <5>1. Accounted(s, n)
            BY <1>0, <3>5, <4>1 DEF ReadInv, Half
          <5>2. reading[s].since <= Returned(s) /\ step[s] \notin {"init", "refusing"}
            BY <1>0, <3>5 DEF ReadInv, Half
          <5>3. n \in 1..issued[s] /\ (logging[s].at # "idle" => n # issued[s])
            <6>1. PICK i \in Nat, r \in Nat : i = issued[s] /\ r = reading[s].since
              BY <1>0
            <6>2. Returned(s) = (IF InHand(s) THEN i - 1 ELSE i)
              BY <6>1 DEF Returned
            <6>3. n \in 1..r /\ r <= (IF InHand(s) THEN i - 1 ELSE i)
              BY <4>1, <5>2, <6>1, <6>2
            <6>4. n \in 1..i /\ (InHand(s) => n # i)
              BY ONLY <6>3
            <6> QED
              BY <6>1, <6>4 DEF InHand
          <5>4. ~Lost(s)
            BY <1>1, <5>2 DEF Lost, IInv, Local, StepInv
          <5>5. n \in accepted[s]
            BY <3>5, <5>3, <5>4 DEF IInv, Local, PlaceInv
          <5> QED
            BY <5>1, <5>5 DEF Accounted
        <4>2. /\ health'[s].ready => step'[s] \notin {"init", "refusing"}
              /\ reading'[s].status \notin Half
              /\ InHand(s)' => issued'[s] > 0
          BY <1>0, <1>1, <2>4, <3>1, <3>5 DEF ReadInv, Half
        <4> QED
          BY <2>4, <3>1, <4>1, <4>2 DEF ReadInv
      <3> QED
        BY <2>2, <3>2, <3>3, <3>4, <3>5
    <2> QED
      BY <1>2, <2>3, <2>4, <2>5 DEF RInv
  <1> QED
    BY <1>3, <1>4

LEMMA ReadStarts ==
  ASSUME Init
  PROVE  RInv
  <1>1. ReadingOK
    BY DEF Init, ReadingOK, Unasked
  <1>2. ASSUME NEW s \in Session PROVE ReadInv(s)
    BY DEF Init, ReadInv, Unasked, Half, InHand, Fresh
  <1> QED
    BY <1>1, <1>2 DEF RInv

\* A crash takes the call with it.
LEMMA CallDies ==
  ASSUME IInv, RInv, Next, NEW s \in Session, Crash(s), IInv'
  PROVE  RInv'
  <1>0. /\ reading \in [Session -> [since : Nat, pending : Nat,
                                    status : {"none"} \cup Half \cup Status]]
        /\ health \in [Session -> [ready : BOOLEAN, pending : Nat, enqueued : Nat,
                                   committed : Nat, dropped : Nat]]
        /\ step \in [Session -> {"init", "refusing", "receive", "decide", "committed", "answer",
                                 "stopped", "abandoned"}]
        /\ logging \in [Session -> [at : {"idle", "send", "sent", "refused", "uncounted"},
                                    event : Event \cup {NoEvent}]]
        /\ life \in [Session -> {"new", "up", "closed", "dead"}]
    BY DEF RInv, ReadingOK, IInv, WriterOK
  <1>1. /\ reading' = [reading EXCEPT ![s] = Unasked]
        /\ health' = [health EXCEPT ![s] = Fresh]
        /\ step' = [step EXCEPT ![s] = "stopped"]
        /\ logging' = [logging EXCEPT ![s] = [at |-> "idle", event |-> NoEvent]]
        /\ life' = [life EXCEPT ![s] = "dead"]
        /\ UNCHANGED <<issued, accepted>>
    BY DEF Crash
  <1>2. ReadingOK'
    BY <1>0, <1>1 DEF ReadingOK, Unasked
  <1>3. ReadInv(s)'
    <2>1. /\ ~health'[s].ready /\ reading'[s].status = "none" /\ logging'[s].at = "idle"
      BY <1>0, <1>1 DEF Unasked, Fresh
    <2> QED
      BY <2>1 DEF ReadInv, Half, InHand
  <1>4. ASSUME NEW t \in Session \ {s} PROVE ReadInv(t)'
    <2>1. /\ life'[t] = life[t] /\ issued'[t] = issued[t] /\ accepted'[t] = accepted[t]
          /\ logging'[t] = logging[t] /\ step'[t] = step[t]
          /\ health'[t].ready = health[t].ready /\ reading'[t] = reading[t]
      BY <1>0, <1>1
    <2>2. Goes(t)
      BY <2>1, OthersKeep, DurableStays DEF Goes
    <2>3. reading[t].status \in Half => life'[t] = "up"
      BY <2>1 DEF RInv, ReadInv
    <2> QED
      BY <2>1, <2>2, <2>3, GoesOn
  <1> QED
    BY <1>2, <1>3, <1>4 DEF RInv

LEMMA ReadPreserves ==
  ASSUME IInv, RInv, [Next]_vars, IInv'
  PROVE  RInv'
  <1>1. CASE UNCHANGED vars
    <2>1. UNCHANGED <<life, issued, accepted, logging, health, reading, step, db>>
      BY <1>1 DEF vars
    <2>2. ReadingOK'
      BY <2>1 DEF RInv, ReadingOK
    <2>3. ASSUME NEW s \in Session PROVE ReadInv(s)'
      <3>1. ReadInv(s)
        BY DEF RInv
      <3>2. /\ Returned(s)' = Returned(s) /\ \A n : Durable(s, n)' <=> Durable(s, n)
            /\ InHand(s)' <=> InHand(s)
        BY <2>1 DEF Returned, InHand, Durable
      <3> QED
        BY <2>1, <3>1, <3>2 DEF ReadInv, Accounted
    <2> QED
      BY <2>2, <2>3 DEF RInv
  <1>2. CASE Next /\ \E s \in Session : HealthCall(s) \/ HealthLooks(s)
    BY <1>2, Looks
  <1>3. CASE Next /\ \E s \in Session : Crash(s)
    BY <1>3, CallDies
  <1>4. ASSUME Next, ~\E t \in Session : Crash(t), NEW s \in Session,
               \/ \E r \in Request, state \in State : Log(s, r, state)
               \/ Handler(s)
               \/ FlushCall(s) \/ FlushSend(s) \/ FlushTimesOut(s)
               \/ Writer(s)
               \/ IntervalEnds(s) \/ FailingForLong(s)
               \/ Open(s) \/ Close(s)
        PROVE  RInv'
    <2>1. UNCHANGED reading
      <3>1. CASE (\E r \in Request, state \in State : Log(s, r, state)) \/ Handler(s)
        BY <3>1 DEF Log, Handler, Send, Logged
      <3>2. CASE FlushCall(s) \/ FlushSend(s) \/ FlushTimesOut(s) \/ Open(s) \/ Close(s)
                 \/ IntervalEnds(s) \/ FailingForLong(s)
        BY <3>2 DEF FlushCall, FlushSend, FlushTimesOut, IntervalEnds, FailingForLong, Open,
                    Close, handlers
      <3>3. CASE Writer(s)
        BY <3>3 DEF Writer, Initialize, InitializeFails, Refuse, Receive, Park, Commit,
                    Committed, CommitFails, Answer, handlers
      <3> QED
        BY <1>4, <3>1, <3>2, <3>3
    <2>2. ASSUME NEW t \in Session PROVE ReadInv(t)'
      <3>1. Kept(t)
        BY <1>4, HandlersKeep, WriterKeeps, OthersStepsKeep
      <3>2. Goes(t)
        BY <1>4, <3>1, DurableStays DEF Goes
      <3>3. reading[t].status \in Half => life'[t] = "up"
        BY <1>4, CallsStay
      <3> QED
        BY <2>1, <3>2, <3>3, GoesOn
    <2> QED
      BY <2>1, <2>2 DEF RInv, ReadingOK
  <1> QED
    BY <1>1, <1>2, <1>3, <1>4 DEF Next

\* So have the looks of a health call.
THEOREM ReadsAreTrue == Spec => []RInv
  <1>1. Init => RInv
    BY ReadStarts
  <1>2. IInv /\ RInv /\ [Next]_vars /\ IInv' => RInv'
    BY ReadPreserves
  <1> QED
    BY <1>1, <1>2, Inductive, PTL DEF Spec

------------------------------------------------------------------------------
\* The theorems

\* The writer, the handlers and the database always have their types; no queue is longer
\* than its capacity, and no batch than the batch size.
THEOREM TypeCorrect == Spec => []TypeOK
  <1>1. IInv /\ RInv => TypeOK
    BY DEF IInv, RInv, ReadingOK, TypeOK
  <1> QED
    BY <1>1, Inductive, ReadsAreTrue, PTL

\* A flush the writer has answered with success has its events in the database: those in
\* the queue when it was called, whatever was in the way of the writer since.
THEOREM FlushesAreDurable == Spec => []FlushIsDurable
  <1>1. IInv => FlushIsDurable
    BY DEF IInv, Local, FlushInv, FlushIsDurable
  <1> QED
    BY <1>1, Inductive, PTL

\* A health call reads its counters one after the other while handlers and writer change
\* them, a refused event's two counts apart included; if it answers healthy with nothing
\* pending, every event whose logging was over when it was called is in the database.
THEOREM HealthTellsTheTruth == Spec => []HealthyMeansComplete
  <1>1. RInv => HealthyMeansComplete
    BY DEF RInv, ReadInv, HealthyMeansComplete
  <1> QED
    BY <1>1, ReadsAreTrue, PTL

\* However often the writer retries, and however many sessions crash and recover, an event
\* is in the timeline once and in order, and every row agrees with the timeline.
THEOREM HistoryIsStraight == Spec => []DurableHistory
  <1>1. IInv => DurableHistory
    BY DEF IInv
  <1> QED
    BY <1>1, Inductive, PTL

\* The lock file keeps the recovery of a session from requests that another session's
\* writer still works on.
THEOREM RecoveryExact == Spec => []RecoveryIsExact
  <1>1. IInv => RecoveryIsExact
    BY DEF IInv
  <1> QED
    BY <1>1, Inductive, PTL
==============================================================================
