------------------------- MODULE WebSocketRelayProofs -------------------------
(* Theorems about WebSocketRelay, for any numbers of messages, attempts and  *)
(* reconnections and any limits of queue and prelude.                        *)
EXTENDS WebSocketRelay, SequenceTheorems, FiniteSetTheorems, WellFoundedInduction,
        TLAPS

------------------------------------------------------------------------------
\* Sequences

\* Every nonempty set of numbers has a least one: induction without an operator.
LEMMA Least ==
  ASSUME NEW S \in SUBSET Nat, S # {}
  PROVE  \E n \in S : \A k \in S : n <= k
  <1>1. PICK n \in S : \A k \in S : ~(<<k, n>> \in OpToRel(<, Nat))
    BY NatLessThanWellFounded, WFMin
  <1>2. \A k \in S : ~(k < n)
    BY <1>1 DEF OpToRel
  <1> QED
    BY <1>2

\* What is retained of a sequence none of which is to go.
LEMMA RetainsAll ==
  ASSUME NEW s \in Seq(Messages), NEW of, \A i \in 1..Len(s) : s[i] \notin of
  PROVE  StillPending(s, of) = s
  <1> DEFINE retained[n \in 0..Len(s)] ==
               IF n = 0 THEN <<>>
               ELSE IF s[n] \in of THEN retained[n - 1] ELSE Append(retained[n - 1], s[n])
  <1>1. StillPending(s, of) = retained[Len(s)]
    BY DEF StillPending
  <1>2. \E f : f = [n \in 0..Len(s) |->
                      IF n = 0 THEN <<>>
                      ELSE IF s[n] \in of THEN f[n - 1] ELSE Append(f[n - 1], s[n])]
    <2> DEFINE f == [n \in 0..Len(s) |-> SubSeq(s, 1, n)]
    <2>1. f[0] = <<>>
      BY SubSeqProperties, EmptySeq
    <2>2. \A n \in 1..Len(s) : f[n] = Append(f[n - 1], s[n])
      <3> SUFFICES ASSUME NEW n \in 1..Len(s)
                   PROVE  SubSeq(s, 1, n) = Append(SubSeq(s, 1, n - 1), s[n])
        OBVIOUS
      <3> QED
        BY LenProperties
    <2>3. f = [n \in 0..Len(s) |-> f[n]]
      OBVIOUS
    <2> HIDE DEF f
    <2>4. \A n \in 0..Len(s) :
            f[n] = IF n = 0 THEN <<>>
                   ELSE IF s[n] \in of THEN f[n - 1] ELSE Append(f[n - 1], s[n])
      <3> SUFFICES ASSUME NEW n \in 0..Len(s), n # 0
                   PROVE  f[n] = IF s[n] \in of THEN f[n - 1] ELSE Append(f[n - 1], s[n])
        BY <2>1
      <3>1. n \in 1..Len(s)
        BY LenProperties
      <3> QED
        BY <2>2, <3>1
    <2> QED
      BY <2>3, <2>4
  <1>3. retained = [n \in 0..Len(s) |->
                      IF n = 0 THEN <<>>
                      ELSE IF s[n] \in of THEN retained[n - 1]
                                          ELSE Append(retained[n - 1], s[n])]
    BY <1>2
  <1> HIDE DEF retained
  <1>4. \A n \in 0..Len(s) : retained[n] = SubSeq(s, 1, n)
    <2> DEFINE Wrong == {n \in 0..Len(s) : retained[n] # SubSeq(s, 1, n)}
    <2> SUFFICES ASSUME Wrong # {} PROVE FALSE
      OBVIOUS
    <2>1. Wrong \in SUBSET Nat /\ Len(s) \in Nat
      BY LenProperties
    <2>2. PICK n \in Wrong : \A k \in Wrong : n <= k
      BY <2>1, Least
    <2>3. n # 0
      BY <1>3, SubSeqProperties, EmptySeq, LenProperties
    <2>4. n \in 1..Len(s) /\ n - 1 \in 0..Len(s) /\ ~(n <= n - 1)
      BY <2>1, <2>3
    <2>5. retained[n - 1] = SubSeq(s, 1, n - 1)
      BY <2>2, <2>4
    <2>6. retained[n] = Append(retained[n - 1], s[n])
      BY <1>3, <2>3, <2>4
    <2>7. SubSeq(s, 1, n) = Append(SubSeq(s, 1, n - 1), s[n])
      BY <2>4, LenProperties
    <2> QED
      BY <2>5, <2>6, <2>7
  <1>5. SubSeq(s, 1, Len(s)) = s
    BY LenProperties
  <1> QED
    BY <1>1, <1>4, <1>5, LenProperties

\* What is retained of one request that goes.
LEMMA RetainsNone ==
  ASSUME NEW m \in Messages
  PROVE  StillPending(<<m>>, {m}) = <<>> /\ StillPending(<<>>, {m}) = <<>>
  <1> DEFINE s == <<m>>
             retained[n \in 0..Len(s)] ==
               IF n = 0 THEN <<>>
               ELSE IF s[n] \in {m} THEN retained[n - 1] ELSE Append(retained[n - 1], s[n])
  <1>1. StillPending(s, {m}) = retained[Len(s)]
    BY DEF StillPending
  <1>2. \E f : f = [n \in 0..Len(s) |->
                      IF n = 0 THEN <<>>
                      ELSE IF s[n] \in {m} THEN f[n - 1] ELSE Append(f[n - 1], s[n])]
    <2> DEFINE f == [n \in 0..Len(s) |-> <<>>]
    <2>1. f = [n \in 0..Len(s) |->
                 IF n = 0 THEN <<>>
                 ELSE IF s[n] \in {m} THEN f[n - 1] ELSE Append(f[n - 1], s[n])]
      OBVIOUS
    <2> QED
      BY <2>1
  <1>3. retained = [n \in 0..Len(s) |->
                      IF n = 0 THEN <<>>
                      ELSE IF s[n] \in {m} THEN retained[n - 1]
                                           ELSE Append(retained[n - 1], s[n])]
    BY <1>2
  <1> HIDE DEF retained
  <1>4. Len(s) = 1 /\ s[1] = m
    OBVIOUS
  <1>5. retained[0] = <<>> /\ retained[1] = retained[0]
    BY <1>3, <1>4
  <1>6. StillPending(<<>>, {m}) = <<>>
    <2>1. <<>> \in Seq(Messages) /\ Len(<<>>) = 0
      BY EmptySeq
    <2>2. \A i \in 1..Len(<<>>) : <<>>[i] \notin {m}
      BY <2>1
    <2> QED
      BY <2>1, <2>2, RetainsAll
  <1> QED
    BY <1>1, <1>4, <1>5, <1>6

------------------------------------------------------------------------------
\* The inductive invariant

Logs     == [Messages -> {"none", "open", "succeeded", "failed", "cancelled"}]
Stages   == {"none", "got", "created", "output"}
Tracking == [pending : Seq(Messages), responses : SUBSET [id : Sendings, by : Messages],
             guards : SUBSET Messages]

Types ==
  /\ timed \in BOOLEAN /\ late \in BOOLEAN /\ carried \in BOOLEAN
  /\ phase \in Serving \cup {"ended"}
  /\ kinds \in Seq({"create", "named", "plain"}) /\ Len(kinds) <= MaxMessages
  /\ queue \in Seq(Messages) /\ Len(queue) <= QueueMessages
  /\ buffered \in Seq(Events) /\ Len(buffered) <= PreludeMessages
  /\ phase = "prelude" => Len(buffered) < PreludeMessages
  /\ attempts \in [Messages -> 0..MaxAttempts] /\ current \in Messages \cup {0}
  /\ reconnects \in 0..MaxReconnects /\ tracker \in Tracking /\ log \in Logs
  /\ upstream \in [Messages -> Stages]
  /\ worked \in SUBSET Sendings /\ client \in SUBSET [of : Sendings, completed : BOOLEAN]

\* The queue is the last messages received, and none of them was ever sent.
Unsent(m) == m > Len(kinds) - Len(queue)
QueueInv ==
  /\ Len(queue) <= Len(kinds)
  /\ \A i \in 1..Len(queue) : queue[i] = Len(kinds) - Len(queue) + i
  /\ \A m \in Messages : attempts[m] > 0 => ~Unsent(m)
  /\ \A m \in 1..Len(kinds) : Unsent(m) /\ Create(m) => log[m] = "open"

\* What the tracker knows of a request: whether it waits for its response to be created,
\* or has one; and of a response: whether it is attributed to a request, right or wrong.
IsPending(m) == \E i \in 1..Len(tracker.pending) : tracker.pending[i] = m
Bound(m)     == \E r \in tracker.responses : r.by = m
Owned(m)     == \E r \in tracker.responses : r.id = Sending(m)

\* Every request in flight is pending or has one response.
TrackerInv ==
  /\ \A i, j \in 1..Len(tracker.pending) :
       i < j => tracker.pending[i] < tracker.pending[j]
  /\ \A i \in 1..Len(tracker.pending) : tracker.pending[i] \in tracker.guards
  /\ \A r \in tracker.responses :
       r.by \in tracker.guards /\ r.id = Sending(r.id.msg) /\ ~IsPending(r.by)
  /\ \A r, q \in tracker.responses : r.by = q.by => r = q
  /\ \A m \in tracker.guards :
       /\ IsPending(m) \/ Bound(m)
       /\ m <= Len(kinds) /\ Create(m) /\ log[m] = "open" /\ attempts[m] > 0

\* Where the task is. A prelude is recovered of the message sent last, the only one in
\* flight; a refused one is nowhere, and nobody has begun to work on it.
NoneIsUp == \A m \in Messages : upstream[m] = "none"
TaskInv ==
  /\ phase \in {"first", "connecting", "ended"} =>
       buffered = <<>> /\ tracker = NoTracking /\ NoneIsUp
  /\ phase \in {"prelude", "backoff"} =>
       /\ current \in Messages /\ current = Len(kinds) - Len(queue)
       /\ tracker.guards = {current} /\ IsPending(current)
  /\ phase \notin {"prelude", "backoff"} => current = 0
  /\ phase = "prelude" => /\ \A i \in 1..Len(buffered) : buffered[i].kind = "created"
                          /\ buffered = <<>> => upstream[current] = "got"
  /\ phase = "backoff" => NoneIsUp /\ Sending(current) \notin worked

\* The stage of a message at the upstream once it has said ev.
After(ev) == IF ev.kind \in {"created", "output"} THEN ev.kind ELSE "none"

\* The events at hand are those of one message, the only one in flight, and lead from
\* what the tracker knows of it to its stage.
BufferOf(c) ==
  /\ tracker.guards = {c} /\ \A m \in Messages \ {c} : upstream[m] = "none"
  /\ \A r \in tracker.responses : r.id = Sending(r.by)
  /\ upstream[c] = After(buffered[Len(buffered)])
  /\ \A i \in 1..Len(buffered) :
       LET ev == buffered[i] IN
       /\ ev = Close \/ (ev.of = Sending(c) /\ ev.kind # "close")
       /\ ev.kind = "created" => i = 1 /\ ev.named /\ ~Bound(c)
       /\ ev.kind # "created" => i = Len(buffered)
       /\ ev.kind = "output" => ~ev.named
       /\ ev.kind = "completed" => ev.named
       /\ (ev.named /\ ev.kind # "created") \/ ev.kind = "output" => i = 2 \/ Bound(c)

\* With no events at hand the tracker knows every message the upstream has got.
FlightInv ==
  /\ buffered = <<>> =>
       \A m \in Messages : /\ upstream[m] = "got" => IsPending(m) /\ ~Owned(m)
                           /\ upstream[m] \in {"created", "output"} => Owned(m)
  /\ buffered # <<>> => \E c \in Messages : BufferOf(c)

\* What was worked on, and what the client has, is of the last sending of its message.
SentInv ==
  /\ \A s \in worked : s = Sending(s.msg)
  /\ \A e \in client : e.of = Sending(e.of.msg)
  /\ phase \in {"prelude", "backoff"} => \A e \in client : e.of.msg # current

\* If errors name their response while others are in flight, then a response is its own
\* request's, and the tracker knows the stage of every message.
Exact ==
  /\ \A r \in tracker.responses : r.id = Sending(r.by)
  /\ buffered = <<>> =>
       \A m \in Messages : /\ IsPending(m) => upstream[m] = "got"
                           /\ Bound(m) => upstream[m] \in {"created", "output"}

IInv == /\ Types /\ QueueInv /\ TrackerInv /\ TaskInv /\ FlightInv /\ SentInv
        /\ ~NamelessErrors => Exact /\ OutcomesRight

------------------------------------------------------------------------------
\* What the parts of the invariant say together

LEMMA Sizes ==
  ASSUME IInv
  PROVE  /\ Len(kinds) \in Nat /\ Len(kinds) <= MaxMessages /\ Len(queue) \in Nat
         /\ DOMAIN kinds = 1..Len(kinds) /\ DOMAIN kinds \subseteq Messages
         /\ MaxMessages \in Nat \ {0} /\ QueueMessages \in Nat \ {0}
         /\ Len(queue) <= QueueMessages /\ Len(queue) <= Len(kinds)
         /\ \A m \in Messages : attempts[m] > 0 => m <= Len(kinds) - Len(queue)
         /\ \A m \in Messages : attempts[m] \in Nat /\ m \in Nat
         /\ queue \in Seq(Messages)
  <1>1. kinds \in Seq({"create", "named", "plain"}) /\ queue \in Seq(Messages)
    BY DEF IInv, Types
  <1>2. Len(kinds) \in Nat /\ Len(queue) \in Nat /\ DOMAIN kinds = 1..Len(kinds)
    BY ONLY <1>1, LenProperties
  <1>3. /\ Len(kinds) <= MaxMessages /\ Len(queue) <= QueueMessages
        /\ Len(queue) <= Len(kinds) /\ attempts \in [Messages -> 0..MaxAttempts]
        /\ \A m \in Messages : attempts[m] > 0 => ~Unsent(m)
    BY DEF IInv, Types, QueueInv
  <1>4. MaxMessages \in Nat \ {0} /\ QueueMessages \in Nat \ {0}
    BY ConstantsOK
  <1>5. DOMAIN kinds \subseteq Messages /\ \A m \in Messages : m \in Nat
    BY <1>2, <1>3, <1>4 DEF Messages
  <1>6. \A m \in Messages : attempts[m] > 0 => m <= Len(kinds) - Len(queue)
    BY <1>2, <1>3, <1>5 DEF Unsent
  <1>7. \A m \in Messages : attempts[m] \in Nat
    BY <1>3
  <1> QED
    BY <1>1, <1>2, <1>3, <1>4, <1>5, <1>6, <1>7

LEMMA Guarded ==
  ASSUME IInv, NEW m \in tracker.guards
  PROVE  /\ m \in Messages /\ m \in 1..Len(kinds) /\ ~Unsent(m) /\ Create(m)
         /\ log[m] = "open" /\ attempts[m] \in 1..MaxAttempts /\ Sending(m) \in Sendings
  <1>1. m \in Messages /\ m <= Len(kinds) /\ Create(m) /\ log[m] = "open" /\ attempts[m] > 0
    BY DEF IInv, Types, Tracking, TrackerInv
  <1>2. attempts[m] \in 0..MaxAttempts /\ Len(kinds) \in Nat
    BY <1>1, LenProperties DEF IInv, Types
  <1> QED
    BY <1>1, <1>2, ConstantsOK DEF Messages, Sendings, Sending, IInv, QueueInv

LEMMA InFlight ==
  ASSUME IInv, NEW m \in Messages, upstream[m] # "none"
  PROVE  /\ attempts[m] > 0 /\ Sending(m) \in Sendings /\ tracker.guards # {}
         /\ phase \in {"open", "prelude"} /\ (phase = "prelude" => m = current)
  <1>1. phase \in {"open", "prelude"}
    BY DEF IInv, TaskInv, NoneIsUp, Types, Serving
  <1>2. attempts[m] \in 0..MaxAttempts /\ MaxAttempts \in Nat
    BY ConstantsOK DEF IInv, Types
  <1>3. CASE buffered = <<>>
    <2>1. IsPending(m) \/ Owned(m)
      BY <1>3 DEF IInv, FlightInv, Types, Stages
    <2>2. CASE IsPending(m)
      <3>1. m \in tracker.guards
        BY <2>2 DEF IInv, TrackerInv, IsPending
      <3>2. phase = "prelude" => m = current
        BY <3>1 DEF IInv, TaskInv
      <3> QED
        BY <1>1, <3>1, <3>2, Guarded, Sizes
    <2>3. CASE Owned(m)
      <3>1. PICK r \in tracker.responses : r.id = Sending(m)
        BY <2>3 DEF Owned
      <3>2. Sending(m) \in Sendings /\ r.by \in tracker.guards /\ ~IsPending(r.by)
        BY <3>1 DEF IInv, Types, Tracking, TrackerInv
      <3>3. attempts[m] \in 1..MaxAttempts
        BY <3>2 DEF Sending, Sendings
      <3>4. phase # "prelude"
        BY <3>2 DEF IInv, TaskInv
      <3> QED
        BY <1>1, <1>2, <3>2, <3>3, <3>4
    <2> QED
      BY <2>1, <2>2, <2>3
  <1>4. CASE buffered # <<>>
    <2>1. tracker.guards = {m}
      BY <1>4 DEF IInv, FlightInv, BufferOf
    <2>2. phase = "prelude" => m = current
      BY <2>1 DEF IInv, TaskInv
    <2> QED
      BY <1>1, <2>1, <2>2, Guarded, Sizes
  <1> QED
    BY <1>3, <1>4

\* The head of the queue.
LEMMA HeadOfQueue ==
  ASSUME IInv, queue # <<>>
  PROVE  LET m == Head(queue) IN
         /\ m \in Messages /\ m = Len(kinds) - Len(queue) + 1 /\ m \in 1..Len(kinds)
         /\ attempts[m] = 0 /\ m \notin tracker.guards /\ upstream[m] = "none"
         /\ \A s \in worked : s.msg # m
         /\ \A e \in client : e.of.msg # m
         /\ Create(m) => log[m] = "open"
  <1> DEFINE m == Head(queue)
  <1>1. queue \in Seq(Messages) /\ Len(queue) \in Nat \ {0} /\ Len(kinds) \in Nat
    BY EmptySeq, LenProperties DEF IInv, Types
  <1>2. m = queue[1] /\ m \in Messages
    BY <1>1, HeadTailProperties, ElementOfSeq
  <1>3. m = Len(kinds) - Len(queue) + 1 /\ m \in 1..Len(kinds) /\ Unsent(m)
    BY <1>1, <1>2 DEF IInv, QueueInv, Unsent
  <1>4. attempts[m] = 0
    BY <1>2, <1>3 DEF IInv, QueueInv, Types
  <1>5. m \notin tracker.guards
    BY <1>4, Guarded
  <1>6. upstream[m] = "none"
    BY <1>2, <1>4, InFlight
  <1>7. \A s \in worked : s.msg # m
    BY <1>4 DEF IInv, SentInv, Sending, Types, Sendings
  <1>8. ASSUME NEW e \in client, e.of.msg = m PROVE FALSE
    <2>1. e.of \in Sendings
      BY DEF IInv, Types
    <2>2. e.of.attempt \in 1..MaxAttempts
      BY <2>1 DEF Sendings
    <2>3. e.of = Sending(m) /\ Sending(m).attempt = attempts[m]
      BY <1>8 DEF IInv, SentInv, Sending
    <2> QED
      BY <1>4, <2>2, <2>3
  <1> QED
    BY <1>2, <1>3, <1>4, <1>5, <1>6, <1>7, <1>8 DEF IInv, QueueInv

------------------------------------------------------------------------------
\* The log

Final == {"succeeded", "failed", "cancelled"}

\* Finished gives an outcome to what is open, and to nothing else.
LEMMA FinishedIs ==
  ASSUME NEW l \in Logs, NEW of, NEW outcome \in Final
  PROVE  /\ Finished(l, of, outcome) \in Logs
         /\ \A m \in Messages :
              /\ m \notin of => Finished(l, of, outcome)[m] = l[m]
              /\ m \in of /\ l[m] = "open" => Finished(l, of, outcome)[m] = outcome
              /\ outcome # "succeeded" =>
                   (Finished(l, of, outcome)[m] = "succeeded" <=> l[m] = "succeeded")
  <1> DEFINE f == Finished(l, of, outcome)
  <1>1. \A m \in Messages : f[m] = IF m \in of /\ l[m] = "open" THEN outcome ELSE l[m]
    BY DEF Finished
  <1>2. f \in Logs
    BY DEF Finished, Logs, Final
  <1> QED
    BY <1>1, <1>2

\* A task that returns, or reconnects, starts over: nothing is in flight any more.
LEMMA Drops ==
  ASSUME IInv, NEW l \in Logs, NEW unsent, Returns(l) \/ Reconnects(l, unsent)
  PROVE  /\ phase' \in {"ended", "connecting"} /\ buffered' = <<>> /\ late' = FALSE
         /\ carried' = FALSE /\ reconnects' \in 0..MaxReconnects /\ tracker' \in Tracking
         /\ upstream' \in [Messages -> Stages] /\ current' = 0 /\ log' \in Logs
         /\ TrackerInv' /\ TaskInv' /\ FlightInv' /\ Exact'
         /\ \A m \in Messages : log'[m] = "succeeded" <=> l[m] = "succeeded"
         /\ queue' = <<>> \/ (/\ queue' = unsent
                              /\ \A m \in Messages \ tracker.guards : log'[m] = l[m])
  <1>1. /\ phase' \in {"ended", "connecting"} /\ buffered' = <<>> /\ late' = FALSE
        /\ carried' = FALSE /\ tracker' = NoTracking /\ upstream' = Nothing /\ current' = 0
    BY DEF Returns, Reconnects
  <1>2. reconnects' \in 0..MaxReconnects
    BY ConstantsOK DEF Returns, Reconnects, IInv, Types
  <1>3. NoTracking \in Tracking
    BY EmptySeq DEF NoTracking, Tracking
  <1>4. Nothing \in [Messages -> Stages] /\ \A m \in Messages : Nothing[m] = "none"
    BY DEF Nothing, Stages
  <1>5. /\ NoTracking.guards = {} /\ NoTracking.responses = {} /\ NoTracking.pending = <<>>
        /\ Len(<<>>) = 0
    BY DEF NoTracking
  <1>6. TrackerInv'
    BY <1>1, <1>5 DEF TrackerInv
  <1>7. TaskInv'
    BY <1>1, <1>4 DEF TaskInv, NoneIsUp
  <1>8. FlightInv' /\ Exact'
    BY <1>1, <1>4, <1>5 DEF FlightInv, Exact, IsPending, Bound
  <1>9. CASE Returns(l)
    <2>1. log' = Finished(l, Messages, "cancelled") /\ queue' = <<>>
      BY <1>9 DEF Returns
    <2> QED
      BY <1>1, <1>2, <1>3, <1>4, <1>6, <1>7, <1>8, <2>1, FinishedIs DEF Final
  <1>10. CASE Reconnects(l, unsent)
    <2> DEFINE failed == Finished(l, tracker.guards, "failed")
    <2>1. failed \in Logs /\ \A m \in Messages : failed[m] = "succeeded" <=> l[m] = "succeeded"
      BY FinishedIs DEF Final
    <2>2. \A m \in Messages \ tracker.guards : failed[m] = l[m]
      BY FinishedIs DEF Final
    <2>3. \/ log' = failed /\ queue' = unsent
          \/ log' = Finished(failed, Messages, "cancelled") /\ queue' = <<>>
      BY <1>10 DEF Reconnects, Returns
    <2> HIDE DEF failed
    <2> QED
      BY <1>1, <1>2, <1>3, <1>4, <1>6, <1>7, <1>8, <2>1, <2>2, <2>3, FinishedIs DEF Final
  <1> QED
    BY <1>9, <1>10

\* It does so without a word to the client, and having sent nothing.
LEMMA Quiet ==
  ASSUME IInv, UNCHANGED <<timed, kinds, attempts, worked, client>>,
         \/ Reconnects(log, queue) \/ Returns(log)
         \/ \E of \in SUBSET Messages : Returns(Finished(log, of, "failed"))
  PROVE  IInv'
  <1>1. log \in Logs
    BY DEF IInv, Types
  <1>2. PICK l \in Logs : /\ Returns(l) \/ (l = log /\ Reconnects(l, queue))
                          /\ \A m \in Messages : l[m] = "succeeded" <=> log[m] = "succeeded"
    BY <1>1, FinishedIs DEF Final
  <1>3. Returns(l) \/ Reconnects(l, queue)
    BY <1>2
  <1>4. /\ phase' \in {"ended", "connecting"} /\ buffered' = <<>> /\ late' = FALSE
        /\ carried' = FALSE /\ reconnects' \in 0..MaxReconnects /\ tracker' \in Tracking
        /\ upstream' \in [Messages -> Stages] /\ current' = 0 /\ log' \in Logs
        /\ TrackerInv' /\ TaskInv' /\ FlightInv' /\ Exact'
        /\ \A m \in Messages : log'[m] = "succeeded" <=> l[m] = "succeeded"
        /\ queue' = <<>> \/ (/\ queue' = queue
                             /\ \A m \in Messages \ tracker.guards : log'[m] = l[m])
    BY <1>3, Drops
  <1>5. queue' = <<>> \/ (l = log /\ queue' = queue)
    BY <1>2, <1>4 DEF Returns
  <1>6. Types'
    <2>1. /\ timed' \in BOOLEAN /\ late' \in BOOLEAN /\ carried' \in BOOLEAN
          /\ phase' \in Serving \cup {"ended"}
          /\ current' \in Messages \cup {0} /\ phase' # "prelude"
      BY <1>4 DEF IInv, Types, Serving
    <2>2. queue' \in Seq(Messages) /\ Len(queue') <= QueueMessages
      <3>1. <<>> \in Seq(Messages) /\ Len(<<>>) <= QueueMessages
        BY Sizes
      <3> QED
        BY <1>5, <3>1, Sizes
    <2>3. buffered' \in Seq(Events) /\ Len(buffered') <= PreludeMessages
      BY <1>4, ConstantsOK
    <2>4. /\ kinds' \in Seq({"create", "named", "plain"}) /\ Len(kinds') <= MaxMessages
          /\ attempts' \in [Messages -> 0..MaxAttempts]
          /\ worked' \in SUBSET Sendings
          /\ client' \in SUBSET [of : Sendings, completed : BOOLEAN]
      BY DEF IInv, Types
    <2> QED
      BY <1>4, <2>1, <2>2, <2>3, <2>4 DEF Types
  <1>7. QueueInv'
    <2>1. CASE queue' = <<>>
      <3>1. Len(queue') = 0
        BY <2>1
      <3>2. \A m \in Messages : attempts'[m] > 0 => ~(Unsent(m)')
        BY <3>1, Sizes DEF Unsent
      <3>3. \A m \in 1..Len(kinds') : ~(Unsent(m)')
        BY <3>1, Sizes DEF Unsent
      <3>4. Len(queue') <= Len(kinds') /\ \A i \in 1..Len(queue') : FALSE
        BY <3>1, Sizes
      <3> QED
        BY <3>2, <3>3, <3>4 DEF QueueInv
    <2>2. CASE queue' = queue /\ l = log
      <3>1. QueueInv /\ \A m \in 1..Len(kinds) : m \in Messages
        BY Sizes DEF IInv
      <3>2. \A m \in 1..Len(kinds) : Unsent(m) /\ Create(m) => log'[m] = "open"
        <4> SUFFICES ASSUME NEW m \in 1..Len(kinds), Unsent(m), Create(m)
                     PROVE  log'[m] = "open"
          OBVIOUS
        <4>1. m \in Messages \ tracker.guards /\ log[m] = "open"
          BY <3>1, Guarded DEF QueueInv
        <4>2. CASE queue' = <<>> /\ queue # <<>>
          BY <2>2, <4>2
        <4>3. CASE queue = <<>>
          <5>1. Len(queue) = 0
            BY <4>3
          <5> QED
            BY <5>1, Sizes DEF Unsent
        <4> QED
          BY <1>4, <2>2, <4>1, <4>2, <4>3
      <3> QED
        BY <2>2, <3>1, <3>2 DEF QueueInv, Unsent, Create
    <2> QED
      BY <1>5, <2>1, <2>2
  <1>8. SentInv'
    BY <1>4 DEF IInv, SentInv, Sending
  <1>9. ~NamelessErrors => OutcomesRight'
    <2>1. DOMAIN kinds \subseteq Messages
      BY Sizes
    <2>2. \A m \in Messages : log'[m] = "succeeded" <=> log[m] = "succeeded"
      BY <1>2, <1>4
    <2> QED
      BY <2>1, <2>2 DEF IInv, OutcomesRight, Create
  <1> QED
    BY <1>4, <1>6, <1>7, <1>8, <1>9 DEF IInv

------------------------------------------------------------------------------
\* The steps that end, or lose, a connection

LEMMA Losses ==
  ASSUME IInv, \/ ClientLeaves \/ ConnectFails \/ Rejects
               \/ PreludeTimesOut \/ UpstreamCloses \/ UpstreamBreaks
  PROVE  IInv'
  <1>1. UNCHANGED <<timed, kinds, attempts, worked, client>>
    BY DEF ClientLeaves, ConnectFails, Rejects, PreludeTimesOut, UpstreamCloses, UpstreamBreaks
  <1>3. CASE ClientLeaves \/ UpstreamBreaks
    <2>1. Returns(log) \/ Reconnects(log, queue)
      BY <1>3 DEF ClientLeaves, UpstreamBreaks
    <2> QED
      BY <1>1, <2>1, Quiet
  <1>4. CASE ConnectFails
    <2>1. Range(queue) \in SUBSET Messages
      BY Sizes, LenProperties DEF Range
    <2>2. Returns(Finished(log, Range(queue), "failed"))
      BY <1>4 DEF ConnectFails
    <2> QED
      BY <1>1, <2>1, <2>2, Quiet
  <1>5. CASE Rejects
    <2>1. Head(queue) \in Messages
      BY <1>5, HeadOfQueue DEF Rejects, Popping
    <2> QED
      BY <1>1, <1>5, <2>1, Quiet DEF Rejects
  <1>6. CASE PreludeTimesOut
    <2>1. current \in Messages
      BY <1>6 DEF PreludeTimesOut, IInv, TaskInv
    <2> QED
      BY <1>1, <1>6, <2>1, Quiet DEF PreludeTimesOut
  <1>7. CASE UpstreamCloses
    <2>1. tracker.guards \in SUBSET Messages
      BY DEF IInv, Types, Tracking
    <2> QED
      BY <1>1, <1>7, <2>1, Quiet DEF UpstreamCloses
  <1> QED
    BY <1>3, <1>4, <1>5, <1>6, <1>7

LEMMA TrackerKept ==
  ASSUME TrackerInv, UNCHANGED <<kinds, attempts, tracker, log>>
  PROVE  TrackerInv'
  BY DEF TrackerInv, Create, IsPending, Bound, Sending

LEMMA FlightKept ==
  ASSUME FlightInv, UNCHANGED <<buffered, tracker, upstream, attempts>>
  PROVE  FlightInv'
  BY DEF FlightInv, BufferOf, IsPending, Bound, Owned, Sending, After

LEMMA ExactKept ==
  ASSUME Exact, UNCHANGED <<buffered, tracker, upstream, attempts>>
  PROVE  Exact'
  BY DEF Exact, IsPending, Bound, Sending

LEMMA Waits ==
  ASSUME IInv, Connected \/ BudgetEnds
  PROVE  IInv'
  <1>1. /\ UNCHANGED <<timed, kinds, queue, attempts, current, buffered, reconnects,
                       tracker, log, upstream, worked, client>>
        /\ late' \in BOOLEAN /\ carried' \in BOOLEAN
        /\ phase' = phase \/ (phase = "connecting" /\ phase' = "open")
    BY DEF Connected, BudgetEnds, IInv, Types
  <1>2. phase' \in Serving \cup {"ended"} /\ (phase' = "prelude" => phase = "prelude")
    BY <1>1 DEF IInv, Types, Serving
  <1>3. Types'
    BY <1>1, <1>2 DEF IInv, Types
  <1>4. QueueInv' /\ (~NamelessErrors => Exact' /\ OutcomesRight')
    BY <1>1, ExactKept DEF IInv, QueueInv, Unsent, Create, OutcomesRight
  <1>6. TrackerInv'
    BY <1>1 DEF IInv, Create, TrackerInv, IsPending, Bound, Sending
  <1>7. FlightInv'
    BY <1>1, FlightKept DEF IInv
  <1>5. TaskInv' /\ SentInv'
    BY <1>1 DEF IInv, TaskInv, NoneIsUp, SentInv, Sending, IsPending
  <1> QED
    BY <1>3, <1>4, <1>5, <1>6, <1>7 DEF IInv

\* A write that fails has sent its message, once more, to nobody or to somebody.
LEMMA Writes ==
  ASSUME IInv, NEW m \in Messages, NEW began \in BOOLEAN, WriteFails(m, began),
         attempts[m] < MaxAttempts, Sending(m) \notin worked, m <= Len(kinds),
         \A e \in client : e.of.msg # m
  PROVE  /\ attempts' \in [Messages -> 0..MaxAttempts] /\ worked' \in SUBSET Sendings
         /\ \A k \in Messages \ {m} : attempts'[k] = attempts[k]
         /\ attempts'[m] = attempts[m] + 1
         /\ UNCHANGED <<timed, kinds, client>>
         /\ \A s \in worked' : s = Sending(s.msg)'
         /\ \A e \in client' : e.of = Sending(e.of.msg)'
  <1>1. attempts' = [attempts EXCEPT ![m] = @ + 1] /\ UNCHANGED <<timed, kinds, client>>
    BY DEF WriteFails
  <1>2. /\ attempts \in [Messages -> 0..MaxAttempts] /\ worked \in SUBSET Sendings
        /\ client \in SUBSET [of : Sendings, completed : BOOLEAN] /\ MaxAttempts \in Nat
    BY ConstantsOK DEF IInv, Types
  <1>3. /\ attempts' \in [Messages -> 0..MaxAttempts]
        /\ \A k \in Messages \ {m} : attempts'[k] = attempts[k]
        /\ attempts'[m] = attempts[m] + 1
    BY <1>1, <1>2
  <1>4. \A s \in worked : s.msg # m
    BY DEF IInv, SentInv
  <1>5. \A k \in Messages \ {m} : Sending(k)' = Sending(k)
    BY <1>3 DEF Sending
  <1>6. \A s \in worked : s \in Sendings /\ s.msg \in Messages \ {m}
    BY <1>2, <1>4 DEF Sendings
  <1>7. \A s \in worked : s = Sending(s.msg)'
    BY <1>5, <1>6 DEF IInv, SentInv
  <1>8. \A e \in client : e.of.msg \in Messages \ {m}
    BY <1>2 DEF Sendings
  <1>9. \A e \in client' : e.of = Sending(e.of.msg)'
    BY <1>1, <1>5, <1>8 DEF IInv, SentInv
  <1>10. worked' = worked \/ worked' = worked \cup {Sending(m)'}
    BY <1>3 DEF WriteFails, Sending
  <1>11. Sending(m)' \in Sendings /\ Sending(m)'.msg = m
    BY <1>2, <1>3 DEF Sending, Sendings
  <1> QED
    BY <1>1, <1>2, <1>3, <1>6, <1>7, <1>9, <1>10, <1>11

\* A connection lost in a write keeps the queue behind the message written.
LEMMA WritesLost ==
  ASSUME IInv, NEW m \in Messages, NEW began \in BOOLEAN, NEW l \in Logs, NEW unsent,
         WriteFails(m, began), Reconnects(l, unsent),
         attempts[m] < MaxAttempts, Sending(m) \notin worked, m <= Len(kinds),
         \A e \in client : e.of.msg # m,
         unsent \in Seq(Messages), Len(unsent) <= Len(queue), m <= Len(kinds) - Len(unsent),
         \A i \in 1..Len(unsent) : unsent[i] = Len(kinds) - Len(unsent) + i,
         \A k \in Messages : /\ l[k] = "succeeded" <=> log[k] = "succeeded"
                             /\ k # m => l[k] = log[k]
  PROVE  IInv'
  <1>1. /\ attempts' \in [Messages -> 0..MaxAttempts] /\ worked' \in SUBSET Sendings
        /\ \A k \in Messages \ {m} : attempts'[k] = attempts[k]
        /\ attempts'[m] = attempts[m] + 1
        /\ UNCHANGED <<timed, kinds, client>>
        /\ \A s \in worked' : s = Sending(s.msg)'
        /\ \A e \in client' : e.of = Sending(e.of.msg)'
    BY Writes
  <1>2. /\ phase' \in {"ended", "connecting"} /\ buffered' = <<>> /\ late' = FALSE
        /\ carried' = FALSE /\ reconnects' \in 0..MaxReconnects /\ tracker' \in Tracking
        /\ upstream' \in [Messages -> Stages] /\ current' = 0 /\ log' \in Logs
        /\ TrackerInv' /\ TaskInv' /\ FlightInv' /\ Exact'
        /\ \A k \in Messages : log'[k] = "succeeded" <=> l[k] = "succeeded"
        /\ queue' = <<>> \/ (/\ queue' = unsent
                             /\ \A k \in Messages \ tracker.guards : log'[k] = l[k])
    BY Drops
  <1>3. Len(unsent) \in Nat
    BY LenProperties
  <1>4. Types'
    <2>1. /\ timed' \in BOOLEAN /\ late' \in BOOLEAN /\ carried' \in BOOLEAN
          /\ phase' \in Serving \cup {"ended"}
          /\ current' \in Messages \cup {0} /\ phase' # "prelude"
      BY <1>1, <1>2 DEF IInv, Types, Serving
    <2>2. queue' \in Seq(Messages) /\ Len(queue') <= QueueMessages
      <3>1. <<>> \in Seq(Messages) /\ Len(<<>>) <= QueueMessages
        BY Sizes
      <3>2. Len(unsent) <= QueueMessages
        BY <1>3, Sizes
      <3> QED
        BY <1>2, <3>1, <3>2
    <2>3. buffered' \in Seq(Events) /\ Len(buffered') <= PreludeMessages
      BY <1>2, ConstantsOK
    <2>4. /\ kinds' \in Seq({"create", "named", "plain"}) /\ Len(kinds') <= MaxMessages
          /\ client' \in SUBSET [of : Sendings, completed : BOOLEAN]
      BY <1>1 DEF IInv, Types
    <2> QED
      BY <1>1, <1>2, <2>1, <2>2, <2>3, <2>4 DEF Types
  <1>5. QueueInv'
    <2>1. Len(kinds) \in Nat /\ \A k \in Messages : k \in Nat
      BY Sizes
    <2>2. \A k \in Messages : attempts'[k] > 0 => k <= Len(kinds) - Len(unsent)
      <3> SUFFICES ASSUME NEW k \in Messages \ {m}, attempts[k] > 0
                   PROVE  k <= Len(kinds) - Len(unsent)
        BY <1>1
      <3> QED
        BY <1>3, Sizes
    <2>3. CASE queue' = <<>>
      <3>1. Len(queue') = 0 /\ Len(kinds') = Len(kinds)
        BY <1>1, <2>3
      <3>2. \A k \in Messages : attempts'[k] > 0 => ~(Unsent(k)')
        BY <1>3, <2>1, <2>2, <3>1 DEF Unsent
      <3>3. \A k \in 1..Len(kinds') : ~(Unsent(k)')
        BY <2>1, <3>1 DEF Unsent
      <3>4. Len(queue') <= Len(kinds') /\ \A i \in 1..Len(queue') : FALSE
        BY <2>1, <3>1
      <3> QED
        BY <3>2, <3>3, <3>4 DEF QueueInv
    <2>4. CASE queue' = unsent /\ \A k \in Messages \ tracker.guards : log'[k] = l[k]
      <3>1. Len(queue') = Len(unsent) /\ Len(kinds') = Len(kinds)
        BY <1>1, <2>4
      <3>2. \A k \in Messages : attempts'[k] > 0 => ~(Unsent(k)')
        BY <1>3, <2>1, <2>2, <3>1 DEF Unsent
      <3>3. \A k \in 1..Len(kinds') : Unsent(k)' /\ Create(k)' => log'[k] = "open"
        <4> SUFFICES ASSUME NEW k \in 1..Len(kinds), k > Len(kinds) - Len(unsent), Create(k)
                     PROVE  log'[k] = "open"
          BY <1>1, <3>1 DEF Unsent, Create
        <4>1. k \in Messages \ {m} /\ Unsent(k)
          BY <1>3, Sizes DEF Unsent
        <4>2. k \notin tracker.guards /\ log[k] = "open"
          BY <4>1, Guarded DEF IInv, QueueInv
        <4> QED
          BY <2>4, <4>1, <4>2
      <3>4. /\ Len(queue') <= Len(kinds')
            /\ \A i \in 1..Len(queue') : queue'[i] = Len(kinds') - Len(queue') + i
        BY <1>3, <2>4, <3>1, Sizes
      <3> QED
        BY <3>2, <3>3, <3>4 DEF QueueInv
    <2> QED
      BY <1>2, <2>3, <2>4
  <1>6. SentInv'
    BY <1>1, <1>2 DEF SentInv
  <1>7. ~NamelessErrors => OutcomesRight'
    <2>1. DOMAIN kinds \subseteq Messages
      BY Sizes
    <2>2. \A k \in Messages : log'[k] = "succeeded" <=> log[k] = "succeeded"
      BY <1>2
    <2> QED
      BY <1>1, <2>1, <2>2 DEF IInv, OutcomesRight, Create
  <1> QED
    BY <1>2, <1>4, <1>5, <1>6, <1>7 DEF IInv

\* What is left of the queue when its head is taken.
LEMMA TailOfQueue ==
  ASSUME IInv, queue # <<>>
  PROVE  /\ Tail(queue) \in Seq(Messages) /\ Len(Tail(queue)) = Len(queue) - 1
         /\ Len(queue) > 0 /\ Head(queue) = Len(kinds) - Len(Tail(queue))
         /\ \A i \in 1..Len(Tail(queue)) :
              Tail(queue)[i] = Len(kinds) - Len(Tail(queue)) + i
  <1>1. queue \in Seq(Messages) /\ Len(queue) \in Nat /\ Len(kinds) \in Nat
    BY Sizes
  <1>2. /\ Tail(queue) \in Seq(Messages) /\ Len(Tail(queue)) = Len(queue) - 1
        /\ Len(queue) > 0
        /\ \A i \in 1..Len(Tail(queue)) : Tail(queue)[i] = queue[i + 1]
    BY <1>1, HeadTailProperties, EmptySeq
  <1>3. \A i \in 1..Len(Tail(queue)) : i + 1 \in 1..Len(queue)
    BY <1>1, <1>2
  <1>4. \A i \in 1..Len(queue) : queue[i] = Len(kinds) - Len(queue) + i
    BY DEF IInv, QueueInv
  <1>5. \A i \in 1..Len(Tail(queue)) : Tail(queue)[i] = Len(kinds) - Len(Tail(queue)) + i
    BY <1>1, <1>2, <1>3, <1>4
  <1>6. Head(queue) = Len(kinds) - Len(Tail(queue))
    BY <1>1, <1>2, HeadOfQueue
  <1> QED
    BY <1>2, <1>5, <1>6

LEMMA FailedWrites ==
  ASSUME IInv, NEW began \in BOOLEAN, SendFails(began) \/ ResendFails(began)
  PROVE  IInv'
  <1>1. CASE SendFails(began)
    <2> DEFINE m == Head(queue)
               l == Finished(log, {m}, "failed")
               unsent == Tail(queue)
    <2>1. queue # <<>> /\ WriteFails(m, began) /\ Reconnects(l, unsent)
      BY <1>1 DEF SendFails, Popping
    <2>2. /\ m \in Messages /\ m \in 1..Len(kinds) /\ attempts[m] = 0
          /\ \A s \in worked : s.msg # m
          /\ \A e \in client : e.of.msg # m
      BY <2>1, HeadOfQueue
    <2>3. Sending(m) \notin worked
      BY <2>2 DEF Sending
    <2>4. l \in Logs /\ \A k \in Messages : /\ l[k] = "succeeded" <=> log[k] = "succeeded"
                                            /\ k # m => l[k] = log[k]
      BY FinishedIs DEF IInv, Types, Final
    <2>5. /\ unsent \in Seq(Messages) /\ Len(unsent) = Len(queue) - 1
          /\ m = Len(kinds) - Len(unsent)
          /\ \A i \in 1..Len(unsent) : unsent[i] = Len(kinds) - Len(unsent) + i
      BY <2>1, TailOfQueue
    <2>6. Len(unsent) <= Len(queue) /\ m <= Len(kinds) /\ m <= Len(kinds) - Len(unsent)
      BY <2>2, <2>5, Sizes
    <2>7. attempts[m] < MaxAttempts
      BY <2>2, ConstantsOK
    <2> HIDE DEF m, l, unsent
    <2> QED
      BY ZenonT(40), <2>1, <2>2, <2>3, <2>4, <2>5, <2>6, <2>7, WritesLost
  <1>2. CASE ResendFails(began)
    <2>1. /\ phase = "backoff" /\ attempts[current] < MaxAttempts
          /\ WriteFails(current, began) /\ Reconnects(log, queue)
      BY <1>2 DEF ResendFails
    <2>2. /\ current \in Messages /\ current = Len(kinds) - Len(queue)
          /\ Sending(current) \notin worked /\ log \in Logs
          /\ \A e \in client : e.of.msg # current
          /\ \A i \in 1..Len(queue) : queue[i] = Len(kinds) - Len(queue) + i
      BY <2>1 DEF IInv, TaskInv, SentInv, Types, QueueInv
    <2>3. /\ current <= Len(kinds) /\ Len(queue) <= Len(queue)
          /\ current <= Len(kinds) - Len(queue) /\ queue \in Seq(Messages)
      BY <2>2, Sizes
    <2> QED
      BY <2>1, <2>2, <2>3, WritesLost
  <1> QED
    BY <1>1, <1>2

------------------------------------------------------------------------------
\* A message arrives

LEMMA Arrivals ==
  ASSUME IInv, NEW kind \in {"create", "named", "plain"},
         NEW model \in {"none", "valid", "invalid"}, ClientSends(kind, model)
  PROVE  IInv'
  <1> DEFINE m == Len(kinds) + 1
             logged == IF kind = "plain" THEN log ELSE [log EXCEPT ![m] = "open"]
  <1>1. /\ phase \in Serving /\ m <= MaxMessages /\ kinds' = Append(kinds, kind)
        /\ UNCHANGED <<timed, attempts, worked, client>>
    BY DEF ClientSends
  <1>2. m \in Nat /\ m \in Messages /\ m \notin 1..Len(kinds) /\ log \in Logs
    BY <1>1, Sizes DEF Messages, IInv, Types
  <1>3. /\ logged \in Logs /\ \A k \in Messages \ {m} : logged[k] = log[k]
        /\ kind # "plain" => logged[m] = "open"
    BY <1>2 DEF Logs
  <1>4. /\ kinds' \in Seq({"create", "named", "plain"}) /\ Len(kinds') = m /\ kinds'[m] = kind
        /\ DOMAIN kinds' = 1..m
        /\ \A k \in 1..Len(kinds) : kinds'[k] = kinds[k] /\ (Create(k)' <=> Create(k))
    <2>1. kinds \in Seq({"create", "named", "plain"})
      BY DEF IInv, Types
    <2>2. /\ kinds' \in Seq({"create", "named", "plain"}) /\ Len(kinds') = Len(kinds) + 1
          /\ kinds'[Len(kinds) + 1] = kind
          /\ \A k \in 1..Len(kinds) : kinds'[k] = kinds[k]
      BY ONLY <1>1, <2>1, AppendProperties
    <2>3. DOMAIN kinds' = 1..Len(kinds')
      BY <2>2, LenProperties
    <2> QED
      BY <2>2, <2>3 DEF Create
  <1>5. attempts[m] = 0
    BY <1>2, Sizes
  <1>6. m \notin tracker.guards
    BY <1>2, Guarded
  <1>7. \A s \in worked : s.msg # m
    BY <1>5 DEF IInv, SentInv, Sending, Types, Sendings
  <1>8. ASSUME NEW e \in client, e.of.msg = m PROVE FALSE
    <2>1. e.of \in Sendings
      BY DEF IInv, Types
    <2>2. e.of.attempt \in 1..MaxAttempts
      BY <2>1 DEF Sendings
    <2>3. e.of = Sending(m) /\ Sending(m).attempt = attempts[m]
      BY <1>8 DEF IInv, SentInv, Sending
    <2> QED
      BY <1>5, <2>2, <2>3
  <1> HIDE DEF m, logged
  <1>9. ASSUME log' \in Logs,
               \A k \in Messages : log'[k] = "succeeded" <=> logged[k] = "succeeded"
        PROVE  ~NamelessErrors => OutcomesRight'
    <2> SUFFICES ASSUME ~NamelessErrors, NEW k \in 1..m, Create(k)'
                 PROVE  log'[k] = "succeeded" <=> \E e \in client : e.of.msg = k /\ e.completed
      BY <1>1, <1>4 DEF OutcomesRight
    <2>1. CASE k = m
      BY <1>2, <1>3, <1>4, <1>8, <1>9, <2>1 DEF Create
    <2>2. CASE k \in 1..Len(kinds)
      <3>1. Create(k) /\ k \in Messages \ {m} /\ k \in DOMAIN kinds
        BY <1>2, <1>4, <2>2, Sizes
      <3>2. log'[k] = "succeeded" <=> log[k] = "succeeded"
        BY <1>3, <1>9, <3>1
      <3> QED
        BY <3>1, <3>2 DEF IInv, OutcomesRight
    <2>3. k = m \/ k \in 1..Len(kinds)
      BY Sizes DEF m
    <2> QED
      BY <2>1, <2>2, <2>3
  <1>10. Len(kinds') <= MaxMessages /\ Len(kinds') = Len(kinds) + 1
    BY <1>1, <1>4 DEF m
  <1>11. CASE \E of : Returns(Finished(logged, of, "failed"))
    <2>1. PICK l \in Logs : /\ Returns(l)
                            /\ \A k \in Messages : l[k] = "succeeded" <=> logged[k] = "succeeded"
      BY <1>3, <1>11, FinishedIs DEF Final
    <2>2. /\ phase' \in {"ended", "connecting"} /\ buffered' = <<>> /\ late' = FALSE
          /\ carried' = FALSE /\ reconnects' \in 0..MaxReconnects /\ tracker' \in Tracking
          /\ upstream' \in [Messages -> Stages] /\ current' = 0 /\ log' \in Logs
          /\ TrackerInv' /\ TaskInv' /\ FlightInv' /\ Exact'
          /\ \A k \in Messages : log'[k] = "succeeded" <=> l[k] = "succeeded"
      BY <2>1, Drops
    <2>3. queue' = <<>> /\ Len(queue') = 0
      BY <2>1 DEF Returns
    <2>4. ~NamelessErrors => OutcomesRight'
      BY <1>9, <2>1, <2>2
    <2>5. Types'
      <3>1. /\ timed' \in BOOLEAN /\ late' \in BOOLEAN /\ carried' \in BOOLEAN
            /\ phase' \in Serving \cup {"ended"}
            /\ current' \in Messages \cup {0} /\ phase' # "prelude"
        BY <1>1, <2>2 DEF IInv, Types, Serving
      <3>2. queue' \in Seq(Messages) /\ Len(queue') <= QueueMessages
        BY <2>3, Sizes
      <3>3. buffered' \in Seq(Events) /\ Len(buffered') <= PreludeMessages
        BY <2>2, ConstantsOK
      <3>4. /\ attempts' \in [Messages -> 0..MaxAttempts] /\ worked' \in SUBSET Sendings
            /\ client' \in SUBSET [of : Sendings, completed : BOOLEAN]
        BY <1>1 DEF IInv, Types
      <3> QED
        BY <1>4, <1>10, <2>2, <3>1, <3>2, <3>3, <3>4 DEF Types
    <2>6. QueueInv'
      <3>1. \A k \in Messages : attempts'[k] > 0 => ~(Unsent(k)')
        BY <1>1, <1>10, <2>3, Sizes DEF Unsent
      <3>2. \A k \in 1..Len(kinds') : ~(Unsent(k)')
        BY <1>10, <2>3, Sizes DEF Unsent
      <3> QED
        BY <1>10, <2>3, <3>1, <3>2, Sizes DEF QueueInv
    <2>7. SentInv'
      BY <1>1, <2>2 DEF IInv, SentInv, Sending
    <2> QED
      BY <2>2, <2>4, <2>5, <2>6, <2>7 DEF IInv
  <1>12. CASE /\ ~Full /\ queue' = Append(queue, m) /\ log' = logged
              /\ phase' = IF phase = "first" /\ model = "valid" THEN "connecting" ELSE phase
              /\ UNCHANGED <<current, buffered, budget, tracker, upstream>>
    <2>1. ~NamelessErrors => OutcomesRight'
      BY <1>3, <1>9, <1>12
    <2>2. /\ queue' \in Seq(Messages) /\ Len(queue') = Len(queue) + 1
          /\ queue'[Len(queue) + 1] = m
          /\ \A i \in 1..Len(queue) : queue'[i] = queue[i]
      BY <1>2, <1>12, Sizes, AppendProperties
    <2>3. Len(queue') <= QueueMessages
      BY <1>12, <2>2, Sizes DEF Full
    <2>4. UNCHANGED <<current, buffered, late, carried, reconnects, tracker, upstream>>
      BY <1>12 DEF budget
    <2>5. Types'
      <3>1. /\ timed' \in BOOLEAN /\ late' \in BOOLEAN /\ carried' \in BOOLEAN
            /\ phase' \in Serving \cup {"ended"}
            /\ current' \in Messages \cup {0} /\ (phase' = "prelude" => phase = "prelude")
        BY <1>1, <1>12, <2>4 DEF IInv, Types, Serving
      <3>2. buffered' \in Seq(Events) /\ Len(buffered') <= PreludeMessages
            /\ (phase' = "prelude" => Len(buffered') < PreludeMessages)
        BY <2>4, <3>1 DEF IInv, Types
      <3>3. /\ attempts' \in [Messages -> 0..MaxAttempts] /\ worked' \in SUBSET Sendings
            /\ client' \in SUBSET [of : Sendings, completed : BOOLEAN]
            /\ reconnects' \in 0..MaxReconnects /\ tracker' \in Tracking
            /\ upstream' \in [Messages -> Stages]
        BY <1>1, <2>4 DEF IInv, Types
      <3> QED
        BY <1>3, <1>4, <1>10, <1>12, <2>2, <2>3, <3>1, <3>2, <3>3 DEF Types
    <2>6. \A k \in Messages : Unsent(k)' <=> Unsent(k)
      BY <1>10, <2>2, Sizes DEF Unsent
    <2>7. QueueInv'
      <3>1. Len(queue') <= Len(kinds')
        BY <1>10, <2>2, Sizes
      <3>2. \A i \in 1..Len(queue') : queue'[i] = Len(kinds') - Len(queue') + i
        <4> SUFFICES ASSUME NEW i \in 1..Len(queue')
                     PROVE  queue'[i] = Len(kinds) - Len(queue) + i
          BY <1>10, <2>2, Sizes
        <4>1. CASE i \in 1..Len(queue)
          BY <2>2, <4>1 DEF IInv, QueueInv
        <4>2. CASE i = Len(queue) + 1
          BY <2>2, <4>2, Sizes DEF m
        <4>3. i \in 1..Len(queue) \/ i = Len(queue) + 1
          BY <2>2, Sizes
        <4> QED
          BY <4>1, <4>2, <4>3
      <3>3. \A k \in Messages : attempts'[k] > 0 => ~(Unsent(k)')
        BY <1>1, <2>6 DEF IInv, QueueInv
      <3>4. \A k \in 1..Len(kinds') : Unsent(k)' /\ Create(k)' => log'[k] = "open"
        <4> SUFFICES ASSUME NEW k \in 1..m, Unsent(k)', Create(k)' PROVE logged[k] = "open"
          BY <1>4, <1>12
        <4>1. CASE k = m
          BY <1>3, <1>4, <4>1 DEF Create
        <4>2. CASE k \in 1..Len(kinds)
          <5>1. k \in Messages \ {m}
            BY <1>2, <4>2, Sizes
          <5>2. log[k] = "open"
            BY <1>4, <2>6, <4>2, <5>1 DEF IInv, QueueInv
          <5> QED
            BY <1>3, <5>1, <5>2
        <4>3. k = m \/ k \in 1..Len(kinds)
          BY Sizes DEF m
        <4> QED
          BY <4>1, <4>2, <4>3
      <3> QED
        BY <3>1, <3>2, <3>3, <3>4 DEF QueueInv
    <2>8. TrackerInv'
      <3>1. \A k \in tracker.guards :
              k <= Len(kinds') /\ Create(k)' /\ log'[k] = "open" /\ attempts'[k] > 0
        <4> SUFFICES ASSUME NEW k \in tracker.guards
                     PROVE  k <= Len(kinds') /\ Create(k)' /\ log'[k] = "open" /\ attempts'[k] > 0
          OBVIOUS
        <4>1. k \in Messages \ {m} /\ k \in 1..Len(kinds) /\ Create(k) /\ log[k] = "open"
              /\ attempts[k] \in 1..MaxAttempts
          BY <1>6, Guarded
        <4> QED
          BY <1>1, <1>3, <1>4, <1>10, <1>12, <4>1, Sizes
      <3> QED
        BY <1>1, <2>4, <3>1 DEF IInv, TrackerInv, IsPending, Bound, Sending
    <2>9. TaskInv'
      <3>1. phase' \in {"first", "connecting", "ended"} =>
              phase \in {"first", "connecting", "ended"}
        BY <1>12
      <3>2. phase' \in {"prelude", "backoff"} => phase' = phase
        BY <1>12
      <3>3. phase' \notin {"prelude", "backoff"} => phase \notin {"prelude", "backoff"}
        BY <1>12
      <3>4. Len(kinds') - Len(queue') = Len(kinds) - Len(queue)
        BY <1>10, <2>2, Sizes
      <3> QED
        BY <1>1, <2>4, <3>1, <3>2, <3>3, <3>4 DEF IInv, TaskInv, NoneIsUp, IsPending, Sending
    <2>10. FlightInv' /\ (~NamelessErrors => Exact')
      BY <1>1, <2>4, FlightKept, ExactKept DEF IInv
    <2>11. SentInv'
      <3>1. phase' \in {"prelude", "backoff"} => phase' = phase
        BY <1>12
      <3> QED
        BY <1>1, <2>4, <3>1 DEF IInv, SentInv, Sending
    <2> QED
      BY <2>1, <2>5, <2>7, <2>8, <2>9, <2>10, <2>11 DEF IInv
  <1> QED
    BY <1>11, <1>12 DEF ClientSends, m, logged

------------------------------------------------------------------------------
\* The head of the queue is sent

LEMMA SendsHead ==
  ASSUME IInv, NEW fits \in BOOLEAN, Sends(fits)
  PROVE  IInv'
  <1> SUFFICES ASSUME NEW m \in Messages, m = Head(queue) PROVE IInv'
    BY HeadOfQueue DEF Sends, Popping
  <1>1. /\ phase = "open" /\ buffered = <<>> /\ queue # <<>> /\ queue' = Tail(queue)
        /\ UNCHANGED <<timed, kinds, buffered, reconnects, client, worked>>
        /\ attempts' = [attempts EXCEPT ![m] = @ + 1]
        /\ upstream' = [upstream EXCEPT ![m] = IF Create(m) THEN "got" ELSE @]
    BY DEF Sends, Popping, Arrives
  <1>2. /\ m \in Messages /\ m \in 1..Len(kinds) /\ attempts[m] = 0
        /\ m \notin tracker.guards /\ upstream[m] = "none"
        /\ \A s \in worked : s.msg # m
        /\ \A e \in client : e.of.msg # m
        /\ Create(m) => log[m] = "open"
    BY <1>1, HeadOfQueue
  <1>3. /\ queue' \in Seq(Messages) /\ Len(queue') = Len(queue) - 1
        /\ Len(queue) > 0 /\ m = Len(kinds) - Len(queue')
        /\ \A i \in 1..Len(queue') : queue'[i] = Len(kinds) - Len(queue') + i
    BY <1>1, TailOfQueue
  <1>4. /\ Create(m) => /\ tracker' = [tracker EXCEPT !.pending = Append(@, m),
                                                      !.guards = @ \cup {m}]
                        /\ log' = log
        /\ ~Create(m) => log' = Finished(log, {m}, "succeeded") /\ tracker' = tracker
    BY DEF Sends
  <1>5. \/ Create(m) /\ tracker.guards = {} /\ phase' = "prelude" /\ current' = m
        \/ phase' = phase /\ current' = current
    BY DEF Sends
  <1>6. late' \in BOOLEAN /\ carried' \in BOOLEAN
    BY DEF Sends, IInv, Types
  <1>7. /\ attempts' \in [Messages -> 0..MaxAttempts]
        /\ \A k \in Messages \ {m} : attempts'[k] = attempts[k] /\ Sending(k)' = Sending(k)
        /\ attempts'[m] = 1
        /\ \A s \in worked : s = Sending(s.msg)'
        /\ \A e \in client : e.of = Sending(e.of.msg)'
    <2>1. attempts \in [Messages -> 0..MaxAttempts] /\ MaxAttempts \in Nat \ {0}
      BY ConstantsOK DEF IInv, Types
    <2>2. /\ attempts' \in [Messages -> 0..MaxAttempts] /\ attempts'[m] = 1
          /\ \A k \in Messages \ {m} : attempts'[k] = attempts[k]
      BY <1>1, <1>2, <2>1
    <2>3. \A k \in Messages \ {m} : Sending(k)' = Sending(k)
      BY <2>2 DEF Sending
    <2>4. \A s \in worked : s.msg \in Messages \ {m}
      BY <1>2 DEF IInv, Types, Sendings
    <2>5. \A e \in client : e.of.msg \in Messages \ {m}
      BY <1>2 DEF IInv, Types, Sendings
    <2> QED
      BY <2>2, <2>3, <2>4, <2>5 DEF IInv, SentInv
  <1>8. /\ upstream' \in [Messages -> Stages]
        /\ \A k \in Messages \ {m} : upstream'[k] = upstream[k]
        /\ upstream'[m] = IF Create(m) THEN "got" ELSE "none"
    BY <1>1, <1>2 DEF IInv, Types, Stages
  <1>9. log' \in Logs /\ \A k \in Messages : (k # m \/ Create(m)) => log'[k] = log[k]
    <2>1. log \in Logs
      BY DEF IInv, Types
    <2>2. /\ Finished(log, {m}, "succeeded") \in Logs
          /\ \A k \in Messages \ {m} : Finished(log, {m}, "succeeded")[k] = log[k]
      BY <2>1, FinishedIs DEF Final
    <2> QED
      BY <1>4, <2>1, <2>2
  <1>10. tracker \in Tracking /\ tracker.pending \in Seq(Messages)
    BY DEF IInv, Types, Tracking
  <1>11. /\ tracker' \in Tracking /\ tracker'.responses = tracker.responses
         /\ tracker'.guards = IF Create(m) THEN tracker.guards \cup {m} ELSE tracker.guards
         /\ tracker'.pending = IF Create(m) THEN Append(tracker.pending, m) ELSE tracker.pending
    <2>1. CASE ~Create(m)
      BY <1>4, <1>10, <2>1
    <2>2. CASE Create(m)
      <3>1. Append(tracker.pending, m) \in Seq(Messages)
        BY <1>2, <1>10, AppendProperties
      <3>2. tracker' = [pending   |-> Append(tracker.pending, m),
                        responses |-> tracker.responses,
                        guards    |-> tracker.guards \cup {m}]
        BY <1>4, <1>10, <2>2 DEF Tracking
      <3>3. tracker.responses \in SUBSET [id : Sendings, by : Messages]
            /\ tracker.guards \cup {m} \in SUBSET Messages
        BY <1>2, <1>10 DEF Tracking
      <3> QED
        BY <2>2, <3>1, <3>2, <3>3 DEF Tracking
    <2> QED
      BY <2>1, <2>2
  <1>12. /\ Create(m) => /\ Len(tracker'.pending) = Len(tracker.pending) + 1
                         /\ tracker'.pending[Len(tracker.pending) + 1] = m
                         /\ \A i \in 1..Len(tracker.pending) :
                              tracker'.pending[i] = tracker.pending[i]
         /\ Len(tracker.pending) \in Nat
    BY <1>2, <1>10, <1>11, AppendProperties, LenProperties
  <1>13. \A k \in Messages : /\ IsPending(k)' <=> IsPending(k) \/ (Create(m) /\ k = m)
                             /\ Bound(k)' <=> Bound(k)
    <2>1. \A k \in Messages : Bound(k)' <=> Bound(k)
      BY <1>11 DEF Bound
    <2>2. ASSUME ~Create(m), NEW k \in Messages PROVE IsPending(k)' <=> IsPending(k)
      BY <1>11, <2>2 DEF IsPending
    <2>3. ASSUME Create(m), NEW k \in Messages
          PROVE  IsPending(k)' <=> IsPending(k) \/ k = m
      <3>1. \A i : i \in 1..(Len(tracker.pending) + 1) <=>
              i \in 1..Len(tracker.pending) \/ i = Len(tracker.pending) + 1
        BY <1>12
      <3> QED
        BY <1>12, <2>3, <3>1 DEF IsPending
    <2> QED
      BY <2>1, <2>2, <2>3
  <1>14. /\ ~IsPending(m) /\ ~Bound(m)
         /\ \A r \in tracker.responses : r.id = Sending(r.id.msg) /\ r.id.msg \in Messages \ {m}
    <2>1. ~IsPending(m) /\ ~Bound(m)
      BY <1>2 DEF IInv, TrackerInv, IsPending, Bound
    <2>2. ASSUME NEW r \in tracker.responses
          PROVE  r.id = Sending(r.id.msg) /\ r.id.msg \in Messages \ {m}
      <3>1. r.id \in Sendings /\ r.id = Sending(r.id.msg)
        BY <1>10 DEF Tracking, IInv, TrackerInv
      <3>2. r.id.attempt = attempts[r.id.msg]
        BY <3>1 DEF Sending
      <3> QED
        BY <1>2, <3>1, <3>2 DEF Sendings
    <2> QED
      BY <2>1, <2>2
  <1>15. Types'
    <2>1. /\ timed' \in BOOLEAN /\ phase' \in Serving \cup {"ended"}
          /\ current' \in Messages \cup {0}
      BY <1>1, <1>2, <1>5 DEF IInv, Types, Serving
    <2>2. queue' \in Seq(Messages) /\ Len(queue') <= QueueMessages
      BY <1>3, Sizes
    <2>3. buffered' \in Seq(Events) /\ Len(buffered') <= PreludeMessages
          /\ Len(buffered') < PreludeMessages
      BY <1>1, ConstantsOK
    <2>4. /\ kinds' \in Seq({"create", "named", "plain"}) /\ Len(kinds') <= MaxMessages
          /\ client' \in SUBSET [of : Sendings, completed : BOOLEAN]
          /\ worked' \in SUBSET Sendings /\ reconnects' \in 0..MaxReconnects
      BY <1>1 DEF IInv, Types
    <2> QED
      BY <1>6, <1>7, <1>8, <1>9, <1>11, <2>1, <2>2, <2>3, <2>4 DEF Types
  <1>16. QueueInv'
    <2>1. \A k \in Messages : Unsent(k)' <=> Unsent(k) /\ k # m
      BY <1>1, <1>3, Sizes DEF Unsent
    <2>2. \A k \in Messages : attempts'[k] > 0 => ~(Unsent(k)')
      BY <1>7, <2>1 DEF IInv, QueueInv
    <2>3. \A k \in 1..Len(kinds) : Unsent(k)' /\ Create(k)' => log'[k] = "open"
      BY <1>1, <1>9, <2>1, Sizes DEF IInv, QueueInv, Create
    <2>4. Len(queue') <= Len(kinds)
      BY <1>3, Sizes
    <2> QED
      BY <1>1, <1>3, <2>2, <2>3, <2>4 DEF QueueInv
  <1>17. TrackerInv'
    <2>1. \A k \in tracker'.guards :
            /\ IsPending(k)' \/ Bound(k)'
            /\ k <= Len(kinds') /\ Create(k)' /\ log'[k] = "open" /\ attempts'[k] > 0
      <3>1. ASSUME NEW k \in tracker.guards
            PROVE  /\ IsPending(k)' \/ Bound(k)'
                   /\ k <= Len(kinds') /\ Create(k)' /\ log'[k] = "open" /\ attempts'[k] > 0
        <4>1. /\ k \in Messages \ {m} /\ k \in 1..Len(kinds) /\ Create(k) /\ log[k] = "open"
              /\ attempts[k] \in 1..MaxAttempts /\ (IsPending(k) \/ Bound(k))
          BY <1>2, Guarded DEF IInv, TrackerInv
        <4>2. IsPending(k)' \/ Bound(k)'
          BY <1>13, <4>1
        <4>3. k <= Len(kinds') /\ Create(k)'
          BY <1>1, <4>1, Sizes DEF Create
        <4> QED
          BY <1>7, <1>9, <4>1, <4>2, <4>3
      <3>2. Create(m) => /\ IsPending(m)'
                         /\ m <= Len(kinds') /\ Create(m)' /\ log'[m] = "open"
                         /\ attempts'[m] > 0
        <4>1. Create(m) => IsPending(m)'
          BY <1>2, <1>13
        <4>2. m <= Len(kinds') /\ (Create(m) => Create(m)')
          BY <1>1, <1>2, Sizes DEF Create
        <4>3. (Create(m) => log'[m] = "open") /\ attempts'[m] > 0
          BY <1>2, <1>7, <1>9
        <4> QED
          BY <4>1, <4>2, <4>3
      <3> QED
        BY <1>11, <3>1, <3>2
    <2>2. \A r \in tracker'.responses :
            r.by \in tracker'.guards /\ r.id = Sending(r.id.msg)' /\ ~(IsPending(r.by)')
      <3> SUFFICES ASSUME NEW r \in tracker.responses
                   PROVE  /\ r.by \in tracker'.guards /\ r.id = Sending(r.id.msg)'
                          /\ ~(IsPending(r.by)')
        BY <1>11
      <3>1. r.by \in tracker.guards /\ ~IsPending(r.by)
        BY DEF IInv, TrackerInv
      <3>2. r.by \in Messages \ {m}
        BY <1>2, <3>1, Guarded
      <3> QED
        BY <1>7, <1>11, <1>13, <1>14, <3>1, <3>2
    <2>6. \A r, q \in tracker'.responses : r.by = q.by => r = q
      BY <1>11 DEF IInv, TrackerInv
    <2>3. \A i \in 1..Len(tracker.pending) :
            tracker.pending[i] \in tracker.guards /\ tracker.pending[i] < m
      <3> SUFFICES ASSUME NEW i \in 1..Len(tracker.pending)
                   PROVE  tracker.pending[i] \in tracker.guards /\ tracker.pending[i] < m
        OBVIOUS
      <3>1. tracker.pending[i] \in tracker.guards
        BY DEF IInv, TrackerInv
      <3>2. tracker.pending[i] \in Messages /\ attempts[tracker.pending[i]] > 0
        BY <3>1, Guarded
      <3>3. tracker.pending[i] <= Len(kinds) - Len(queue)
        BY <3>2, Sizes
      <3> QED
        BY SMTT(30), <1>3, <3>1, <3>2, <3>3, Sizes
    <2>4. \A i, j \in 1..Len(tracker.pending) :
            i < j => tracker.pending[i] < tracker.pending[j]
      BY DEF IInv, TrackerInv
    <2>5. /\ \A i, j \in 1..Len(tracker'.pending) :
               i < j => tracker'.pending[i] < tracker'.pending[j]
          /\ \A i \in 1..Len(tracker'.pending) : tracker'.pending[i] \in tracker'.guards
      <3>1. CASE ~Create(m)
        BY <1>11, <2>3, <2>4, <3>1
      <3>2. CASE Create(m)
        <4>1. \A i \in 1..Len(tracker'.pending) :
                i \in 1..Len(tracker.pending) \/ i = Len(tracker.pending) + 1
          BY <1>12, <3>2
        <4>2. \A i \in 1..Len(tracker'.pending) : tracker'.pending[i] \in tracker'.guards
          BY <1>11, <1>12, <2>3, <3>2, <4>1
        <4>3. \A i, j \in 1..Len(tracker'.pending) :
                i < j => tracker'.pending[i] < tracker'.pending[j]
          <5> SUFFICES ASSUME NEW i \in 1..Len(tracker'.pending),
                              NEW j \in 1..Len(tracker'.pending), i < j
                       PROVE  tracker'.pending[i] < tracker'.pending[j]
            OBVIOUS
          <5>1. i \in 1..Len(tracker.pending)
            BY <1>12, <3>2, <4>1
          <5>2. CASE j \in 1..Len(tracker.pending)
            BY <1>12, <2>4, <3>2, <5>1, <5>2
          <5>3. CASE j = Len(tracker.pending) + 1
            BY <1>12, <2>3, <3>2, <5>1, <5>3
          <5> QED
            BY <4>1, <5>2, <5>3
        <4> QED
          BY <4>2, <4>3
      <3> QED
        BY <3>1, <3>2
    <2> QED
      BY <2>1, <2>2, <2>5, <2>6 DEF TrackerInv
  <1>18. TaskInv'
    <2>1. CASE Create(m) /\ tracker.guards = {} /\ phase' = "prelude" /\ current' = m
      <3>1. tracker'.guards = {current'} /\ IsPending(current)'
        BY <1>2, <1>11, <1>13, <2>1
      <3>2. current' \in Messages /\ current' = Len(kinds') - Len(queue')
        BY <1>1, <1>2, <1>3, <2>1
      <3>3. (\A i \in 1..Len(buffered') : FALSE) /\ upstream'[current'] = "got"
        BY <1>1, <1>8, <2>1
      <3> QED
        BY <2>1, <3>1, <3>2, <3>3 DEF TaskInv
    <2>2. CASE phase' = phase /\ current' = current
      <3>1. current = 0
        BY <1>1 DEF IInv, TaskInv
      <3> QED
        BY <1>1, <2>2, <3>1 DEF TaskInv
    <2> QED
      BY <1>5, <2>1, <2>2
  <1>19. FlightInv' /\ (~NamelessErrors => Exact')
    <2>1. \A k \in Messages : /\ upstream[k] = "got" => IsPending(k) /\ ~Owned(k)
                              /\ upstream[k] \in {"created", "output"} => Owned(k)
      BY <1>1 DEF IInv, FlightInv
    <2>2. \A k \in Messages : Sending(k).msg = k /\ Sending(k)'.msg = k
      BY DEF Sending
    <2>3. ~(Owned(m)') /\ \A k \in Messages \ {m} : Owned(k)' <=> Owned(k)
      BY <1>7, <1>11, <1>14, <2>2 DEF Owned
    <2>4. ASSUME NEW k \in Messages
          PROVE  /\ upstream'[k] = "got" => IsPending(k)' /\ ~(Owned(k)')
                 /\ upstream'[k] \in {"created", "output"} => Owned(k)'
      BY <1>2, <1>8, <1>13, <1>14, <2>1, <2>3
    <2>5. FlightInv'
      BY <1>1, <2>4 DEF FlightInv
    <2>6. ASSUME ~NamelessErrors PROVE Exact'
      <3>1. \A k \in Messages : /\ IsPending(k) => upstream[k] = "got"
                                /\ Bound(k) => upstream[k] \in {"created", "output"}
        BY <1>1, <2>6 DEF IInv, Exact
      <3>2. \A k \in Messages : /\ IsPending(k)' => upstream'[k] = "got"
                                /\ Bound(k)' => upstream'[k] \in {"created", "output"}
        BY <1>8, <1>13, <1>14, <3>1
      <3>3. \A r \in tracker.responses : r.id = Sending(r.by) /\ r.id.msg = r.by
        BY <2>2, <2>6 DEF IInv, Exact, Sending
      <3>4. \A r \in tracker'.responses : r.id = Sending(r.by)'
        BY <1>7, <1>11, <1>14, <3>3
      <3> QED
        BY <3>2, <3>4 DEF Exact
    <2> QED
      BY <2>5, <2>6
  <1>20. SentInv'
    BY <1>1, <1>2, <1>5, <1>7 DEF SentInv
  <1>21. ~NamelessErrors => OutcomesRight'
    <2> SUFFICES ASSUME ~NamelessErrors, NEW k \in DOMAIN kinds, Create(k)
                 PROVE  log'[k] = "succeeded" <=> \E e \in client : e.of.msg = k /\ e.completed
      BY <1>1 DEF OutcomesRight, Create
    <2>1. k \in Messages /\ log'[k] = log[k]
      BY <1>9, Sizes
    <2> QED
      BY <2>1 DEF IInv, OutcomesRight
  <1> QED
    BY <1>15, <1>16, <1>17, <1>18, <1>19, <1>20, <1>21 DEF IInv

------------------------------------------------------------------------------
\* The upstream works, and a prelude is recovered

LEMMA WorksOn ==
  ASSUME IInv, NEW m \in Messages, Works(m)
  PROVE  IInv'
  <1>1. /\ upstream[m] \in {"got", "created"} /\ worked' = worked \cup {Sending(m)}
        /\ UNCHANGED <<timed, phase, queue, current, buffered, late, carried, reconnects,
                       tracker, log, upstream, kinds, attempts, client>>
    BY DEF Works, task, budget
  <1>2. phase \in {"open", "prelude"} /\ Sending(m) \in Sendings
    BY <1>1, InFlight
  <1>3. Sending(m).msg = m
    BY DEF Sending
  <1>4. Types'
    BY <1>1, <1>2 DEF IInv, Types
  <1>5. QueueInv' /\ (~NamelessErrors => Exact' /\ OutcomesRight')
    BY <1>1, ExactKept DEF IInv, QueueInv, Unsent, Create, OutcomesRight
  <1>6. TrackerInv'
    BY <1>1 DEF IInv, Create, TrackerInv, IsPending, Bound, Sending
  <1>7. FlightInv'
    BY <1>1, FlightKept DEF IInv
  <1>8. TaskInv'
    BY <1>1, <1>2 DEF IInv, TaskInv, NoneIsUp, IsPending
  <1>9. SentInv'
    BY <1>1, <1>3 DEF IInv, SentInv, Sending
  <1> QED
    BY <1>4, <1>5, <1>6, <1>7, <1>8, <1>9 DEF IInv

\* What the recovery of a prelude leaves alone, and what it needs from its step.
LEMMA Recovering ==
  ASSUME IInv, phase \in {"prelude", "backoff"},
         UNCHANGED <<timed, kinds, queue, attempts, carried, reconnects, tracker, log, client>>,
         late' \in BOOLEAN, worked' \in SUBSET Sendings,
         \A s \in worked' : s = Sending(s.msg),
         upstream' \in [Messages -> Stages],
         buffered' \in Seq(Events), Len(buffered') <= PreludeMessages,
         FlightInv', ~NamelessErrors => Exact',
         \/ phase' = "open" /\ current' = 0
         \/ /\ phase' = "prelude" /\ current' = current /\ Len(buffered') < PreludeMessages
            /\ buffered' # <<>>
            /\ \A i \in 1..Len(buffered') : buffered'[i].kind = "created"
         \/ /\ phase' = "backoff" /\ current' = current
            /\ \A k \in Messages : upstream'[k] = "none"
            /\ Sending(current) \notin worked'
  PROVE  IInv'
  <1>1. Types'
    <2>1. /\ timed' \in BOOLEAN /\ carried' \in BOOLEAN
          /\ phase' \in Serving \cup {"ended"} /\ current' \in Messages \cup {0}
          /\ (phase' = "prelude" => Len(buffered') < PreludeMessages)
      BY DEF IInv, Types, Serving
    <2>2. /\ kinds' \in Seq({"create", "named", "plain"}) /\ Len(kinds') <= MaxMessages
          /\ queue' \in Seq(Messages) /\ Len(queue') <= QueueMessages
          /\ attempts' \in [Messages -> 0..MaxAttempts]
          /\ reconnects' \in 0..MaxReconnects /\ tracker' \in Tracking /\ log' \in Logs
          /\ client' \in SUBSET [of : Sendings, completed : BOOLEAN]
      BY DEF IInv, Types
    <2> QED
      BY <2>1, <2>2 DEF Types
  <1>2. QueueInv' /\ (~NamelessErrors => OutcomesRight')
    BY DEF IInv, QueueInv, Unsent, Create, OutcomesRight
  <1>3. TrackerInv'
    BY DEF IInv, Create, TrackerInv, IsPending, Bound, Sending
  <1>4. TaskInv'
    <2>1. /\ current \in Messages /\ current = Len(kinds) - Len(queue)
          /\ tracker.guards = {current} /\ IsPending(current)
      BY DEF IInv, TaskInv
    <2>2. CASE phase' = "open" /\ current' = 0
      BY <2>2 DEF TaskInv
    <2>3. CASE phase' = "prelude" /\ current' = current
      BY <2>1, <2>3 DEF TaskInv, IsPending
    <2>4. CASE phase' = "backoff" /\ current' = current
      BY <2>1, <2>4 DEF TaskInv, IsPending, NoneIsUp, Sending
    <2> QED
      BY <2>2, <2>3, <2>4
  <1>5. SentInv'
    BY DEF IInv, SentInv, Sending
  <1> QED
    BY <1>1, <1>2, <1>3, <1>4, <1>5 DEF IInv

\* What a prelude holds while it is undecided: the creation of its response, or nothing.
LEMMA Prelude ==
  ASSUME IInv, phase = "prelude"
  PROVE  /\ current \in Messages /\ tracker.guards = {current} /\ tracker.responses = {}
         /\ \A k \in Messages \ {current} : upstream[k] = "none"
         /\ Len(buffered) \in {0, 1} /\ buffered \in Seq(Events)
         /\ Len(buffered) < PreludeMessages /\ PreludeMessages \in Nat
         /\ Len(buffered) = 0 => upstream[current] = "got"
         /\ Len(buffered) = 1 =>
              /\ upstream[current] = "created"
              /\ buffered[1].of = Sending(current) /\ buffered[1].kind = "created"
              /\ buffered[1].named
  <1>1. /\ current \in Messages /\ tracker.guards = {current} /\ IsPending(current)
        /\ buffered \in Seq(Events) /\ Len(buffered) < PreludeMessages
        /\ PreludeMessages \in Nat /\ Len(buffered) \in Nat
        /\ \A i \in 1..Len(buffered) : buffered[i].kind = "created"
    BY LenProperties, ConstantsOK DEF IInv, TaskInv, Types
  <1>2. tracker.responses = {}
    BY <1>1 DEF IInv, TrackerInv
  <1>3. \A k \in Messages \ {current} : upstream[k] = "none"
    BY <1>1, InFlight
  <1>4. CASE buffered = <<>>
    <2>1. upstream[current] = "got" /\ Len(buffered) = 0
      BY <1>1, <1>4 DEF IInv, TaskInv
    <2> QED
      BY <1>1, <1>2, <1>3, <2>1
  <1>5. CASE buffered # <<>>
    <2>1. Len(buffered) > 0
      BY <1>1, <1>5, EmptySeq
    <2>2. BufferOf(current)
      BY <1>1, <1>5 DEF IInv, FlightInv, BufferOf
    <2>3. Len(buffered) \in 1..Len(buffered) /\ 1 \in 1..Len(buffered)
      BY <1>1, <2>1
    <2>4. Len(buffered) = 1
      BY <1>1, <2>2, <2>3 DEF BufferOf
    <2>5. /\ buffered[1].kind = "created" /\ buffered[1].named
          /\ upstream[current] = "created"
      BY <1>1, <2>2, <2>3, <2>4 DEF BufferOf, After
    <2>6. buffered[1].of = Sending(current)
      BY <2>2, <2>3, <2>5 DEF BufferOf, Close
    <2> QED
      BY <1>1, <1>2, <1>3, <2>4, <2>5, <2>6
  <1> QED
    BY <1>4, <1>5

LEMMA PreludeEvents ==
  ASSUME IInv, NEW m \in Messages,
         NEW kind \in {"created", "refusal", "output", "completed", "failed"},
         NEW named \in BOOLEAN, NEW then \in {"none", "created", "output"},
         NEW ev, ev = [of |-> Sending(m), named |-> named, kind |-> kind],
         PreludeEvent(m, ev, then)
  PROVE  IInv'
  <1> DEFINE events == Append(buffered, ev)
  <1>1. /\ phase = "prelude" /\ Speaks(m, ev, then)
        /\ upstream' = [upstream EXCEPT ![m] = then]
        /\ UNCHANGED <<timed, kinds, queue, attempts, late, carried, reconnects,
                       tracker, log, client>>
    BY DEF PreludeEvent, budget
  <1>2. upstream[m] # "none" /\ m = current /\ Sending(m) \in Sendings
    BY <1>1, InFlight DEF Speaks
  <1>3. /\ current \in Messages /\ tracker.guards = {current} /\ tracker.responses = {}
        /\ \A k \in Messages \ {current} : upstream[k] = "none"
        /\ Len(buffered) \in {0, 1} /\ buffered \in Seq(Events)
        /\ Len(buffered) < PreludeMessages /\ PreludeMessages \in Nat
        /\ Len(buffered) = 0 => upstream[current] = "got"
        /\ Len(buffered) = 1 =>
             /\ upstream[current] = "created"
             /\ buffered[1].of = Sending(current) /\ buffered[1].kind = "created"
             /\ buffered[1].named
    BY <1>1, Prelude
  <1>4. m = current
    BY <1>2, <1>3
  <1>0. tracker.guards = {m} /\ ~Bound(m) /\ tracker.responses = {}
    BY <1>3, <1>4 DEF Bound
  <1>5. ev.of = Sending(m) /\ ev.named = named /\ ev.kind = kind
    OBVIOUS
  <1>6. Sending(m) \in Sendings
    BY <1>2
  <1>7. ev \in Events
    BY <1>6 DEF Events
  <1>8. /\ events \in Seq(Events) /\ Len(events) = Len(buffered) + 1
        /\ events[Len(events)] = ev /\ \A i \in 1..Len(buffered) : events[i] = buffered[i]
    BY <1>3, <1>7, AppendProperties
  <1>9. upstream' \in [Messages -> Stages] /\ upstream'[m] = then
        /\ \A k \in Messages \ {current} : upstream'[k] = "none"
    BY <1>1, <1>3, <1>4 DEF IInv, Types, Stages
  <1>10. then = After(ev)
    BY <1>1, <1>5 DEF Speaks, After
  <1>11. /\ worked' = worked \/ worked' = worked \cup {Sending(m)}
         /\ kind = "refusal" => worked' = worked /\ Sending(m) \notin worked
    BY <1>1, <1>5 DEF Speaks
  <1>12. \/ upstream[m] = "got" /\ kind = "created" /\ named
         \/ upstream[m] = "created" /\ kind = "output" /\ ~named
         \/ upstream[m] # "got" /\ kind = "completed" /\ named
         \/ kind \in {"failed", "refusal"} /\ (named => upstream[m] # "got")
    BY <1>1, <1>5 DEF Speaks
  <1>13. Len(buffered) = 0 <=> upstream[m] = "got"
    BY <1>3, <1>4
  <1> HIDE DEF events
  <1>14. /\ buffered' = events
         /\ \/ phase' = "open" /\ current' = 0
            \/ kind = "refusal" /\ phase' = "backoff" /\ current' = current
            \/ /\ kind = "created" /\ phase' = "prelude" /\ current' = current
               /\ ~(Len(events) >= PreludeMessages)
    BY <1>5 DEF PreludeEvent, Release, events
  <1>15. \A s \in worked' : s = Sending(s.msg) /\ s \in Sendings
    <2>1. Sending(m).msg = m
      BY DEF Sending
    <2> QED
      BY <1>6, <1>11, <2>1 DEF IInv, SentInv, Types
  <1>16. /\ UNCHANGED <<attempts, tracker>> /\ buffered' = events
         /\ upstream'[m] = After(ev) /\ \A k \in Messages \ {m} : upstream'[k] = "none"
    BY <1>1, <1>4, <1>9, <1>10, <1>14
  <1>17. ASSUME NEW i \in 1..Len(events)
         PROVE  /\ events[i].of = Sending(m) /\ events[i].kind # "close"
                /\ events[i].kind = "created" => i = 1 /\ events[i].named
                /\ events[i].kind # "created" => i = Len(events)
                /\ events[i].kind = "output" => ~events[i].named
                /\ events[i].kind = "completed" => events[i].named
                /\ (events[i].named /\ events[i].kind # "created")
                      \/ events[i].kind = "output" => i = 2
    <2>1. CASE i = Len(events)
      <3>1. events[i] = ev
        BY <1>8, <2>1
      <3>2. kind = "created" => i = 1 /\ named
        BY <1>3, <1>4, <1>8, <1>12, <1>13, <2>1
      <3>3. (named /\ kind # "created") \/ kind = "output" => i = 2
        BY <1>3, <1>4, <1>8, <1>12, <1>13, <2>1
      <3> QED
        BY <1>5, <1>12, <2>1, <3>1, <3>2, <3>3
    <2>2. CASE i # Len(events)
      <3>1. Len(buffered) = 1 /\ i = 1 /\ 1 \in 1..Len(buffered)
        BY <1>3, <1>8, <2>2
      <3>2. events[i] = buffered[1]
        BY <1>8, <3>1
      <3> QED
        BY <1>3, <1>4, <3>1, <3>2
    <2> QED
      BY <2>1, <2>2
  <1>18. FlightInv' /\ (~NamelessErrors => Exact') /\ buffered' # <<>>
    <2>1. BufferOf(m)'
      <3>1. Bound(m)' <=> Bound(m)
        BY <1>16 DEF Bound
      <3>2. Sending(m)' = Sending(m)
        BY <1>16 DEF Sending
      <3>3. upstream'[m] = After(events[Len(events)])
        BY <1>8, <1>16
      <3> QED
        BY <1>0, <1>16, <1>17, <3>1, <3>2, <3>3 DEF BufferOf, After
    <2>2. buffered' # <<>> /\ tracker'.responses = {}
      BY <1>0, <1>3, <1>8, <1>16
    <2> QED
      BY <1>3, <1>4, <2>1, <2>2 DEF FlightInv, Exact
  <1>19. Len(events) <= PreludeMessages
    BY <1>3, <1>8
  <1>20. ASSUME kind = "refusal"
         PROVE  /\ \A k \in Messages : upstream'[k] = "none"
                /\ Sending(current) \notin worked'
    BY <1>4, <1>5, <1>9, <1>10, <1>11, <1>20 DEF After
  <1>21. ASSUME kind = "created", ~(Len(events) >= PreludeMessages)
         PROVE  /\ Len(buffered') < PreludeMessages
                /\ \A i \in 1..Len(buffered') : buffered'[i].kind = "created"
    <2>1. \A i \in 1..Len(events) : events[i].kind = "created"
      <3> SUFFICES ASSUME NEW i \in 1..Len(events) PROVE events[i].kind = "created"
        OBVIOUS
      <3>1. CASE i = Len(events)
        BY <1>5, <1>8, <1>21, <3>1
      <3>2. CASE i # Len(events)
        BY <1>3, <1>8, <3>2
      <3> QED
        BY <3>1, <3>2
    <2>2. Len(events) < PreludeMessages
      BY <1>3, <1>8, <1>21
    <2> QED
      BY <1>14, <2>1, <2>2
  <1>22. late' \in BOOLEAN /\ worked' \in SUBSET Sendings
    BY <1>1, <1>15 DEF IInv, Types
  <1>23. \/ phase' = "open" /\ current' = 0
         \/ /\ phase' = "prelude" /\ current' = current /\ Len(buffered') < PreludeMessages
            /\ buffered' # <<>>
            /\ \A i \in 1..Len(buffered') : buffered'[i].kind = "created"
         \/ /\ phase' = "backoff" /\ current' = current
            /\ \A k \in Messages : upstream'[k] = "none"
            /\ Sending(current) \notin worked'
    BY <1>14, <1>18, <1>20, <1>21
  <1>24. buffered' \in Seq(Events) /\ Len(buffered') <= PreludeMessages
    BY <1>8, <1>14, <1>19
  <1> QED
    BY <1>1, <1>9, <1>15, <1>18, <1>22, <1>23, <1>24, Recovering

LEMMA PreludeCloseds ==
  ASSUME IInv, PreludeCloses
  PROVE  IInv'
  <1> SUFFICES ASSUME NEW c \in Messages, c = current PROVE IInv'
    BY Prelude DEF PreludeCloses
  <1> DEFINE events == Append(buffered, Close)
  <1>1. /\ phase = "prelude" /\ phase' = "open" /\ current' = 0 /\ buffered' = events
        /\ upstream' = Nothing
        /\ UNCHANGED <<timed, kinds, queue, attempts, late, carried, reconnects,
                       tracker, log, worked, client>>
    BY DEF PreludeCloses, Release, budget
  <1>2. /\ tracker.guards = {c} /\ tracker.responses = {}
        /\ Len(buffered) \in {0, 1} /\ buffered \in Seq(Events)
        /\ Len(buffered) < PreludeMessages /\ PreludeMessages \in Nat
        /\ Len(buffered) = 1 =>
             /\ buffered[1].of = Sending(c) /\ buffered[1].kind = "created"
             /\ buffered[1].named
    BY <1>1, Prelude
  <1>3. Close \in Events /\ Close.kind = "close" /\ Close.named = FALSE
    BY DEF Close, Events
  <1>4. /\ events \in Seq(Events) /\ Len(events) = Len(buffered) + 1
        /\ events[Len(events)] = Close /\ \A i \in 1..Len(buffered) : events[i] = buffered[i]
    BY <1>2, <1>3, AppendProperties
  <1> HIDE DEF events
  <1>5. upstream' \in [Messages -> Stages] /\ \A k \in Messages : upstream'[k] = "none"
    BY <1>1 DEF Nothing, Stages
  <1>6. ASSUME NEW i \in 1..Len(events)
        PROVE  /\ events[i] = Close \/ (events[i].of = Sending(c) /\ events[i].kind # "close")
               /\ events[i].kind = "created" => i = 1 /\ events[i].named
               /\ events[i].kind # "created" => i = Len(events)
               /\ events[i].kind # "output" /\ events[i].kind # "completed"
               /\ events[i].named => events[i].kind = "created"
    <2>1. CASE i = Len(events)
      BY <1>3, <1>4, <2>1
    <2>2. CASE i # Len(events)
      <3>1. Len(buffered) = 1 /\ i = 1 /\ 1 \in 1..Len(buffered)
        BY <1>2, <1>4, <2>2
      <3>2. events[i] = buffered[1]
        BY <1>4, <3>1
      <3> QED
        BY <1>2, <3>1, <3>2
    <2> QED
      BY <2>1, <2>2
  <1>7. FlightInv' /\ (~NamelessErrors => Exact')
    <2>1. BufferOf(c)'
      <3>1. ~(Bound(c)') /\ tracker'.responses = {}
        BY <1>1, <1>2 DEF Bound
      <3>2. Sending(c)' = Sending(c)
        BY <1>1 DEF Sending
      <3>3. upstream'[c] = After(events[Len(events)])
        BY <1>3, <1>4, <1>5 DEF After
      <3> QED
        BY <1>1, <1>2, <1>5, <1>6, <3>1, <3>2, <3>3 DEF BufferOf, After
    <2>2. buffered' # <<>> /\ tracker'.responses = {}
      BY <1>1, <1>2, <1>4
    <2> QED
      BY <2>1, <2>2 DEF FlightInv, Exact
  <1>8. Len(buffered') <= PreludeMessages /\ buffered' \in Seq(Events)
    BY <1>1, <1>2, <1>4
  <1>9. /\ late' \in BOOLEAN /\ worked' \in SUBSET Sendings
        /\ \A s \in worked' : s = Sending(s.msg)
    BY <1>1 DEF IInv, Types, SentInv
  <1> QED
    BY <1>1, <1>5, <1>7, <1>8, <1>9, Recovering

LEMMA GivesUps ==
  ASSUME IInv, GivesUp
  PROVE  IInv'
  <1>1. /\ phase = "backoff" /\ phase' = "open" /\ current' = 0 /\ late' = TRUE
        /\ UNCHANGED <<timed, kinds, queue, attempts, buffered, carried, reconnects,
                       tracker, log, upstream, worked, client>>
    BY DEF GivesUp, Release
  <1>2. FlightInv' /\ (~NamelessErrors => Exact')
    BY <1>1, FlightKept, ExactKept DEF IInv
  <1>3. /\ late' \in BOOLEAN /\ worked' \in SUBSET Sendings
        /\ \A s \in worked' : s = Sending(s.msg)
        /\ upstream' \in [Messages -> Stages]
        /\ buffered' \in Seq(Events) /\ Len(buffered') <= PreludeMessages
    BY <1>1 DEF IInv, Types, SentInv
  <1> QED
    BY <1>1, <1>2, <1>3, Recovering

\* A refused message is sent again over an empty prelude: it is the only one in flight,
\* nobody has worked on it and the client has nothing of it.
LEMMA Resends ==
  ASSUME IInv, Resend
  PROVE  IInv'
  <1> SUFFICES ASSUME NEW m \in Messages, m = current PROVE IInv'
    BY DEF Resend, IInv, TaskInv
  <1>1. /\ phase = "backoff" /\ phase' = "prelude" /\ buffered' = <<>>
        /\ attempts[m] < MaxAttempts
        /\ attempts' = [attempts EXCEPT ![m] = @ + 1]
        /\ upstream' = [upstream EXCEPT ![m] = IF Create(m) THEN "got" ELSE @]
        /\ UNCHANGED <<timed, kinds, queue, current, late, carried, reconnects,
                       tracker, log, client, worked>>
    BY DEF Resend, Arrives, budget
  <1>2. /\ m = Len(kinds) - Len(queue) /\ tracker.guards = {m} /\ IsPending(m)
        /\ \A k \in Messages : upstream[k] = "none"
        /\ Sending(m) \notin worked /\ \A e \in client : e.of.msg # m
    BY <1>1 DEF IInv, TaskInv, NoneIsUp, SentInv
  <1>3. tracker.responses = {}
    BY <1>2 DEF IInv, TrackerInv
  <1>4. /\ attempts[m] \in 1..MaxAttempts /\ Create(m) /\ log[m] = "open" /\ m \in 1..Len(kinds)
    BY <1>2, Guarded
  <1>5. /\ attempts' \in [Messages -> 0..MaxAttempts] /\ attempts'[m] > 0
        /\ \A k \in Messages \ {m} : attempts'[k] = attempts[k] /\ Sending(k)' = Sending(k)
        /\ \A s \in worked : s = Sending(s.msg)'
        /\ \A e \in client : e.of = Sending(e.of.msg)'
    <2>1. attempts \in [Messages -> 0..MaxAttempts] /\ MaxAttempts \in Nat \ {0}
      BY ConstantsOK DEF IInv, Types
    <2>2. /\ attempts' \in [Messages -> 0..MaxAttempts] /\ attempts'[m] > 0
          /\ \A k \in Messages \ {m} : attempts'[k] = attempts[k]
      BY <1>1, <1>4, <2>1
    <2>3. \A k \in Messages \ {m} : Sending(k)' = Sending(k)
      BY <2>2 DEF Sending
    <2>4. \A s \in worked : s.msg \in Messages \ {m}
      BY <1>2 DEF IInv, Types, Sendings, SentInv
    <2>5. \A e \in client : e.of.msg \in Messages \ {m}
      BY <1>2 DEF IInv, Types, Sendings
    <2> QED
      BY <2>2, <2>3, <2>4, <2>5 DEF IInv, SentInv
  <1>6. /\ upstream' \in [Messages -> Stages] /\ upstream'[m] = "got"
        /\ \A k \in Messages \ {m} : upstream'[k] = "none"
    BY <1>1, <1>2, <1>4 DEF IInv, Types, Stages
  <1>7. \A k \in Messages : (IsPending(k)' <=> IsPending(k)) /\ (Bound(k)' <=> Bound(k))
    BY <1>1 DEF IsPending, Bound
  <1>8. Types'
    <2>1. /\ timed' \in BOOLEAN /\ late' \in BOOLEAN /\ carried' \in BOOLEAN
          /\ phase' \in Serving \cup {"ended"} /\ current' \in Messages \cup {0}
          /\ buffered' \in Seq(Events) /\ Len(buffered') <= PreludeMessages
          /\ Len(buffered') < PreludeMessages
      BY <1>1, ConstantsOK DEF IInv, Types, Serving
    <2>2. /\ kinds' \in Seq({"create", "named", "plain"}) /\ Len(kinds') <= MaxMessages
          /\ queue' \in Seq(Messages) /\ Len(queue') <= QueueMessages
          /\ reconnects' \in 0..MaxReconnects /\ tracker' \in Tracking /\ log' \in Logs
          /\ client' \in SUBSET [of : Sendings, completed : BOOLEAN]
          /\ worked' \in SUBSET Sendings
      BY <1>1 DEF IInv, Types
    <2> QED
      BY <1>5, <1>6, <2>1, <2>2 DEF Types
  <1>9. QueueInv'
    <2>1. \A k \in Messages : Unsent(k)' <=> Unsent(k)
      BY <1>1 DEF Unsent
    <2>2. ~Unsent(m)
      BY <1>2, Sizes DEF Unsent
    <2>3. \A k \in Messages : attempts'[k] > 0 => ~(Unsent(k)')
      BY <1>5, <2>1, <2>2 DEF IInv, QueueInv
    <2> QED
      BY <1>1, <2>3 DEF IInv, QueueInv, Unsent, Create
  <1>10. TrackerInv'
    <2>1. /\ tracker'.responses = {} /\ tracker'.guards = {m} /\ IsPending(m)'
          /\ m <= Len(kinds') /\ kinds'[m] = "create" /\ log'[m] = "open"
      BY <1>1, <1>2, <1>3, <1>4, <1>7, Sizes DEF Create
    <2>2. /\ \A i, j \in 1..Len(tracker'.pending) :
               i < j => tracker'.pending[i] < tracker'.pending[j]
          /\ \A i \in 1..Len(tracker'.pending) : tracker'.pending[i] \in tracker'.guards
      BY <1>1 DEF IInv, TrackerInv
    <2> QED
      BY <1>5, <2>1, <2>2 DEF TrackerInv, Create
  <1>11. TaskInv'
    <2>1. /\ current' \in Messages /\ current' = Len(kinds') - Len(queue')
          /\ tracker'.guards = {current'} /\ IsPending(current)'
      BY <1>1, <1>2 DEF IsPending
    <2>2. (\A i \in 1..Len(buffered') : FALSE) /\ upstream'[current'] = "got"
      BY <1>1, <1>6
    <2> QED
      BY <1>1, <2>1, <2>2 DEF TaskInv
  <1>12. FlightInv' /\ Exact'
    <2>1. tracker'.responses = {} /\ \A k \in Messages : ~(Bound(k)') /\ ~(Owned(k)')
      BY <1>1, <1>3 DEF Bound, Owned
    <2>2. \A k \in Messages \ {m} : ~IsPending(k)
      BY <1>2 DEF IInv, TrackerInv, IsPending
    <2> QED
      BY <1>1, <1>2, <1>6, <1>7, <2>1, <2>2 DEF FlightInv, Exact
  <1>13. SentInv'
    BY <1>1, <1>2, <1>5 DEF SentInv
  <1>14. ~NamelessErrors => OutcomesRight'
    BY <1>1 DEF IInv, OutcomesRight, Create
  <1> QED
    BY <1>8, <1>9, <1>10, <1>11, <1>12, <1>13, <1>14 DEF IInv

------------------------------------------------------------------------------
\* Events are observed and passed on

Terminal == {"refusal", "completed", "failed"}

\* The end of some requests: of ones that have their response, or of the only one.
LEMMA Ends ==
  ASSUME IInv, NEW of \in SUBSET tracker.guards, NEW outcome \in Final,
         tracker' = [pending   |-> StillPending(tracker.pending, of),
                     responses |-> {r \in tracker.responses : r.by \notin of},
                     guards    |-> tracker.guards \ of],
         log' = Finished(log, of, outcome),
         (\A k \in of : ~IsPending(k)) \/ (\E g : of = {g} /\ tracker.guards = {g}),
         UNCHANGED <<kinds, attempts>>
  PROVE  /\ tracker' \in Tracking /\ TrackerInv' /\ log' \in Logs
         /\ \A k \in Messages : /\ IsPending(k)' <=> IsPending(k) /\ k \notin of
                                /\ Bound(k)' <=> Bound(k) /\ k \notin of
                                /\ k \notin of => log'[k] = log[k]
                                /\ k \in of => log'[k] = outcome
  <1>0. Len(kinds') = Len(kinds) /\ attempts' = attempts
    OBVIOUS
  <1>1. /\ tracker \in Tracking /\ tracker.pending \in Seq(Messages)
        /\ tracker.responses \in SUBSET [id : Sendings, by : Messages]
        /\ tracker.guards \in SUBSET Messages /\ log \in Logs
    BY DEF IInv, Types, Tracking
  <1>2. \A k \in of : k \in Messages /\ log[k] = "open"
    BY Guarded
  <1>3. /\ tracker'.pending = StillPending(tracker.pending, of)
        /\ tracker'.responses = {r \in tracker.responses : r.by \notin of}
        /\ tracker'.guards = tracker.guards \ of
    OBVIOUS
  <1>4. \/ tracker'.pending = tracker.pending /\ \A k \in of : ~IsPending(k)
        \/ tracker'.pending = <<>> /\ tracker.guards = of
    <2>1. CASE \A k \in of : ~IsPending(k)
      <3>1. \A i \in 1..Len(tracker.pending) : tracker.pending[i] \notin of
        BY <2>1 DEF IsPending
      <3> QED
        BY <1>1, <1>3, <2>1, <3>1, RetainsAll
    <2>2. CASE \E k \in of : IsPending(k)
      <3>1. PICK g : of = {g} /\ tracker.guards = {g} /\ IsPending(g) /\ g \in Messages
        BY <1>2, <2>2
      <3>2. PICK i \in 1..Len(tracker.pending) : tracker.pending[i] = g
        BY <3>1 DEF IsPending
      <3>3. \A j \in 1..Len(tracker.pending) : tracker.pending[j] = g
        BY <3>1 DEF IInv, TrackerInv
      <3>4. Len(tracker.pending) \in Nat
        BY <1>1, LenProperties
      <3>5. ASSUME Len(tracker.pending) >= 2 PROVE FALSE
        <4>1. 1 \in 1..Len(tracker.pending) /\ 2 \in 1..Len(tracker.pending)
          BY <3>4, <3>5
        <4>2. tracker.pending[1] < tracker.pending[2]
          BY <4>1 DEF IInv, TrackerInv
        <4> QED
          BY <3>1, <3>3, <4>1, <4>2, Sizes
      <3>6. Len(tracker.pending) = 1 /\ tracker.pending[1] = g
        <4>1. Len(tracker.pending) < 2 /\ Len(tracker.pending) >= 1
          BY <3>2, <3>4, <3>5
        <4>2. Len(tracker.pending) = 1
          <5>1. \A n \in Nat : n < 2 /\ n >= 1 => n = 1
            OBVIOUS
          <5> QED
            BY ONLY <3>4, <4>1, <5>1
        <4> QED
          BY <3>3, <4>2
      <3>7. tracker.pending = <<g>>
        BY <1>1, <3>1, <3>6, LenProperties
      <3> QED
        BY <1>3, <3>1, <3>7, RetainsNone
    <2> QED
      BY <2>1, <2>2
  <1>5. tracker' \in Tracking
    <2>1. tracker'.pending \in Seq(Messages)
      BY <1>1, <1>4, EmptySeq
    <2>2. /\ tracker'.responses \in SUBSET [id : Sendings, by : Messages]
          /\ tracker'.guards \in SUBSET Messages
      BY <1>1, <1>3
    <2>3. tracker' = [pending |-> tracker'.pending, responses |-> tracker'.responses,
                      guards |-> tracker'.guards]
      OBVIOUS
    <2> QED
      BY <2>1, <2>2, <2>3 DEF Tracking
  <1>6. /\ log' \in Logs /\ \A k \in Messages : /\ k \notin of => log'[k] = log[k]
                                                /\ k \in of => log'[k] = outcome
    BY <1>1, <1>2, FinishedIs
  <1>7. \A k \in Messages : /\ IsPending(k)' <=> IsPending(k) /\ k \notin of
                            /\ Bound(k)' <=> Bound(k) /\ k \notin of
    <2>1. ASSUME NEW k \in Messages PROVE Bound(k)' <=> Bound(k) /\ k \notin of
      BY <1>3 DEF Bound
    <2>2. ASSUME NEW k \in Messages PROVE IsPending(k)' <=> IsPending(k) /\ k \notin of
      <3>1. CASE tracker'.pending = tracker.pending /\ \A j \in of : ~IsPending(j)
        BY <3>1 DEF IsPending
      <3>2. CASE tracker'.pending = <<>> /\ tracker.guards = of
        <4>1. ~(IsPending(k)')
          BY <3>2 DEF IsPending
        <4>2. IsPending(k) => k \in of
          BY <3>2 DEF IInv, TrackerInv, IsPending
        <4> QED
          BY <4>1, <4>2
      <3> QED
        BY <1>4, <3>1, <3>2
    <2> QED
      BY <2>1, <2>2
  <1>8. TrackerInv'
    <2>1. /\ \A i, j \in 1..Len(tracker'.pending) :
               i < j => tracker'.pending[i] < tracker'.pending[j]
          /\ \A i \in 1..Len(tracker'.pending) : tracker'.pending[i] \in tracker'.guards
      <3>1. CASE tracker'.pending = tracker.pending /\ \A j \in of : ~IsPending(j)
        BY <1>3, <3>1 DEF IInv, TrackerInv, IsPending
      <3>2. CASE tracker'.pending = <<>>
        BY <3>2
      <3> QED
        BY <1>4, <3>1, <3>2
    <2>2. ASSUME NEW r \in tracker'.responses
          PROVE  r.by \in tracker'.guards /\ r.id = Sending(r.id.msg)' /\ ~(IsPending(r.by)')
      <3>1. r \in tracker.responses /\ r.by \notin of
        BY <1>3
      <3>2. r.by \in tracker.guards /\ r.id = Sending(r.id.msg) /\ ~IsPending(r.by)
        BY <3>1 DEF IInv, TrackerInv
      <3>3. r.by \in Messages
        BY <1>1, <3>2
      <3>4. Sending(r.id.msg)' = Sending(r.id.msg)
        BY DEF Sending
      <3> QED
        BY <1>3, <1>7, <3>1, <3>2, <3>3, <3>4
    <2>3. \A r, q \in tracker'.responses : r.by = q.by => r = q
      BY <1>3 DEF IInv, TrackerInv
    <2>4. ASSUME NEW k \in tracker'.guards
          PROVE  /\ IsPending(k)' \/ Bound(k)'
                 /\ k <= Len(kinds') /\ Create(k)' /\ log'[k] = "open" /\ attempts'[k] > 0
      <3>1. k \in tracker.guards /\ k \notin of /\ k \in Messages
        BY <1>1, <1>3
      <3>2. /\ IsPending(k) \/ Bound(k)
            /\ k <= Len(kinds) /\ Create(k) /\ log[k] = "open" /\ attempts[k] > 0
        BY <3>1 DEF IInv, TrackerInv
      <3>3. Create(k)'
        BY <3>2 DEF Create
      <3>4. IsPending(k)' \/ Bound(k)'
        BY <1>7, <3>1, <3>2
      <3>5. log'[k] = "open"
        BY <1>6, <3>1, <3>2
      <3>6. k <= Len(kinds') /\ attempts'[k] > 0
        BY ONLY <1>0, <3>2
      <3> QED
        BY <3>3, <3>4, <3>5, <3>6
    <2> QED
      BY <2>1, <2>2, <2>3, <2>4 DEF TrackerInv
  <1>9. \A k \in Messages : /\ IsPending(k)' <=> IsPending(k) /\ k \notin of
                            /\ Bound(k)' <=> Bound(k) /\ k \notin of
                            /\ k \notin of => log'[k] = log[k]
                            /\ k \in of => log'[k] = outcome
    BY ONLY <1>6, <1>7
  <1> QED
    BY ONLY <1>5, <1>6, <1>8, <1>9

\* Of which requests an event that ends a response is.
LEMMA EndsOf ==
  ASSUME IInv, NEW ev, Observe(ev), ev.kind \in Terminal,
         ev.named => \E r \in tracker.responses : r.id = ev.of
  PROVE  \E of \in SUBSET tracker.guards :
           /\ ev.named => of = {r.by : r \in {r \in tracker.responses : r.id = ev.of}}
           /\ ~ev.named => of = {} \/ \E g : of = {g} /\ tracker.guards = {g}
           /\ ~ev.named /\ (\E g : tracker.guards = {g}) => of = tracker.guards
           /\ ev.named => \A k \in of : ~IsPending(k)
           /\ tracker' = [pending   |-> StillPending(tracker.pending, of),
                          responses |-> {r \in tracker.responses : r.by \notin of},
                          guards    |-> tracker.guards \ of]
           /\ log' = Finished(log, of, IF ev.kind = "completed" THEN "succeeded" ELSE "failed")
  <1> DEFINE only  == Cardinality(tracker.guards) = 1
             named == {r.by : r \in {r \in tracker.responses : r.id = ev.of}}
             of == IF ev.named THEN named ELSE IF only THEN tracker.guards ELSE {}
             outcome == IF ev.kind = "completed" THEN "succeeded" ELSE "failed"
  <1>1. only <=> \E g : tracker.guards = {g}
    <2>1. IsFiniteSet(1..MaxMessages)
      BY FS_Interval, ConstantsOK
    <2>2. tracker.guards \subseteq 1..MaxMessages
      BY DEF IInv, Types, Tracking, Messages
    <2>3. IsFiniteSet(tracker.guards)
      BY <2>1, <2>2, FS_Subset
    <2> QED
      BY <2>3, FS_Singleton
  <1>2. /\ tracker' = [pending   |-> StillPending(tracker.pending, of),
                       responses |-> {r \in tracker.responses : r.by \notin of},
                       guards    |-> tracker.guards \ of]
        /\ log' = Finished(log, of, outcome)
    BY DEF Observe, Terminal
  <1>3. \A r \in tracker.responses : r.by \in tracker.guards /\ ~IsPending(r.by)
    BY DEF IInv, TrackerInv
  <1>4. of \in SUBSET tracker.guards /\ (ev.named => \A k \in of : ~IsPending(k))
    BY <1>3
  <1>5. /\ ev.named => of = named
        /\ ~ev.named => of = {} \/ \E g : of = {g} /\ tracker.guards = {g}
        /\ ~ev.named /\ (\E g : tracker.guards = {g}) => of = tracker.guards
    BY <1>1
  <1> HIDE DEF of
  <1> QED
    BY <1>2, <1>4, <1>5

\* A creation is taken for the first request's that still waits for one.
LEMMA Begins ==
  ASSUME IInv, NEW m \in Messages, NEW ev, Observe(ev), Sending(m) \in Sendings,
         ev.of = Sending(m), ev.kind = "created", ev.named = TRUE,
         IsPending(m), ~Owned(m), UNCHANGED <<kinds, attempts>>
  PROVE  \E h \in tracker.guards :
           /\ h \in Messages /\ h <= m /\ IsPending(h)
           /\ tracker' \in Tracking /\ TrackerInv' /\ log' = log
           /\ tracker'.guards = tracker.guards
           /\ tracker'.responses = tracker.responses \cup {[id |-> Sending(m), by |-> h]}
           /\ \A k \in Messages : /\ IsPending(k)' <=> IsPending(k) /\ k # h
                                  /\ Bound(k)' <=> Bound(k) \/ k = h
                                  /\ Owned(k)' <=> Owned(k) \/ k = m
  <1>1. /\ tracker \in Tracking /\ tracker.pending \in Seq(Messages)
        /\ tracker.responses \in SUBSET [id : Sendings, by : Messages]
        /\ tracker.guards \in SUBSET Messages
    BY DEF IInv, Types, Tracking
  <1>2. \A r \in tracker.responses : r.id # ev.of
    BY DEF Owned
  <1>3. PICK i \in 1..Len(tracker.pending) : tracker.pending[i] = m
    BY DEF IsPending
  <1>4. Len(tracker.pending) \in Nat /\ tracker.pending # <<>>
        /\ 1 \in 1..Len(tracker.pending)
    <2>1. Len(tracker.pending) \in Nat
      BY <1>1, LenProperties
    <2> QED
      BY <1>3, <2>1
  <1>5. PICK h \in Messages : h = tracker.pending[1]
    BY <1>1, <1>4, ElementOfSeq
  <1>6. h \in tracker.guards /\ IsPending(h)
    BY <1>4, <1>5 DEF IInv, TrackerInv, IsPending
  <1>7. h <= m
    <2>1. 1 < i => h < m
      BY <1>3, <1>4, <1>5 DEF IInv, TrackerInv
    <2>2. 1 < i \/ i = 1
      BY <1>3, <1>4
    <2> QED
      BY <1>3, <1>5, <2>1, <2>2, Sizes
  <1>8. Head(tracker.pending) = h
    BY <1>1, <1>4, <1>5, HeadTailProperties
  <1> DEFINE rest == Tail(tracker.pending)
             response == [id |-> ev.of, by |-> h]
  <1>9. /\ rest \in Seq(Messages) /\ Len(rest) = Len(tracker.pending) - 1
        /\ \A j \in 1..Len(rest) : rest[j] = tracker.pending[j + 1]
    BY <1>1, <1>4, HeadTailProperties
  <1>10. /\ tracker' = [tracker EXCEPT !.pending = rest,
                                       !.responses = tracker.responses \cup {response}]
         /\ log' = log
    BY <1>2, <1>4, <1>8 DEF Observe
  <1>11. tracker' = [pending |-> rest, responses |-> tracker.responses \cup {response},
                     guards |-> tracker.guards]
    BY <1>1, <1>10 DEF Tracking
  <1>12. /\ response \in [id : Sendings, by : Messages]
         /\ response.by = h /\ response.id = Sending(m) /\ response.id.msg = m
    <2>1. Sending(m).msg = m
      BY DEF Sending
    <2> QED
      BY <2>1
  <1> HIDE DEF rest
  <1>13. tracker' \in Tracking
    BY <1>1, <1>9, <1>11, <1>12 DEF Tracking
  <1>14. /\ tracker'.pending = rest /\ tracker'.guards = tracker.guards
         /\ tracker'.responses = tracker.responses \cup {response}
    BY <1>11
  <1>15. response = [id |-> Sending(m), by |-> h]
    OBVIOUS
  <1> HIDE DEF response
  <1>16. \A j \in 1..Len(rest) : /\ j + 1 \in 1..Len(tracker.pending)
                                 /\ rest[j] = tracker.pending[j + 1] /\ rest[j] # h
    <2> SUFFICES ASSUME NEW j \in 1..Len(rest)
                 PROVE  j + 1 \in 1..Len(tracker.pending)
                        /\ rest[j] = tracker.pending[j + 1] /\ rest[j] # h
      OBVIOUS
    <2>1. j + 1 \in 1..Len(tracker.pending) /\ 1 < j + 1
      BY <1>4, <1>9
    <2>2. tracker.pending[1] < tracker.pending[j + 1]
      BY <1>4, <2>1 DEF IInv, TrackerInv
    <2>3. ~(h < h)
      BY Sizes
    <2>4. tracker.pending[j + 1] # h
      BY <1>5, <2>2, <2>3
    <2> QED
      BY <1>9, <2>1, <2>4
  <1>17. ASSUME NEW k \in Messages
         PROVE  /\ IsPending(k)' <=> IsPending(k) /\ k # h
                /\ Bound(k)' <=> Bound(k) \/ k = h
                /\ Owned(k)' <=> Owned(k) \/ k = m
    <2>1. IsPending(k)' => IsPending(k) /\ k # h
      BY <1>14, <1>16 DEF IsPending
    <2>2. ASSUME IsPending(k), k # h PROVE IsPending(k)'
      <3>1. PICK j \in 1..Len(tracker.pending) : tracker.pending[j] = k
        BY <2>2 DEF IsPending
      <3>2. j # 1
        BY <1>5, <2>2, <3>1
      <3>3. j - 1 \in 1..Len(rest) /\ (j - 1) + 1 = j
        BY <1>4, <1>9, <3>2
      <3>4. rest[j - 1] = k
        BY <1>9, <3>1, <3>3
      <3> QED
        BY <1>14, <3>3, <3>4 DEF IsPending
    <2>3. Bound(k)' <=> Bound(k) \/ k = h
      BY <1>12, <1>14 DEF Bound
    <2>4. Sending(k)' = Sending(k) /\ (Sending(k) = Sending(m) <=> k = m)
      <3>1. Sending(k).msg = k /\ Sending(m).msg = m /\ Sending(k)' = Sending(k)
        BY DEF Sending
      <3> QED
        BY <3>1
    <2>5. Owned(k)' <=> Owned(k) \/ k = m
      BY <1>12, <1>14, <2>4 DEF Owned
    <2> QED
      BY <2>1, <2>2, <2>3, <2>5
  <1>18. TrackerInv'
    <2>1. /\ \A j, k \in 1..Len(tracker'.pending) :
               j < k => tracker'.pending[j] < tracker'.pending[k]
          /\ \A j \in 1..Len(tracker'.pending) : tracker'.pending[j] \in tracker'.guards
      <3>1. \A j, k \in 1..Len(rest) : j < k => rest[j] < rest[k]
        <4> SUFFICES ASSUME NEW j \in 1..Len(rest), NEW k \in 1..Len(rest), j < k
                     PROVE  rest[j] < rest[k]
          OBVIOUS
        <4>1. j + 1 < k + 1
          BY <1>4, <1>9
        <4> QED
          BY <1>16, <4>1 DEF IInv, TrackerInv
      <3>2. \A j \in 1..Len(rest) : rest[j] \in tracker.guards
        BY <1>16 DEF IInv, TrackerInv
      <3> QED
        BY <1>14, <3>1, <3>2
    <2>2. \A r \in tracker.responses : r.by # h
      BY <1>6 DEF IInv, TrackerInv
    <2>3. ASSUME NEW r \in tracker'.responses
          PROVE  r.by \in tracker'.guards /\ r.id = Sending(r.id.msg)' /\ ~(IsPending(r.by)')
      <3>1. CASE r = response
        <4>1. Sending(m)' = Sending(m)
          BY DEF Sending
        <4> QED
          BY <1>6, <1>12, <1>14, <1>17, <3>1, <4>1
      <3>2. CASE r \in tracker.responses
        <4>1. r.by \in tracker.guards /\ r.id = Sending(r.id.msg) /\ ~IsPending(r.by)
          BY <3>2 DEF IInv, TrackerInv
        <4>2. r.by \in Messages /\ Sending(r.id.msg)' = Sending(r.id.msg)
          BY <1>1, <4>1 DEF Sending
        <4> QED
          BY <1>14, <1>17, <4>1, <4>2
      <3> QED
        BY <1>14, <3>1, <3>2
    <2>4. \A r, q \in tracker'.responses : r.by = q.by => r = q
      <3>1. \A r, q \in tracker.responses : r.by = q.by => r = q
        BY DEF IInv, TrackerInv
      <3> QED
        BY <1>12, <1>14, <2>2, <3>1
    <2>5. ASSUME NEW k \in tracker'.guards
          PROVE  /\ IsPending(k)' \/ Bound(k)'
                 /\ k <= Len(kinds') /\ Create(k)' /\ log'[k] = "open" /\ attempts'[k] > 0
      <3>1. k \in tracker.guards /\ k \in Messages
        BY <1>1, <1>14
      <3>2. /\ IsPending(k) \/ Bound(k)
            /\ k <= Len(kinds) /\ Create(k) /\ log[k] = "open" /\ attempts[k] > 0
        BY <3>1 DEF IInv, TrackerInv
      <3>3. Create(k)'
        BY <3>2 DEF Create
      <3> QED
        BY <1>10, <1>17, <3>1, <3>2, <3>3
    <2> QED
      BY <2>1, <2>3, <2>4, <2>5 DEF TrackerInv
  <1> QED
    BY <1>6, <1>7, <1>10, <1>13, <1>14, <1>15, <1>17, <1>18

\* What the client gets is what the log says.
LEMMA Tells ==
  ASSUME IInv, NEW m \in Messages, NEW ev, Gets(ev), Sending(m) \in Sendings,
         ev.of = Sending(m), UNCHANGED <<kinds, attempts>>, worked' \in SUBSET Sendings,
         \A s \in worked' : s = Sending(s.msg), phase' = "open"
  PROVE  /\ client' \in SUBSET [of : Sendings, completed : BOOLEAN] /\ SentInv'
         /\ (/\ ~NamelessErrors /\ m \in tracker.guards
             /\ log'[m] = "succeeded" <=> ev.kind = "completed"
             /\ \A k \in Messages \ {m} : log'[k] = log[k]) => OutcomesRight'
  <1> DEFINE new == [of |-> ev.of, completed |-> ev.kind = "completed"]
  <1>1. client' = client \cup {new} /\ client \in SUBSET [of : Sendings, completed : BOOLEAN]
    BY DEF Gets, IInv, Types
  <1>2. new.of = Sending(m) /\ new.of.msg = m /\ (new.completed <=> ev.kind = "completed")
    <2>1. new.of = Sending(m) /\ (new.completed <=> ev.kind = "completed")
      OBVIOUS
    <2>2. Sending(m).msg = m
      BY DEF Sending
    <2> HIDE DEF new
    <2> QED
      BY <2>1, <2>2
  <1>3. new \in [of : Sendings, completed : BOOLEAN]
    OBVIOUS
  <1> HIDE DEF new
  <1>4. \A e \in client' : e.of = Sending(e.of.msg)
    BY <1>1, <1>2 DEF IInv, SentInv
  <1>5. SentInv'
    BY <1>4 DEF SentInv, Sending
  <1>6. ASSUME ~NamelessErrors, m \in tracker.guards,
               log'[m] = "succeeded" <=> ev.kind = "completed",
               \A k \in Messages \ {m} : log'[k] = log[k]
        PROVE  OutcomesRight'
    <2>1. log[m] = "open" /\ Create(m) /\ m \in DOMAIN kinds
      BY <1>6, Guarded, Sizes
    <2>2. \A e \in client : ~(e.of.msg = m /\ e.completed)
      BY <1>6, <2>1 DEF IInv, OutcomesRight
    <2> SUFFICES ASSUME NEW k \in DOMAIN kinds, Create(k)
                 PROVE  log'[k] = "succeeded" <=> \E e \in client' : e.of.msg = k /\ e.completed
      BY DEF OutcomesRight, Create
    <2>3. CASE k = m
      BY <1>1, <1>2, <1>6, <2>2, <2>3
    <2>4. CASE k # m
      <3>1. log'[k] = log[k]
        BY <1>6, <2>4, Sizes
      <3>2. log[k] = "succeeded" <=> \E e \in client : e.of.msg = k /\ e.completed
        BY <1>6 DEF IInv, OutcomesRight
      <3> QED
        BY <1>1, <1>2, <2>4, <3>1, <3>2
    <2> QED
      BY <2>3, <2>4
  <1> QED
    BY <1>1, <1>3, <1>5, <1>6

\* What is left to show of a step that observes an event of m and passes it on.
LEMMA Passing ==
  ASSUME IInv, NEW m \in Messages, NEW ev, Gets(ev), Sending(m) \in Sendings,
         ev.of = Sending(m), phase = "open",
         UNCHANGED <<timed, phase, kinds, queue, attempts, current, budget>>,
         buffered' \in Seq(Events), Len(buffered') <= PreludeMessages,
         upstream' \in [Messages -> Stages], worked' \in SUBSET Sendings,
         \A s \in worked' : s = Sending(s.msg),
         tracker' \in Tracking, TrackerInv', FlightInv', log' \in Logs,
         \A k \in Messages \ tracker.guards : log'[k] = log[k],
         ~NamelessErrors => /\ Exact' /\ m \in tracker.guards
                            /\ log'[m] = "succeeded" <=> ev.kind = "completed"
                            /\ \A k \in Messages \ {m} : log'[k] = log[k]
  PROVE  IInv'
  <1>1. /\ client' \in SUBSET [of : Sendings, completed : BOOLEAN]
        /\ SentInv' /\ (~NamelessErrors => OutcomesRight')
    BY Tells
  <1>2. Types'
    <2>1. /\ timed' \in BOOLEAN /\ late' \in BOOLEAN /\ carried' \in BOOLEAN
          /\ phase' \in Serving \cup {"ended"} /\ current' \in Messages \cup {0}
          /\ phase' # "prelude" /\ reconnects' \in 0..MaxReconnects
      BY DEF IInv, Types, Serving, budget
    <2>2. /\ kinds' \in Seq({"create", "named", "plain"}) /\ Len(kinds') <= MaxMessages
          /\ queue' \in Seq(Messages) /\ Len(queue') <= QueueMessages
          /\ attempts' \in [Messages -> 0..MaxAttempts]
      BY DEF IInv, Types
    <2> QED
      BY <1>1, <2>1, <2>2 DEF Types
  <1>3. QueueInv'
    <2>1. \A k \in 1..Len(kinds) : Unsent(k) => log'[k] = log[k]
      <3> SUFFICES ASSUME NEW k \in 1..Len(kinds), Unsent(k) PROVE log'[k] = log[k]
        OBVIOUS
      <3>1. k \in Messages \ tracker.guards
        BY Guarded, Sizes
      <3> QED
        BY <3>1
    <2> QED
      BY <2>1 DEF IInv, QueueInv, Unsent, Create
  <1>4. TaskInv'
    BY DEF IInv, TaskInv
  <1> QED
    BY <1>1, <1>2, <1>3, <1>4 DEF IInv

\* Receiving, a creation is of the least message the upstream has got: if the tracker is
\* exact, the one it is taken for.
LEMMA ReceivesCreated ==
  ASSUME IInv, NEW m \in Messages, NEW ev, Sending(m) \in Sendings,
         phase = "open", buffered = <<>>, upstream[m] = "got",
         \A k \in 1..(m-1) : upstream[k] # "got",
         ev.of = Sending(m), ev.named = TRUE, ev.kind = "created",
         upstream' = [upstream EXCEPT ![m] = "created"], Observe(ev), Gets(ev),
         UNCHANGED <<timed, phase, kinds, queue, attempts, current, buffered, budget>>,
         worked' \in SUBSET Sendings, \A s \in worked' : s = Sending(s.msg)
  PROVE  IInv'
  <1>1. \A k \in Messages : /\ upstream[k] = "got" => IsPending(k) /\ ~Owned(k)
                            /\ upstream[k] \in {"created", "output"} => Owned(k)
    BY DEF IInv, FlightInv
  <1>2. upstream' \in [Messages -> Stages] /\ upstream'[m] = "created"
        /\ \A k \in Messages \ {m} : upstream'[k] = upstream[k]
    BY DEF IInv, Types, Stages
  <1>3. IsPending(m) /\ ~Owned(m)
    BY <1>1
  <1>4. PICK h \in tracker.guards :
          /\ h \in Messages /\ h <= m /\ IsPending(h)
          /\ tracker' \in Tracking /\ TrackerInv' /\ log' = log
          /\ tracker'.guards = tracker.guards
          /\ tracker'.responses = tracker.responses \cup {[id |-> Sending(m), by |-> h]}
          /\ \A k \in Messages : /\ IsPending(k)' <=> IsPending(k) /\ k # h
                                 /\ Bound(k)' <=> Bound(k) \/ k = h
                                 /\ Owned(k)' <=> Owned(k) \/ k = m
    BY <1>3, Begins
  <1>5. h = m \/ upstream[h] # "got"
    <2>1. h \in Messages /\ h <= m
      BY <1>4
    <2>2. h # m => h \in 1..(m-1)
      BY <2>1 DEF Messages
    <2> QED
      BY <2>2
  <1>6. FlightInv'
    <2>1. \A k \in Messages : /\ upstream'[k] = "got" => IsPending(k)' /\ ~(Owned(k)')
                              /\ upstream'[k] \in {"created", "output"} => Owned(k)'
      BY <1>1, <1>2, <1>4, <1>5
    <2> QED
      BY <2>1 DEF FlightInv
  <1>7. ASSUME ~NamelessErrors
        PROVE  /\ Exact' /\ m \in tracker.guards
               /\ log'[m] = "succeeded" <=> ev.kind = "completed"
    <2>1. \A k \in Messages : /\ IsPending(k) => upstream[k] = "got"
                              /\ Bound(k) => upstream[k] \in {"created", "output"}
      BY <1>7 DEF IInv, Exact
    <2>2. h = m
      BY <1>4, <1>5, <2>1
    <2>3. \A k \in Messages : /\ IsPending(k)' => upstream'[k] = "got"
                              /\ Bound(k)' => upstream'[k] \in {"created", "output"}
      BY <1>2, <1>4, <2>1, <2>2
    <2>4. \A r \in tracker'.responses : r.id = Sending(r.by)
      BY <1>4, <1>7, <2>2 DEF IInv, Exact
    <2>5. Exact'
      BY <2>3, <2>4 DEF Exact, Sending
    <2> QED
      BY <1>4, <2>2, <2>5, Guarded
  <1>8. log' \in Logs /\ \A k \in Messages : log'[k] = log[k]
    BY <1>4 DEF IInv, Types
  <1>9. buffered' \in Seq(Events) /\ Len(buffered') <= PreludeMessages
    BY DEF IInv, Types
  <1> QED
    BY <1>2, <1>4, <1>6, <1>7, <1>8, <1>9, Passing

\* Receiving output, the tracker learns nothing.
LEMMA ReceivesOutput ==
  ASSUME IInv, NEW m \in Messages, NEW ev, Sending(m) \in Sendings,
         phase = "open", buffered = <<>>, upstream[m] = "created",
         ev.of = Sending(m), ev.named = FALSE, ev.kind = "output",
         upstream' = [upstream EXCEPT ![m] = "output"], Observe(ev), Gets(ev),
         UNCHANGED <<timed, phase, kinds, queue, attempts, current, buffered, budget>>,
         worked' \in SUBSET Sendings, \A s \in worked' : s = Sending(s.msg)
  PROVE  IInv'
  <1>1. tracker' = tracker /\ log' = log
    <2>1. tracker' = [tracker EXCEPT !.pending = tracker.pending,
                                     !.responses = tracker.responses] /\ log' = log
      BY DEF Observe
    <2>2. tracker \in Tracking
      BY DEF IInv, Types
    <2> QED
      BY <2>1, <2>2 DEF Tracking
  <1>2. upstream' \in [Messages -> Stages] /\ upstream'[m] = "output"
        /\ \A k \in Messages \ {m} : upstream'[k] = upstream[k]
    BY DEF IInv, Types, Stages
  <1>3. TrackerInv' /\ tracker' \in Tracking /\ log' \in Logs
    BY <1>1, TrackerKept DEF IInv, Types
  <1>4. \A k \in Messages : /\ IsPending(k)' <=> IsPending(k)
                            /\ Bound(k)' <=> Bound(k)
                            /\ Owned(k)' <=> Owned(k)
    BY <1>1 DEF IsPending, Bound, Owned, Sending
  <1>5. FlightInv'
    <2>1. \A k \in Messages : /\ upstream[k] = "got" => IsPending(k) /\ ~Owned(k)
                              /\ upstream[k] \in {"created", "output"} => Owned(k)
      BY DEF IInv, FlightInv
    <2>2. \A k \in Messages : /\ upstream'[k] = "got" => IsPending(k)' /\ ~(Owned(k)')
                              /\ upstream'[k] \in {"created", "output"} => Owned(k)'
      BY <1>2, <1>4, <2>1
    <2> QED
      BY <2>2 DEF FlightInv
  <1>6. ASSUME ~NamelessErrors PROVE Exact' /\ m \in tracker.guards
    <2>1. /\ \A r \in tracker.responses : r.id = Sending(r.by)
          /\ \A k \in Messages : /\ IsPending(k) => upstream[k] = "got"
                                 /\ Bound(k) => upstream[k] \in {"created", "output"}
      BY <1>6 DEF IInv, Exact
    <2>2. \A k \in Messages : /\ IsPending(k)' => upstream'[k] = "got"
                              /\ Bound(k)' => upstream'[k] \in {"created", "output"}
      BY <1>2, <1>4, <2>1
    <2>3. Exact'
      BY <1>1, <2>1, <2>2 DEF Exact, Sending
    <2>4. PICK r \in tracker.responses : r.id = Sending(m)
      BY DEF IInv, FlightInv, Owned
    <2>5. r.by = m
      <3>1. Sending(r.by).msg = r.by /\ Sending(m).msg = m
        BY DEF Sending
      <3> QED
        BY <2>1, <2>4, <3>1
    <2> QED
      BY <2>3, <2>4, <2>5 DEF IInv, TrackerInv
  <1>7. buffered' \in Seq(Events) /\ Len(buffered') <= PreludeMessages
    BY DEF IInv, Types
  <1>8. ~NamelessErrors => log'[m] # "succeeded"
    BY <1>1, <1>6, Guarded
  <1> QED
    BY <1>1, <1>2, <1>3, <1>5, <1>6, <1>7, <1>8, Passing

\* Receiving the end of a response, the tracker forgets one request at most: of the
\* responses that go on, each keeps its own.
LEMMA ReceivesEnd ==
  ASSUME IInv, NEW m \in Messages, NEW ev, Sending(m) \in Sendings,
         phase = "open", buffered = <<>>, upstream[m] # "none",
         ev.of = Sending(m), ev.named \in BOOLEAN, ev.kind \in Terminal,
         IF ev.named THEN upstream[m] # "got" ELSE NamelessErrors \/ Alone(m),
         upstream' = [upstream EXCEPT ![m] = "none"], Observe(ev), Gets(ev),
         UNCHANGED <<timed, phase, kinds, queue, attempts, current, buffered, budget>>,
         worked' \in SUBSET Sendings, \A s \in worked' : s = Sending(s.msg)
  PROVE  IInv'
  <1> DEFINE outcome == IF ev.kind = "completed" THEN "succeeded" ELSE "failed"
  <1>1. \A k \in Messages : /\ upstream[k] = "got" => IsPending(k) /\ ~Owned(k)
                            /\ upstream[k] \in {"created", "output"} => Owned(k)
                            /\ upstream[k] \in Stages
    BY DEF IInv, FlightInv, Types
  <1>2. upstream' \in [Messages -> Stages] /\ upstream'[m] = "none"
        /\ \A k \in Messages \ {m} : upstream'[k] = upstream[k]
    BY DEF IInv, Types, Stages
  <1>3. ev.named => Owned(m)
    BY <1>1 DEF Stages
  <1>4. PICK of \in SUBSET tracker.guards :
          /\ ev.named => of = {r.by : r \in {r \in tracker.responses : r.id = ev.of}}
          /\ ~ev.named => of = {} \/ \E g : of = {g} /\ tracker.guards = {g}
          /\ ~ev.named /\ (\E g : tracker.guards = {g}) => of = tracker.guards
          /\ ev.named => \A k \in of : ~IsPending(k)
          /\ tracker' = [pending   |-> StillPending(tracker.pending, of),
                         responses |-> {r \in tracker.responses : r.by \notin of},
                         guards    |-> tracker.guards \ of]
          /\ log' = Finished(log, of, outcome)
    BY <1>3, EndsOf DEF Owned
  <1>5. outcome \in Final /\ (outcome = "succeeded" <=> ev.kind = "completed")
    BY DEF Final
  <1> HIDE DEF outcome
  <1>6. (\A k \in of : ~IsPending(k)) \/ (\E g : of = {g} /\ tracker.guards = {g})
    BY <1>4
  <1>7. /\ tracker' \in Tracking /\ TrackerInv' /\ log' \in Logs
        /\ \A k \in Messages : /\ IsPending(k)' <=> IsPending(k) /\ k \notin of
                               /\ Bound(k)' <=> Bound(k) /\ k \notin of
                               /\ k \notin of => log'[k] = log[k]
                               /\ k \in of => log'[k] = outcome
    BY <1>4, <1>5, <1>6, Ends
  <1>8. tracker'.responses = {r \in tracker.responses : r.by \notin of}
    BY <1>4
  <1>9. /\ \A r, q \in tracker.responses : r.by = q.by => r = q
        /\ \A r \in tracker.responses : r.by \in tracker.guards /\ ~IsPending(r.by)
        /\ \A k \in Messages : IsPending(k) => k \in tracker.guards
    BY DEF IInv, TrackerInv, IsPending
  <1>10. \A k \in Messages : Sending(k)' = Sending(k) /\ (Sending(k) = Sending(m) => k = m)
    <2>1. \A k : Sending(k).msg = k /\ Sending(k)' = Sending(k)
      BY DEF Sending
    <2> QED
      BY <2>1
  <1>11. FlightInv'
    <2>1. ASSUME NEW k \in Messages, upstream'[k] = "got"
          PROVE  IsPending(k)' /\ ~(Owned(k)')
      <3>1. k # m /\ IsPending(k) /\ ~Owned(k)
        BY <1>1, <1>2, <2>1
      <3>2. k \notin of
        <4>1. CASE ev.named
          BY <1>4, <3>1, <4>1
        <4>2. CASE ~ev.named /\ k \in of
          <5>1. tracker.guards = {k}
            BY <1>4, <4>2
          <5>2. IsPending(m) \/ Owned(m)
            BY <1>1 DEF Stages
          <5> QED
            BY <1>9, <3>1, <5>1, <5>2 DEF Owned
        <4> QED
          BY <4>1, <4>2
      <3> QED
        BY <1>7, <1>8, <1>10, <3>1, <3>2 DEF Owned
    <2>2. ASSUME NEW k \in Messages, upstream'[k] \in {"created", "output"}
          PROVE  Owned(k)'
      <3>1. k # m /\ Owned(k)
        BY <1>1, <1>2, <2>2
      <3>2. PICK r \in tracker.responses : r.id = Sending(k)
        BY <3>1 DEF Owned
      <3>3. r.by \notin of
        <4>1. CASE ev.named /\ r.by \in of
          <5>1. PICK q \in tracker.responses : q.id = Sending(m) /\ q.by = r.by
            BY <1>4, <4>1
          <5> QED
            BY <1>9, <1>10, <3>1, <3>2, <5>1
        <4>2. CASE ~ev.named /\ r.by \in of
          <5>1. tracker.guards = {r.by}
            BY <1>4, <4>2
          <5>2. CASE IsPending(m)
            BY <1>9, <5>1, <5>2
          <5>3. CASE Owned(m)
            <6>1. PICK q \in tracker.responses : q.id = Sending(m)
              BY <5>3 DEF Owned
            <6>2. q.by = r.by
              BY <1>9, <5>1
            <6> QED
              BY <1>9, <1>10, <3>1, <3>2, <6>1, <6>2
          <5> QED
            BY <1>1, <5>2, <5>3 DEF Stages
        <4> QED
          BY <4>1, <4>2
      <3> QED
        BY <1>8, <1>10, <3>2, <3>3 DEF Owned
    <2> QED
      BY <2>1, <2>2 DEF FlightInv
  <1>12. ASSUME ~NamelessErrors
         PROVE  /\ Exact' /\ m \in tracker.guards
                /\ log'[m] = "succeeded" <=> ev.kind = "completed"
                /\ \A k \in Messages \ {m} : log'[k] = log[k]
    <2>1. /\ \A r \in tracker.responses : r.id = Sending(r.by)
          /\ \A k \in Messages : /\ IsPending(k) => upstream[k] = "got"
                                 /\ Bound(k) => upstream[k] \in {"created", "output"}
      BY <1>12 DEF IInv, Exact
    <2>2. \A r \in tracker.responses : r.id = Sending(m) => r.by = m
      <3>1. \A r \in tracker.responses : r.by \in Messages
        BY DEF IInv, Types, Tracking
      <3> QED
        BY <1>10, <2>1, <3>1
    <2>3. m \in tracker.guards
      <3>1. IsPending(m) \/ Owned(m)
        BY <1>1 DEF Stages
      <3> QED
        BY <1>9, <2>2, <3>1 DEF Owned
    <2>4. of = {m}
      <3>1. CASE ev.named
        BY <1>3, <1>4, <2>2, <3>1 DEF Owned
      <3>2. CASE ~ev.named
        <4>1. \A k \in tracker.guards : k \in Messages /\ (IsPending(k) \/ Bound(k))
          BY Guarded DEF IInv, TrackerInv
        <4>2. \A k \in tracker.guards : k \in Messages /\ upstream[k] # "none"
          BY <2>1, <4>1
        <4>3. tracker.guards = {m}
          BY <1>12, <2>3, <3>2, <4>2 DEF Alone
        <4> QED
          BY <1>4, <3>2, <4>3
      <3> QED
        BY <3>1, <3>2
    <2>5. \A k \in Messages : /\ IsPending(k)' => upstream'[k] = "got"
                              /\ Bound(k)' => upstream'[k] \in {"created", "output"}
      BY <1>2, <1>7, <2>1, <2>4
    <2>6. Exact'
      BY <1>8, <2>1, <2>5 DEF Exact, Sending
    <2> QED
      BY <1>5, <1>7, <2>3, <2>4, <2>6
  <1>13. buffered' \in Seq(Events) /\ Len(buffered') <= PreludeMessages
    BY DEF IInv, Types
  <1>14. \A k \in Messages \ tracker.guards : log'[k] = log[k]
    BY <1>7
  <1> QED
    BY <1>2, <1>7, <1>11, <1>12, <1>13, <1>14, Passing

LEMMA Receives ==
  ASSUME IInv, NEW m \in Messages,
         NEW kind \in {"created", "refusal", "output", "completed", "failed"},
         NEW named \in BOOLEAN, NEW then \in {"none", "created", "output"},
         NEW ev, ev = [of |-> Sending(m), named |-> named, kind |-> kind],
         Receive(m, ev, then)
  PROVE  IInv'
  <1>1. /\ phase = "open" /\ buffered = <<>> /\ Speaks(m, ev, then)
        /\ upstream' = [upstream EXCEPT ![m] = then] /\ Observe(ev) /\ Gets(ev)
        /\ UNCHANGED <<timed, phase, kinds, queue, attempts, current, buffered, budget>>
    BY DEF Receive, Receiving
  <1>2. ev.of = Sending(m) /\ ev.named = named /\ ev.kind = kind
    OBVIOUS
  <1>3. upstream[m] # "none" /\ Sending(m) \in Sendings
    BY <1>1, InFlight DEF Speaks
  <1>4. worked' \in SUBSET Sendings /\ \A s \in worked' : s = Sending(s.msg)
    <2>1. worked' = worked \/ worked' = worked \cup {Sending(m)}
      BY <1>1, <1>2 DEF Speaks
    <2>2. Sending(m).msg = m
      BY DEF Sending
    <2> QED
      BY <1>3, <2>1, <2>2 DEF IInv, SentInv, Types
  <1>5. CASE kind = "created"
    <2>1. upstream[m] = "got" /\ named = TRUE /\ then = "created"
          /\ \A k \in 1..(m-1) : upstream[k] # "got"
      BY <1>1, <1>2, <1>5 DEF Speaks
    <2> QED
      BY <1>1, <1>2, <1>3, <1>4, <1>5, <2>1, ReceivesCreated
  <1>6. CASE kind = "output"
    <2>1. upstream[m] = "created" /\ named = FALSE /\ then = "output"
      BY <1>1, <1>2, <1>6 DEF Speaks
    <2> QED
      BY <1>1, <1>2, <1>3, <1>4, <1>6, <2>1, ReceivesOutput
  <1>7. CASE kind \in Terminal
    <2>1. then = "none" /\ IF named THEN upstream[m] # "got" ELSE NamelessErrors \/ Alone(m)
      BY <1>1, <1>2, <1>7 DEF Speaks, Terminal
    <2> QED
      BY <1>1, <1>2, <1>3, <1>4, <1>7, <2>1, ReceivesEnd
  <1> QED
    BY <1>5, <1>6, <1>7 DEF Terminal

\* Passing on what a prelude held, every event is of the only message in flight.
LEMMA Passes ==
  ASSUME IInv, NEW normally \in BOOLEAN, Pass(normally)
  PROVE  IInv'
  <1>1. phase = "open" /\ buffered # <<>> /\ UNCHANGED <<timed, kinds, attempts, worked>>
    BY DEF Pass
  <1>2. PICK m \in Messages : BufferOf(m)
    BY <1>1 DEF IInv, FlightInv
  <1>3. /\ buffered \in Seq(Events) /\ Len(buffered) \in Nat /\ Len(buffered) > 0
        /\ 1 \in 1..Len(buffered) /\ Len(buffered) <= PreludeMessages /\ PreludeMessages \in Nat
    <2>1. buffered \in Seq(Events) /\ Len(buffered) <= PreludeMessages
      BY DEF IInv, Types
    <2>2. Len(buffered) \in Nat /\ Len(buffered) > 0
      BY <1>1, <2>1, LenProperties, EmptySeq
    <2> QED
      BY <2>1, <2>2, ConstantsOK
  <1>4. CASE Head(buffered) = Close
    <2>1. UNCHANGED client /\ (Returns(Finished(log, tracker.guards, "failed"))
                                \/ Reconnects(log, queue))
      BY <1>4 DEF Pass
    <2>2. tracker.guards \in SUBSET Messages
      BY DEF IInv, Types, Tracking
    <2> QED
      BY <1>1, <2>1, <2>2, Quiet
  <1>5. CASE Head(buffered) # Close
    <2>1. PICK ev : ev = Head(buffered)
      OBVIOUS
    <2>2. /\ Observe(ev) /\ Gets(ev) /\ buffered' = Tail(buffered)
          /\ UNCHANGED <<timed, phase, kinds, queue, attempts, current, budget, upstream,
                         worked>>
      BY <1>5, <2>1 DEF Pass
    <2>3. ev = buffered[1] /\ ev \in Events /\ ev # Close
      BY <1>3, <1>5, <2>1, HeadTailProperties, ElementOfSeq
    <2>4. /\ tracker.guards = {m} /\ \A k \in Messages \ {m} : upstream[k] = "none"
          /\ \A r \in tracker.responses : r.id = Sending(r.by)
          /\ upstream[m] = After(buffered[Len(buffered)])
          /\ ev.of = Sending(m) /\ ev.kind # "close"
          /\ ev.kind = "created" => ev.named /\ ~Bound(m)
          /\ ev.kind # "created" => Len(buffered) = 1
          /\ ev.kind = "output" => ~ev.named
          /\ ev.kind = "completed" => ev.named
          /\ (ev.named /\ ev.kind # "created") \/ ev.kind = "output" => Bound(m)
      <3>1. /\ tracker.guards = {m} /\ \A k \in Messages \ {m} : upstream[k] = "none"
            /\ \A r \in tracker.responses : r.id = Sending(r.by)
            /\ upstream[m] = After(buffered[Len(buffered)])
        BY <1>2 DEF BufferOf
      <3>2. /\ ev = Close \/ (ev.of = Sending(m) /\ ev.kind # "close")
            /\ ev.kind = "created" => ev.named /\ ~Bound(m)
            /\ ev.kind # "created" => 1 = Len(buffered)
            /\ ev.kind = "output" => ~ev.named
            /\ ev.kind = "completed" => ev.named
            /\ (ev.named /\ ev.kind # "created") \/ ev.kind = "output" => 1 = 2 \/ Bound(m)
        BY <1>2, <1>3, <2>3 DEF BufferOf
      <3> QED
        BY <2>3, <3>1, <3>2
    <2>5. ev.named \in BOOLEAN
          /\ ev.kind \in {"created", "refusal", "output", "completed", "failed", "close"}
      BY <2>3 DEF Events
    <2>6. /\ buffered' \in Seq(Events) /\ Len(buffered') = Len(buffered) - 1
          /\ \A i \in 1..Len(buffered') : buffered'[i] = buffered[i + 1]
      BY <1>3, <2>2, HeadTailProperties
    <2>7. Len(buffered') <= PreludeMessages
      BY <1>3, <2>6
    <2>8. /\ upstream' \in [Messages -> Stages] /\ worked' \in SUBSET Sendings
          /\ \A s \in worked' : s = Sending(s.msg)
      BY <2>2 DEF IInv, Types, SentInv
    <2>9. /\ m \in tracker.guards /\ log[m] = "open" /\ Sending(m) \in Sendings
          /\ \A k : Sending(k).msg = k /\ Sending(k)' = Sending(k)
      <3>1. m \in tracker.guards /\ log[m] = "open" /\ Sending(m) \in Sendings
        BY <2>4, Guarded
      <3> QED
        BY <2>2, <3>1 DEF Sending
    <2>10. /\ \A k \in Messages \ {m} : ~IsPending(k) /\ ~Bound(k)
           /\ \A r \in tracker.responses : r.by = m /\ r.id = Sending(m)
           /\ \A k \in Messages : Owned(k) <=> Bound(k)
           /\ ~(IsPending(m) /\ Bound(m))
      <3>1. \A k \in Messages \ {m} : ~IsPending(k) /\ ~Bound(k)
        BY <2>4 DEF IInv, TrackerInv, IsPending, Bound
      <3>2. /\ \A r \in tracker.responses : r.by = m /\ r.id = Sending(m)
            /\ ~(IsPending(m) /\ Bound(m))
        BY <2>4 DEF IInv, TrackerInv, Bound
      <3>3. ASSUME NEW k \in Messages PROVE Owned(k) <=> Bound(k)
        <4>1. Sending(k) = Sending(m) => k = m
          BY <2>9
        <4> QED
          BY <3>2, <4>1 DEF Owned, Bound
      <3> QED
        BY <3>1, <3>2, <3>3
    <2>11. CASE ev.kind = "created"
      <3>1. IsPending(m) /\ ~Owned(m)
        BY <2>4, <2>9, <2>10, <2>11 DEF IInv, TrackerInv
      <3>2. PICK h \in tracker.guards :
              /\ h \in Messages /\ h <= m /\ IsPending(h)
              /\ tracker' \in Tracking /\ TrackerInv' /\ log' = log
              /\ tracker'.guards = tracker.guards
              /\ tracker'.responses = tracker.responses \cup {[id |-> Sending(m), by |-> h]}
              /\ \A k \in Messages : /\ IsPending(k)' <=> IsPending(k) /\ k # h
                                     /\ Bound(k)' <=> Bound(k) \/ k = h
                                     /\ Owned(k)' <=> Owned(k) \/ k = m
        BY <1>1, <2>2, <2>4, <2>5, <2>9, <2>11, <3>1, Begins
      <3>3. h = m /\ \A r \in tracker'.responses : r.id = Sending(r.by)'
        BY <2>4, <2>9, <3>2
      <3>4. FlightInv' /\ Exact'
        <4>1. CASE Len(buffered) = 1
          <5>1. buffered' = <<>> /\ upstream[m] = "created"
            BY <2>3, <2>4, <2>6, <2>11, <4>1, EmptySeq DEF After
          <5>2. \A k \in Messages : /\ upstream'[k] = "got" <=> IsPending(k)'
                                    /\ upstream'[k] \in {"created", "output"} <=> Bound(k)'
                                    /\ Owned(k)' <=> Bound(k)'
                                    /\ IsPending(k)' => ~(Bound(k)')
            BY <2>2, <2>4, <2>10, <3>2, <3>3, <5>1
          <5> QED
            BY <3>3, <5>1, <5>2 DEF FlightInv, Exact
        <4>2. CASE Len(buffered) # 1
          <5>1. Len(buffered) = 2 /\ 2 \in 1..Len(buffered)
            <6>1. 2 \in 1..Len(buffered)
              <7>1. \A n \in Nat : n > 0 /\ n # 1 => 2 \in 1..n
                OBVIOUS
              <7> QED
                BY ONLY <1>3, <4>2, <7>1
            <6>2. buffered[2].kind = "created" => 2 = 1
              BY <1>2, <6>1 DEF BufferOf
            <6>3. buffered[2].kind # "created" => 2 = Len(buffered)
              BY <1>2, <6>1 DEF BufferOf
            <6> QED
              BY <6>1, <6>2, <6>3
          <5>2. Len(buffered') = 1 /\ buffered'[1] = buffered[2] /\ buffered' # <<>>
            BY <2>6, <5>1, EmptySeq
          <5>3. PICK last : last = buffered[2]
            OBVIOUS
          <5>4. /\ last = Close \/ (last.of = Sending(m) /\ last.kind # "close")
                /\ last.kind # "created"
                /\ last.kind = "output" => ~last.named
                /\ last.kind = "completed" => last.named
            BY <1>2, <5>1, <5>3 DEF BufferOf
          <5>5. Sending(m)' = Sending(m) /\ Bound(m)'
            BY <2>9, <3>2, <3>3
          <5>6. BufferOf(m)'
            <6>1. tracker'.guards = {m} /\ \A k \in Messages \ {m} : upstream'[k] = "none"
              BY <2>2, <2>4, <3>2
            <6>2. upstream'[m] = After(buffered'[Len(buffered')])
              BY <2>2, <2>4, <5>1, <5>2
            <6>3. \A i \in 1..Len(buffered') : i = 1 /\ buffered'[i] = last
              BY <5>2, <5>3
            <6> QED
              BY <3>3, <5>2, <5>4, <5>5, <6>1, <6>2, <6>3 DEF BufferOf, After
          <5> QED
            BY <3>3, <5>2, <5>6 DEF FlightInv, Exact
        <4> QED
          BY <4>1, <4>2
      <3>5. log' \in Logs /\ \A k \in Messages : log'[k] = log[k]
        BY <3>2 DEF IInv, Types
      <3>6. log'[m] # "succeeded"
        BY <2>9, <3>2
      <3> QED
        BY <1>1, <2>2, <2>4, <2>6, <2>7, <2>8, <2>9, <2>11, <3>2, <3>4, <3>5, <3>6, Passing
    <2>12. CASE ev.kind = "output"
      <3>1. tracker' = tracker /\ log' = log
        <4>1. tracker' = [tracker EXCEPT !.pending = tracker.pending,
                                         !.responses = tracker.responses] /\ log' = log
          BY <2>2, <2>4, <2>12 DEF Observe
        <4>2. tracker \in Tracking
          BY DEF IInv, Types
        <4> QED
          BY <4>1, <4>2 DEF Tracking
      <3>2. TrackerInv' /\ tracker' \in Tracking /\ log' \in Logs
        BY <1>1, <3>1, TrackerKept DEF IInv, Types
      <3>3. FlightInv' /\ Exact'
        <4>1. buffered' = <<>> /\ upstream[m] = "output"
          BY SMTT(30), <2>3, <2>4, <2>6, <2>12, EmptySeq DEF After
        <4>2. Bound(m) /\ ~IsPending(m)
          BY <2>4, <2>10, <2>12
        <4>3. \A k \in Messages : /\ IsPending(k)' <=> IsPending(k)
                                  /\ Bound(k)' <=> Bound(k)
                                  /\ Owned(k)' <=> Owned(k)
          BY <2>9, <3>1 DEF IsPending, Bound, Owned
        <4>4. \A k \in Messages : /\ upstream'[k] # "got" /\ ~(IsPending(k)')
                                  /\ upstream'[k] \in {"created", "output"} <=> Bound(k)'
                                  /\ Owned(k)' <=> Bound(k)'
          BY <2>2, <2>4, <2>10, <4>1, <4>2, <4>3
        <4>5. \A r \in tracker'.responses : r.id = Sending(r.by)'
          BY <2>4, <2>9, <3>1
        <4> QED
          BY <4>1, <4>4, <4>5 DEF FlightInv, Exact
      <3>4. log'[m] # "succeeded" /\ \A k \in Messages : log'[k] = log[k]
        BY <2>9, <3>1
      <3> QED
        BY <1>1, <2>2, <2>4, <2>6, <2>7, <2>8, <2>9, <2>12, <3>1, <3>2, <3>3, <3>4, Passing
    <2>13. CASE ev.kind \in Terminal
      <3> DEFINE outcome == IF ev.kind = "completed" THEN "succeeded" ELSE "failed"
      <3>1. ev.named => Owned(m)
        BY <2>4, <2>10, <2>13 DEF Terminal
      <3>2. PICK of \in SUBSET tracker.guards :
              /\ ev.named => of = {r.by : r \in {r \in tracker.responses : r.id = ev.of}}
              /\ ~ev.named => of = {} \/ \E g : of = {g} /\ tracker.guards = {g}
              /\ ~ev.named /\ (\E g : tracker.guards = {g}) => of = tracker.guards
              /\ ev.named => \A k \in of : ~IsPending(k)
              /\ tracker' = [pending   |-> StillPending(tracker.pending, of),
                             responses |-> {r \in tracker.responses : r.by \notin of},
                             guards    |-> tracker.guards \ of]
              /\ log' = Finished(log, of, outcome)
        <4>1. ev.named => \E r \in tracker.responses : r.id = ev.of
          BY <2>4, <3>1 DEF Owned
        <4> QED
          BY <2>2, <2>13, <4>1, EndsOf
      <3>3. outcome \in Final /\ (outcome = "succeeded" <=> ev.kind = "completed")
        BY DEF Final
      <3> HIDE DEF outcome
      <3>4. of = {m}
        <4>1. CASE ev.named
          <5>1. PICK r \in tracker.responses : r.id = ev.of
            BY <2>4, <3>1, <4>1 DEF Owned
          <5> QED
            BY <2>4, <2>10, <3>2, <4>1, <5>1
        <4>2. CASE ~ev.named
          BY <2>4, <3>2, <4>2
        <4> QED
          BY <4>1, <4>2
      <3>5. \E g : of = {g} /\ tracker.guards = {g}
        BY <2>4, <3>4
      <3>6. /\ tracker' \in Tracking /\ TrackerInv' /\ log' \in Logs
            /\ \A k \in Messages : /\ IsPending(k)' <=> IsPending(k) /\ k \notin of
                                   /\ Bound(k)' <=> Bound(k) /\ k \notin of
                                   /\ k \notin of => log'[k] = log[k]
                                   /\ k \in of => log'[k] = outcome
        BY <1>1, <3>2, <3>3, <3>5, Ends
      <3>7. tracker'.responses = {}
        BY <2>10, <3>2, <3>4
      <3>8. FlightInv' /\ Exact'
        <4>1. buffered' = <<>> /\ upstream[m] = "none"
          BY <2>3, <2>4, <2>6, <2>13, EmptySeq DEF After, Terminal
        <4>2. \A k \in Messages : upstream'[k] = "none" /\ ~(IsPending(k)') /\ ~(Bound(k)')
          BY <2>2, <2>4, <2>10, <3>4, <3>6, <4>1
        <4> QED
          BY <3>7, <4>1, <4>2 DEF FlightInv, Exact
      <3> QED
        BY <1>1, <2>2, <2>4, <2>6, <2>7, <2>8, <2>9, <3>3, <3>4, <3>6, <3>8, Passing
    <2> QED
      BY <2>4, <2>5, <2>11, <2>12, <2>13 DEF Terminal
  <1> QED
    BY <1>4, <1>5

------------------------------------------------------------------------------
\* Theorems. All but one hold of every upstream. An upstream whose errors do not name
\* their response while others are in flight makes OutcomesRight false, so that one
\* assumes that there are none.

\* The invariant is inductive: no interleaving of client, relay and upstream breaks it.
THEOREM Inductive == Spec => []IInv
  <1>1. Init => IInv
    <2> SUFFICES ASSUME Init PROVE IInv
      OBVIOUS
    <2>1. /\ buffered = <<>> /\ kinds = <<>> /\ queue = <<>> /\ Len(<<>>) = 0
          /\ tracker = NoTracking /\ upstream = Nothing /\ log = Nothing
          /\ current = 0 /\ worked = {} /\ client = {} /\ phase \in {"first", "open"}
          /\ attempts = [k \in Messages |-> 0] /\ reconnects = 0
      BY DEF Init
    <2>2. /\ NoTracking.guards = {} /\ NoTracking.responses = {}
          /\ NoTracking.pending = <<>> /\ NoTracking \in Tracking
      BY EmptySeq DEF NoTracking, Tracking
    <2>3. /\ Nothing \in [Messages -> Stages] /\ Nothing \in Logs
          /\ \A k \in Messages : Nothing[k] = "none"
      BY DEF Nothing, Stages, Logs
    <2>4. Types
      <3>1. /\ timed \in BOOLEAN /\ late \in BOOLEAN /\ carried \in BOOLEAN
            /\ phase \in Serving \cup {"ended"} /\ phase # "prelude"
        BY <2>1 DEF Init, Serving
      <3>2. /\ kinds \in Seq({"create", "named", "plain"}) /\ Len(kinds) <= MaxMessages
            /\ queue \in Seq(Messages) /\ Len(queue) <= QueueMessages
            /\ buffered \in Seq(Events) /\ Len(buffered) <= PreludeMessages
            /\ attempts \in [Messages -> 0..MaxAttempts] /\ reconnects \in 0..MaxReconnects
        BY <2>1, ConstantsOK, EmptySeq
      <3> QED
        BY <2>1, <2>2, <2>3, <3>1, <3>2 DEF Types
    <2>5. QueueInv
      BY <2>1 DEF QueueInv
    <2>6. TrackerInv
      BY <2>1, <2>2 DEF TrackerInv
    <2>7. TaskInv
      BY <2>1, <2>3 DEF TaskInv, NoneIsUp
    <2>8. FlightInv /\ Exact
      BY <2>1, <2>2, <2>3 DEF FlightInv, Exact, IsPending, Bound
    <2>9. SentInv /\ OutcomesRight
      BY <2>1 DEF SentInv, OutcomesRight
    <2> QED
      BY <2>4, <2>5, <2>6, <2>7, <2>8, <2>9 DEF IInv
  <1>2. IInv /\ [Next]_vars => IInv'
    <2> SUFFICES ASSUME IInv, [Next]_vars PROVE IInv'
      OBVIOUS
    <2>1. CASE ClientLeaves \/ ConnectFails \/ Rejects \/ PreludeTimesOut \/ UpstreamCloses
               \/ UpstreamBreaks
      BY <2>1, Losses
    <2>2. CASE Connected \/ BudgetEnds
      BY <2>2, Waits
    <2>3. CASE PreludeCloses \/ Resend \/ GivesUp
      BY <2>3, PreludeCloseds, Resends, GivesUps
    <2>4. CASE \E kind \in {"create", "named", "plain"}, model \in {"none", "valid", "invalid"} :
                 ClientSends(kind, model)
      BY <2>4, Arrivals
    <2>5. CASE \E some \in BOOLEAN :
                 Sends(some) \/ SendFails(some) \/ ResendFails(some) \/ Pass(some)
      BY <2>5, SendsHead, FailedWrites, Passes
    <2>6. CASE \E m \in Messages : Works(m)
      BY <2>6, WorksOn
    <2>7. ASSUME NEW m \in Messages,
                 NEW kind \in {"created", "refusal", "output", "completed", "failed"},
                 NEW named \in BOOLEAN, NEW then \in {"none", "created", "output"},
                 LET ev == [of |-> Sending(m), named |-> named, kind |-> kind] IN
                 PreludeEvent(m, ev, then) \/ Receive(m, ev, then)
          PROVE  IInv'
      BY <2>7, PreludeEvents, Receives
    <2>8. CASE UNCHANGED vars
      <3>1. UNCHANGED <<timed, phase, kinds, queue, attempts, current, buffered, late, carried,
                        reconnects, tracker, log, upstream, worked, client>>
        BY <2>8 DEF vars
      <3>2. Types'
        BY <3>1 DEF IInv, Types
      <3>3. QueueInv' /\ (~NamelessErrors => OutcomesRight')
        BY <3>1 DEF IInv, QueueInv, Unsent, Create, OutcomesRight
      <3>4. TrackerInv'
        BY <3>1, TrackerKept DEF IInv
      <3>5. FlightInv' /\ (~NamelessErrors => Exact')
        BY <3>1, FlightKept, ExactKept DEF IInv
      <3>6. TaskInv' /\ SentInv'
        BY <3>1 DEF IInv, TaskInv, NoneIsUp, SentInv, Sending, IsPending
      <3> QED
        BY <3>2, <3>3, <3>4, <3>5, <3>6 DEF IInv
    <2> QED
      BY <2>1, <2>2, <2>3, <2>4, <2>5, <2>6, <2>7, <2>8 DEF Next
  <1> QED
    BY <1>1, <1>2, PTL DEF Spec

\* Every variable keeps its type, the limits of queue and prelude included, and the
\* tracker speaks of messages that were received only.
THEOREM TypeCorrect == Spec => []TypeOK
  <1>1. IInv => TypeOK
    <2> SUFFICES ASSUME IInv PROVE TypeOK
      OBVIOUS
    <2>1. Range(kinds) \subseteq {"create", "named", "plain"}
      BY LenProperties DEF IInv, Types, Range
    <2>2. Range(queue) \subseteq DOMAIN kinds
      <3>1. \A i \in 1..Len(queue) : queue[i] \in 1..Len(kinds)
        BY Sizes DEF IInv, QueueInv
      <3> QED
        BY <3>1, Sizes, LenProperties DEF Range
    <2>3. Range(buffered) \subseteq Events
      BY LenProperties DEF IInv, Types, Range
    <2>4. tracker.guards \subseteq DOMAIN kinds
      BY Guarded, Sizes
    <2>5. Range(tracker.pending) \subseteq tracker.guards
      <3>1. tracker.pending \in Seq(Messages)
        BY DEF IInv, Types, Tracking
      <3> QED
        BY <3>1, LenProperties DEF IInv, TrackerInv, Range
    <2>6. tracker.responses \subseteq [id : Sendings, by : tracker.guards]
      <3>1. tracker.responses \in SUBSET [id : Sendings, by : Messages]
        BY DEF IInv, Types, Tracking
      <3>2. \A r \in tracker.responses : r.by \in tracker.guards
        BY DEF IInv, TrackerInv
      <3> QED
        BY <3>1, <3>2
    <2>7. /\ timed \in BOOLEAN /\ late \in BOOLEAN /\ carried \in BOOLEAN
          /\ phase \in Serving \cup {"ended"} /\ Len(kinds) <= MaxMessages
          /\ Len(queue) <= QueueMessages /\ Len(buffered) <= PreludeMessages
          /\ attempts \in [Messages -> 0..MaxAttempts] /\ current \in Messages \cup {0}
          /\ reconnects \in 0..MaxReconnects
          /\ log \in [Messages -> {"none", "open", "succeeded", "failed", "cancelled"}]
          /\ upstream \in [Messages -> {"none", "got", "created", "output"}]
          /\ worked \subseteq Sendings /\ client \subseteq [of : Sendings, completed : BOOLEAN]
      BY DEF IInv, Types, Logs, Stages
    <2> QED
      BY <2>1, <2>2, <2>3, <2>4, <2>5, <2>6, <2>7 DEF TypeOK
  <1> QED
    BY <1>1, Inductive, PTL

\* No message is sent again that the upstream may have begun to work on, by whatever way
\* its sending was lost: refusal, disconnect, failed write or time.
THEOREM WorkIsNotRepeated == Spec => []NeverWorkedTwice
  <1>1. IInv => NeverWorkedTwice
    BY DEF IInv, SentInv, NeverWorkedTwice
  <1> QED
    BY <1>1, Inductive, PTL

\* The client gets the events of one sending of a message only, however often the message
\* was refused and repeated.
THEOREM AnswersOfOneAttempt == Spec => []OneAttempt
  <1>1. IInv => OneAttempt
    BY DEF IInv, SentInv, OneAttempt
  <1> QED
    BY <1>1, Inductive, PTL

\* A response is logged as a success just when the client has got its completion, with
\* any number of responses interleaved.
THEOREM OutcomesAreRight ==
  ASSUME ~NamelessErrors
  PROVE  Spec => []OutcomesRight
  <1>1. IInv => OutcomesRight
    BY DEF IInv
  <1> QED
    BY <1>1, Inductive, PTL

\* The messages reach the upstream in the client's order, over every reconnection.
THEOREM OrderIsKept == Spec => SentInOrder
  <1> DEFINE Ordered == \A m \in Messages : attempts'[m] > attempts[m] =>
                          \A k \in Messages : (k > m => attempts[k] = 0)
                                              /\ (k < m => k \notin Range(queue'))
  <1>1. IInv /\ [Next]_vars => Ordered
    <2> SUFFICES ASSUME IInv, [Next]_vars PROVE Ordered
      OBVIOUS
    <2>1. \/ UNCHANGED attempts
          \/ /\ queue # <<>> /\ attempts' = [attempts EXCEPT ![Head(queue)] = @ + 1]
             /\ queue' = Tail(queue) \/ queue' = <<>>
          \/ /\ phase = "backoff" /\ attempts' = [attempts EXCEPT ![current] = @ + 1]
             /\ queue' = queue \/ queue' = <<>>
      <3>1. CASE \E some \in BOOLEAN : Sends(some) \/ SendFails(some)
        BY <3>1 DEF Sends, SendFails, Popping, Arrives, WriteFails, Reconnects, Returns
      <3>2. CASE Resend \/ \E some \in BOOLEAN : ResendFails(some)
        BY <3>2 DEF Resend, ResendFails, Arrives, WriteFails, Reconnects, Returns
      <3>3. CASE ClientLeaves \/ ConnectFails \/ Rejects \/ PreludeTimesOut
                 \/ UpstreamCloses \/ UpstreamBreaks \/ Connected \/ BudgetEnds
                 \/ PreludeCloses \/ GivesUp \/ UNCHANGED vars
        BY <3>3 DEF ClientLeaves, ConnectFails, Rejects, PreludeTimesOut, UpstreamCloses,
                    UpstreamBreaks, Connected, BudgetEnds, PreludeCloses, GivesUp, vars
      <3>4. ASSUME NEW kind, NEW model, ClientSends(kind, model) PROVE UNCHANGED attempts
        BY <3>4 DEF ClientSends
      <3>5. ASSUME NEW some, Pass(some) PROVE UNCHANGED attempts
        BY <3>5 DEF Pass
      <3>6. ASSUME NEW m, Works(m) PROVE UNCHANGED attempts
        BY <3>6 DEF Works
      <3>7. ASSUME NEW m, NEW ev, NEW then, PreludeEvent(m, ev, then) \/ Receive(m, ev, then)
            PROVE  UNCHANGED attempts
        BY <3>7 DEF PreludeEvent, Receive
      <3> QED
        BY <3>1, <3>2, <3>3, <3>4, <3>5, <3>6, <3>7 DEF Next
    <2> SUFFICES ASSUME NEW m \in Messages, attempts'[m] > attempts[m], NEW k \in Messages
                 PROVE  (k > m => attempts[k] = 0) /\ (k < m => k \notin Range(queue'))
      OBVIOUS
    <2>2. attempts \in [Messages -> 0..MaxAttempts] /\ attempts[m] \in Nat /\ attempts[k] \in Nat
      BY Sizes DEF IInv, Types
    <2>3. m \in Nat /\ k \in Nat /\ Len(kinds) \in Nat /\ Len(queue) \in Nat
      BY Sizes
    <2>4. attempts[k] # 0 => k <= Len(kinds) - Len(queue)
      BY <2>2, Sizes
    <2>5. \A n \in Nat : ~(n > n)
      OBVIOUS
    <2>6. CASE UNCHANGED attempts
      BY <2>2, <2>5, <2>6
    <2>7. CASE /\ queue # <<>> /\ attempts' = [attempts EXCEPT ![Head(queue)] = @ + 1]
               /\ queue' = Tail(queue) \/ queue' = <<>>
      <3>1. m = Head(queue)
        BY <2>2, <2>5, <2>7
      <3>2. m = Len(kinds) - Len(queue) + 1
        BY <2>7, <3>1, HeadOfQueue
      <3>3. \A i \in 1..Len(queue') : queue'[i] \in Nat /\ queue'[i] > m
        <4>1. CASE queue' = <<>>
          BY <4>1
        <4>2. CASE queue' = Tail(queue)
          BY <2>3, <2>7, <3>1, <4>2, TailOfQueue
        <4> QED
          BY <2>7, <4>1, <4>2
      <3>4. queue' \in Seq(Messages)
        BY <2>7, TailOfQueue, EmptySeq
      <3>5. k < m => k \notin Range(queue')
        BY <2>3, <3>3, <3>4, LenProperties DEF Range
      <3> QED
        BY <2>3, <2>4, <3>2, <3>5
    <2>8. CASE /\ phase = "backoff" /\ attempts' = [attempts EXCEPT ![current] = @ + 1]
               /\ queue' = queue \/ queue' = <<>>
      <3>1. m = current
        BY <2>2, <2>5, <2>8
      <3>2. m = Len(kinds) - Len(queue)
        BY <2>8, <3>1 DEF IInv, TaskInv
      <3>3. \A i \in 1..Len(queue') : queue'[i] \in Nat /\ queue'[i] > m
        <4>1. CASE queue' = <<>>
          BY <4>1
        <4>2. CASE queue' = queue
          BY <2>3, <3>2, <4>2 DEF IInv, QueueInv
        <4> QED
          BY <2>8, <4>1, <4>2
      <3>4. queue' \in Seq(Messages)
        BY <2>8, Sizes, EmptySeq
      <3>5. k < m => k \notin Range(queue')
        BY <2>3, <3>3, <3>4, LenProperties DEF Range
      <3> QED
        BY <2>3, <2>4, <3>2, <3>5
    <2> QED
      BY <2>1, <2>6, <2>7, <2>8
  <1> QED
    BY <1>1, Inductive, PTL DEF Spec, SentInOrder
==============================================================================
