--------------------------- MODULE RequestLogProofs ---------------------------
(* Theorems about RequestLog, for any numbers of requests and any limit.     *)
EXTENDS RequestLog, SequenceTheorems, TLAPS

\* What Store::begin and Store::update keep. The order holds the last IDs given out, in
\* sequence; the cached snapshots agree with those that were persisted.
Window == {id \in 1..nextId : id + RecentLimit > nextId}
Held   == IF nextId < RecentLimit THEN nextId ELSE RecentLimit

OrderInv ==
  /\ nextId \in 0..MaxRequests /\ order \in Seq(Nat) /\ Len(order) = Held
  /\ \A i \in 1..Len(order) : order[i] = nextId - Held + i

EntriesInv ==
  /\ saved \in [Ids -> States \cup {"none"}]
  /\ DOMAIN entries = Window \cup {id \in 1..nextId : saved[id] = "none"}
  /\ \A id \in DOMAIN entries : entries[id] \in Entries /\ Snapshot(entries[id]) = saved[id]
  /\ \A id \in Ids : id > nextId => saved[id] = "none"

StoreInv == OrderInv /\ EntriesInv

\* One request's truth and its entry, which is there as long as it has no outcome.
Records == [kind : Kinds \cup {"none"}, streamed : BOOLEAN, status : {"none", "ok", "error"},
            heard : SUBSET {"completed", "failed"}, how : {"none", "ended", "broken", "left"}]
Phases  == {"none", "handling", "body", "late", "returning", "over"}

Heard(t) == IF "failed" \in t.heard THEN "failed"
            ELSE IF "completed" \in t.heard THEN "succeeded" ELSE "none"

Mirrors(e, t) ==
  /\ e.kind = t.kind /\ e.streaming = t.streamed /\ e.status = t.status
  /\ e.terminal = Heard(t)

RequestInv(id) ==
  /\ id > nextId => phase[id] = "none" /\ truth[id] = Unknown
  /\ phase[id] = "none" => id > nextId
  /\ phase[id] \in {"none", "handling", "body"} <=> saved[id] = "none"
  /\ phase[id] \in {"none", "handling", "body"} <=> truth[id].how = "none"
  /\ phase[id] = "handling" => truth[id].heard = {}
  /\ id <= nextId /\ saved[id] = "none" => Mirrors(entries[id], truth[id])
  /\ saved[id] # "none" => (saved[id] = "succeeded" <=> Succeeded(truth[id]))

RequestsInv ==
  /\ phase \in [Ids -> Phases] /\ truth \in [Ids -> Records]
  /\ \A id \in Ids : RequestInv(id)

IInv == StoreInv /\ RequestsInv

------------------------------------------------------------------------------
\* The store.

LEMMA RangeIsWindow ==
  ASSUME OrderInv
  PROVE  Range(order) = Window
  <1> USE ConstantsOK DEF OrderInv, Held, Window
  <1>1. Range(order) = {order[i] : i \in 1..Len(order)}
    BY LenProperties DEF Range
  <1>2. ASSUME NEW id \in Window PROVE \E i \in 1..Len(order) : order[i] = id
    <2>1. id - (nextId - Held) \in 1..Len(order)
      OBVIOUS
    <2>2. order[id - (nextId - Held)] = id
      BY <2>1
    <2> QED
      BY <2>1, <2>2
  <1>3. \A i \in 1..Len(order) : order[i] \in Window
    OBVIOUS
  <1> QED
    BY <1>1, <1>2, <1>3

LEMMA OldIsOutside ==
  ASSUME OrderInv, NEW id \in 1..nextId
  PROVE  Old(id) <=> id \notin Window
  BY ConstantsOK DEF OrderInv, Old, Window

LEMMA BeginOrder ==
  ASSUME OrderInv, nextId + 1 \in Ids, nextId' = nextId + 1, order' = Recent(nextId + 1)
  PROVE  OrderInv'
  <1> USE ConstantsOK DEF OrderInv, Held
  <1>1. CASE Len(order) = RecentLimit
    <2>1. order # <<>>
      BY <1>1, EmptySeq
    <2>2. /\ Tail(order) \in Seq(Nat) /\ Len(Tail(order)) = Len(order) - 1
          /\ \A i \in 1..Len(order) - 1 : Tail(order)[i] = order[i + 1]
      BY <2>1, HeadTailProperties
    <2>3. order' = Append(Tail(order), nextId + 1)
      BY <1>1 DEF Recent
    <2>4. nextId + 1 \in Nat
      OBVIOUS
    <2>5. /\ order' \in Seq(Nat) /\ Len(order') = RecentLimit
          /\ \A i \in 1..RecentLimit - 1 : order'[i] = Tail(order)[i]
          /\ order'[RecentLimit] = nextId + 1
      BY ONLY <1>1, <2>2, <2>3, <2>4, AppendProperties, ConstantsOK
    <2>6. ASSUME NEW i \in 1..RecentLimit - 1
          PROVE  order'[i] = nextId - Held + i + 1
      <3>1. order'[i] = order[i + 1] /\ i + 1 \in 1..Len(order)
        BY SMTT(30), <1>1, <2>2, <2>5
      <3> QED
        BY <3>1
    <2>7. Held = RecentLimit /\ Held' = RecentLimit /\ nextId' \in 0..MaxRequests
      BY <1>1 DEF Ids
    <2>8. ASSUME NEW i \in 1..RecentLimit
          PROVE  order'[i] = nextId' - Held' + i
      <3>0. nextId \in Nat /\ nextId' = nextId + 1
        OBVIOUS
      <3>1. CASE i = RecentLimit
        BY ONLY <2>5, <2>7, <3>0, <3>1, ConstantsOK
      <3>2. CASE i \in 1..RecentLimit - 1
        BY ONLY <2>6, <2>7, <3>0, <3>2, ConstantsOK
      <3> QED
        BY <3>1, <3>2
    <2> QED
      BY <2>5, <2>7, <2>8
  <1>2. CASE Len(order) # RecentLimit
    <2>1. order' = Append(order, nextId + 1)
      BY <1>2 DEF Recent
    <2>2. /\ order' \in Seq(Nat) /\ Len(order') = Len(order) + 1
          /\ \A i \in 1..Len(order) : order'[i] = order[i]
          /\ order'[Len(order) + 1] = nextId + 1
      BY ONLY <2>1, AppendProperties, nextId + 1 \in Nat, order \in Seq(Nat)
    <2> QED
      BY <1>2, <2>2 DEF Ids
  <1> QED
    BY <1>1, <1>2

\* What leaves the cache with a new request: the oldest one of the order, if it is final.
LEMMA BeginEvicts ==
  ASSUME StoreInv
  PROVE  Evicted = {id \in Window : id + RecentLimit = nextId + 1 /\ saved[id] # "none"}
  <1> USE ConstantsOK DEF StoreInv, OrderInv, Held, Window
  <1>1. CASE Len(order) = RecentLimit
    <2>1. Head(order) = nextId - RecentLimit + 1
      BY <1>1, HeadTailProperties, EmptySeq
    <2>2. Head(order) \in Window /\ Head(order) \in DOMAIN entries
      BY <1>1, <2>1 DEF EntriesInv
    <2>3. entries[Head(order)].final <=> saved[Head(order)] # "none"
      BY <2>2 DEF EntriesInv, Snapshot, Entries, States
    <2> QED
      BY <1>1, <2>1, <2>2, <2>3 DEF Evicted
  <1>2. CASE Len(order) # RecentLimit
    BY <1>2 DEF Evicted
  <1> QED
    BY <1>1, <1>2

LEMMA BeginStep ==
  ASSUME StoreInv, NEW k \in Kinds, Begin(Begun(k))
  PROVE  /\ StoreInv' /\ nextId' = nextId + 1 /\ nextId' \in Ids /\ saved' = saved
         /\ nextId' \in DOMAIN entries' /\ entries'[nextId'] = Begun(k)
         /\ \A id \in DOMAIN entries' \ {nextId'} : id \in DOMAIN entries /\ entries'[id] = entries[id]
  <1> USE ConstantsOK DEF Begin, Ids
  <1>1. OrderInv'
    BY BeginOrder DEF StoreInv
  <1>2. nextId \in 0..MaxRequests /\ nextId' = nextId + 1 /\ nextId' \in Ids
    BY DEF StoreInv, OrderInv
  <1>3. saved' = saved
    BY <1>2 DEF Persisted, Snapshot, Begun, StoreInv, EntriesInv
  <1>4. Begun(k) \in Entries /\ Snapshot(Begun(k)) = "none"
    BY DEF Begun, Entries, States, Snapshot
  <1>5. DOMAIN entries' = Window' \cup {id \in 1..nextId' : saved'[id] = "none"}
    BY <1>2, <1>3, BeginEvicts DEF StoreInv, EntriesInv, Window
  <1>6. /\ nextId' \in DOMAIN entries' /\ entries'[nextId'] = Begun(k)
        /\ \A id \in DOMAIN entries' \ {nextId'} :
             id \in DOMAIN entries /\ entries'[id] = entries[id]
    BY <1>2
  <1>7. EntriesInv'
    BY <1>2, <1>3, <1>4, <1>5, <1>6 DEF StoreInv, EntriesInv, Snapshot
  <1> QED
    BY <1>1, <1>2, <1>3, <1>6, <1>7 DEF StoreInv

\* What an operation may make of an entry: an end stays as it is.
Follows(f, e, kind) ==
  /\ f \in Entries /\ (e.final => f.final /\ f.state = e.state)
  /\ kind \notin {"usage", "finished"} => f.final = e.final

LEMMA UpdateStep ==
  ASSUME StoreInv, NEW id \in 1..nextId, NEW f, NEW kind, kind # "received",
         Follows(f, Entry(id), kind), Update(id, f, kind), UNCHANGED <<nextId, order>>
  PROVE  /\ StoreInv'
         /\ \A i \in Ids : saved[i] # "none" => saved'[i] = saved[i]
         /\ \A i \in Ids \ {id} : saved'[i] = saved[i]
         /\ id \in DOMAIN entries => saved'[id] = Snapshot(f)
         /\ \A i \in DOMAIN entries' : i \in DOMAIN entries
                                      /\ entries'[i] = IF i = id THEN f ELSE entries[i]
  <1> USE ConstantsOK DEF StoreInv, Ids
  <1>1. OrderInv' /\ Window' = Window /\ id \in Ids
    BY DEF OrderInv, Held, Window
  <1>2. \A i \in DOMAIN entries' : i \in DOMAIN entries
                                  /\ entries'[i] = IF i = id THEN f ELSE entries[i]
    BY DEF Update
  <1>3. CASE id \in DOMAIN entries
    <2>1. Entry(id) = entries[id] /\ entries[id] \in Entries
          /\ Snapshot(entries[id]) = saved[id]
      BY <1>3 DEF Entry, EntriesInv
    <2>2. saved[id] # "none" => Snapshot(f) = saved[id]
      BY <2>1 DEF Follows, Snapshot
    <2>3. kind \notin {"usage", "finished"} => Snapshot(f) = saved[id]
      BY <2>1 DEF Follows, Snapshot
    <2>4. saved' = [saved EXCEPT ![id] = Snapshot(f)]
      BY <1>1, <1>3, <2>3 DEF Update, Persisted, EntriesInv
    <2>5. Snapshot(f) \in States \cup {"none"} /\ (f.final <=> Snapshot(f) # "none")
      BY DEF Follows, Snapshot, Entries, States
    <2>6. saved'[id] = Snapshot(f) /\ \A i \in Ids \ {id} : saved'[i] = saved[i]
      BY <1>1, <2>4 DEF EntriesInv
    <2>7. saved' \in [Ids -> States \cup {"none"}]
      BY <1>1, <2>4, <2>5 DEF EntriesInv
    <2>8. DOMAIN entries' = DOMAIN entries \ (IF f.final /\ id \notin Window THEN {id} ELSE {})
      BY OldIsOutside DEF Update
    <2>9. DOMAIN entries' = Window \cup {i \in 1..nextId : saved'[i] = "none"}
      <3>1. \A i \in 1..nextId : i \in Ids
        BY DEF OrderInv
      <3>2. DOMAIN entries = Window \cup {i \in 1..nextId : saved[i] = "none"}
        BY DEF EntriesInv
      <3>3. saved'[id] = "none" <=> ~f.final
        BY <2>5, <2>6
      <3> QED
        BY <1>3, <2>2, <2>5, <2>6, <2>8, <3>1, <3>2, <3>3
    <2>10. \A i \in DOMAIN entries' : entries'[i] \in Entries
                                     /\ Snapshot(entries'[i]) = saved'[i]
      <3>1. \A i \in DOMAIN entries' : i \in Ids
        BY <1>2 DEF EntriesInv, Window, OrderInv
      <3> QED
        BY <1>2, <2>6, <3>1 DEF EntriesInv, Follows
    <2>11. \A i \in Ids : i > nextId => saved'[i] = "none"
      BY <1>1, <2>6 DEF EntriesInv, OrderInv
    <2>12. EntriesInv'
      BY <1>1, <2>7, <2>9, <2>10, <2>11 DEF EntriesInv
    <2> QED
      BY <1>1, <1>2, <2>2, <2>6, <2>12
  <1>4. CASE id \notin DOMAIN entries
    <2>1. saved' = saved
      BY <1>4 DEF Update
    <2>2. DOMAIN entries' = DOMAIN entries /\ \A i \in DOMAIN entries' : entries'[i] = entries[i]
      BY <1>4 DEF Update
    <2>3. EntriesInv'
      BY <1>1, <2>1, <2>2 DEF EntriesInv, Snapshot
    <2> QED
      BY <1>1, <1>2, <1>4, <2>1, <2>3
  <1> QED
    BY <1>3, <1>4

------------------------------------------------------------------------------
\* What an operation makes of an entry.

LEMMA CompletedFollows ==
  ASSUME NEW e \in Entries, NEW outcome \in States, NEW source
  PROVE  Follows(Completed(e, outcome, source), e, "finished")
         /\ Completed(e, outcome, source).final
  <1>1. Outcome(e, outcome, source) \in States
    BY DEF Outcome, States
  <1>2. Completed(e, outcome, source) \in Entries
    BY <1>1 DEF Completed, Entries
  <1> QED
    BY <1>1, <1>2 DEF Completed, Follows, Entries

LEMMA ObservedFollows ==
  ASSUME NEW e \in Entries, NEW event \in {"none", "completed", "failed"}, NEW kind
  PROVE  Follows(Observed(e, event), e, kind)
  BY DEF Observed, Follows, Entries

LEMMA AnsweredFollows ==
  ASSUME NEW e \in Entries, NEW status \in {"ok", "error"}, NEW kind
  PROVE  Follows(Answered(e, status), e, kind)
  BY DEF Answered, Follows, Entries, States

LEMMA FollowsTrans ==
  ASSUME NEW e, NEW f, NEW g, NEW kind, Follows(f, e, kind), Follows(g, f, "finished")
  PROVE  Follows(g, e, "finished")
  BY DEF Follows

\* The entry an operation works on.
LEMMA EntryIs ==
  ASSUME IInv, NEW id \in Ids, phase[id] # "none"
  PROVE  /\ id \in 1..nextId /\ Entry(id) \in Entries
         /\ phase[id] \in {"handling", "body"} =>
              id \in DOMAIN entries /\ Entry(id) = entries[id] /\ ~Entry(id).final
              /\ Mirrors(Entry(id), truth[id]) /\ saved[id] = "none"
  <1> USE DEF IInv, StoreInv, RequestsInv
  <1>1. id \in 1..nextId
    BY DEF RequestInv, OrderInv, Ids
  <1>2. Entry(id) \in Entries
    BY DEF Entry, EntriesInv, Begun, Entries, Kinds, States
  <1>3. ASSUME phase[id] \in {"handling", "body"}
        PROVE  id \in DOMAIN entries /\ Entry(id) = entries[id] /\ ~Entry(id).final
               /\ Mirrors(Entry(id), truth[id]) /\ saved[id] = "none"
    <2>1. saved[id] = "none"
      BY <1>3 DEF RequestInv
    <2>2. id \in DOMAIN entries /\ Entry(id) = entries[id]
      BY <1>1, <2>1 DEF EntriesInv, Entry
    <2>3. ~Entry(id).final
      BY <2>1, <2>2 DEF EntriesInv, Snapshot, Entries, States
    <2> QED
      BY <1>1, <2>1, <2>2, <2>3 DEF RequestInv
  <1> QED
    BY <1>1, <1>2, <1>3

\* What the step makes of the request itself, whose entry becomes f.
Fits(id, f, p, t) ==
  /\ p \in Phases \ {"none"} /\ t \in Records
  /\ saved[id] = "none" =>
       LET s == Snapshot(f) IN
       /\ p \in {"handling", "body"} <=> s = "none"
       /\ t.how = "none" <=> s = "none"
       /\ p = "handling" => t.heard = {}
       /\ s = "none" => Mirrors(f, t)
       /\ s # "none" => (s = "succeeded" <=> Succeeded(t))
  /\ saved[id] # "none" =>
       p \notin {"handling", "body"} /\ t.how # "none" /\ (Succeeded(t) <=> Succeeded(truth[id]))

LEMMA HandledStep ==
  ASSUME IInv, NEW id \in Ids, phase[id] # "none", NEW f, NEW kind, kind # "received",
         Follows(f, Entry(id), kind), Update(id, f, kind), UNCHANGED <<nextId, order>>,
         NEW p, NEW t, Fits(id, f, p, t),
         phase' = [phase EXCEPT ![id] = p], truth' = [truth EXCEPT ![id] = t]
  PROVE  IInv' /\ \A i \in Ids : saved[i] # "none" => saved'[i] = saved[i]
  <1>1. id \in 1..nextId /\ StoreInv
    BY EntryIs DEF IInv
  <1>2. /\ StoreInv'
        /\ \A i \in Ids : saved[i] # "none" => saved'[i] = saved[i]
        /\ \A i \in Ids \ {id} : saved'[i] = saved[i]
        /\ id \in DOMAIN entries => saved'[id] = Snapshot(f)
        /\ \A i \in DOMAIN entries' : i \in DOMAIN entries
                                     /\ entries'[i] = IF i = id THEN f ELSE entries[i]
    BY <1>1, UpdateStep
  <1>3. phase' \in [Ids -> Phases] /\ truth' \in [Ids -> Records]
    BY DEF IInv, RequestsInv, Fits
  <1>4. ASSUME NEW i \in Ids, i # id PROVE RequestInv(i)'
    <2>1. phase'[i] = phase[i] /\ truth'[i] = truth[i] /\ saved'[i] = saved[i]
      BY <1>2, <1>4 DEF IInv, RequestsInv
    <2>2. i <= nextId /\ saved[i] = "none" => entries'[i] = entries[i]
      <3> SUFFICES ASSUME i <= nextId, saved[i] = "none" PROVE entries'[i] = entries[i]
        OBVIOUS
      <3>1. i \in DOMAIN entries'
        BY <1>2, <2>1 DEF StoreInv, EntriesInv, Ids, OrderInv
      <3> QED
        BY <1>2, <1>4, <3>1
    <2> QED
      BY <2>1, <2>2 DEF IInv, RequestsInv, RequestInv, Succeeded
  <1>5. RequestInv(id)'
    <2>1. phase'[id] = p /\ truth'[id] = t
      BY DEF IInv, RequestsInv
    <2>2. RequestInv(id) /\ id <= nextId
      BY <1>1 DEF IInv, RequestsInv, StoreInv, OrderInv
    <2>3. CASE saved[id] = "none"
      <3>1. id \in DOMAIN entries /\ saved'[id] = Snapshot(f)
        BY <1>1, <1>2, <2>3 DEF StoreInv, EntriesInv
      <3>2. Snapshot(f) = "none" => entries'[id] = f
        <4> SUFFICES ASSUME Snapshot(f) = "none" PROVE entries'[id] = f
          OBVIOUS
        <4>1. id \in DOMAIN entries'
          BY <1>1, <1>2, <3>1 DEF StoreInv, EntriesInv
        <4> QED
          BY <1>2, <4>1
      <3> QED
        BY <1>1, <2>1, <2>2, <2>3, <3>1, <3>2 DEF Fits, RequestInv, StoreInv, OrderInv
    <2>4. CASE saved[id] # "none"
      <3>1. saved'[id] = saved[id]
        BY <1>2, <2>4
      <3> QED
        BY <1>1, <2>1, <2>2, <2>4, <3>1 DEF Fits, RequestInv, StoreInv, OrderInv
    <2> QED
      BY <2>3, <2>4
  <1> QED
    BY <1>2, <1>3, <1>4, <1>5 DEF IInv, RequestsInv

------------------------------------------------------------------------------
\* The actions.

\* No outcome is given up.
Kept == \A id \in Ids : saved[id] # "none" => saved'[id] = saved[id]

LEMMA ArrivesStep ==
  ASSUME IInv, NEW k \in Kinds, Arrives(k)
  PROVE  IInv' /\ Kept
  <1>1. /\ StoreInv' /\ nextId' = nextId + 1 /\ nextId' \in Ids /\ saved' = saved
        /\ nextId' \in DOMAIN entries' /\ entries'[nextId'] = Begun(k)
        /\ \A id \in DOMAIN entries' \ {nextId'} :
             id \in DOMAIN entries /\ entries'[id] = entries[id]
    BY BeginStep DEF IInv, Arrives
  <1>2. nextId \in Nat
    BY DEF IInv, StoreInv, OrderInv
  <1>3. /\ phase' = [phase EXCEPT ![nextId'] = "handling"]
        /\ truth' = [truth EXCEPT ![nextId'].kind = k]
    BY DEF Arrives, Goes
  <1>4. truth[nextId'] = Unknown /\ saved[nextId'] = "none"
    BY <1>1, <1>2 DEF IInv, RequestsInv, RequestInv, StoreInv, EntriesInv
  <1>5. phase' \in [Ids -> Phases] /\ truth' \in [Ids -> Records]
    BY <1>1, <1>3 DEF IInv, RequestsInv, Phases, Records
  <1>n. PICK n \in Ids : n = nextId'
    BY <1>1
  <1>6. ASSUME NEW i \in Ids, i # n PROVE RequestInv(i)'
    <2>1. phase'[i] = phase[i] /\ truth'[i] = truth[i]
      BY <1>3, <1>6, <1>n DEF IInv, RequestsInv
    <2>2. i <= nextId' /\ saved[i] = "none" => i <= nextId /\ entries'[i] = entries[i]
      <3> SUFFICES ASSUME i <= nextId', saved[i] = "none"
                   PROVE  i <= nextId /\ entries'[i] = entries[i]
        OBVIOUS
      <3>1. i <= nextId
        BY <1>1, <1>2, <1>6, <1>n DEF Ids
      <3>2. i \in DOMAIN entries'
        BY <1>1, <1>2 DEF StoreInv, EntriesInv, Ids
      <3> QED
        BY <1>1, <1>6, <1>n, <3>1, <3>2
    <2> QED
      BY <1>1, <1>2, <1>6, <1>n, <2>1, <2>2 DEF IInv, RequestsInv, RequestInv, Succeeded, Ids
  <1>7. RequestInv(n)'
    <2>1. phase'[n] = "handling" /\ truth'[n] = [Unknown EXCEPT !.kind = k]
      BY <1>1, <1>3, <1>4, <1>n DEF IInv, RequestsInv
    <2>2. Mirrors(Begun(k), [Unknown EXCEPT !.kind = k])
      BY DEF Mirrors, Begun, Unknown, Heard
    <2>3. [Unknown EXCEPT !.kind = k].how = "none" /\ [Unknown EXCEPT !.kind = k].heard = {}
      BY DEF Unknown
    <2> QED
      BY <1>1, <1>2, <1>4, <1>n, <2>1, <2>2, <2>3 DEF RequestInv
  <1>8. \A i \in Ids : RequestInv(i)'
    BY <1>6, <1>7
  <1> QED
    BY <1>1, <1>5, <1>8 DEF IInv, RequestsInv, Kept

LEMMA UnauthorizedStep ==
  ASSUME IInv, NEW id \in Ids, Unauthorized(id)
  PROVE  IInv' /\ Kept
  <1> DEFINE e == Entry(id)
             f == Completed(Answered(e, "error"), "failed", "authentication")
             t == [truth[id] EXCEPT !.status = "error", !.how = "ended"]
  <1>1. /\ id \in 1..nextId /\ e \in Entries /\ e = entries[id] /\ ~e.final
        /\ Mirrors(e, truth[id]) /\ saved[id] = "none"
    BY EntryIs DEF Unauthorized
  <1>2. Follows(f, e, "finished") /\ f.final
    <2>1. Follows(Answered(e, "error"), e, "finished")
      BY <1>1, AnsweredFollows
    <2>2. Answered(e, "error") \in Entries
      BY <2>1 DEF Follows
    <2> QED
      BY <2>1, <2>2, CompletedFollows, FollowsTrans DEF States
  <1>3. Snapshot(f) = "failed"
    BY <1>1, <1>2 DEF Snapshot, Completed, Answered, Outcome, Entries
  <1>4. truth[id] \in Records
    BY DEF IInv, RequestsInv
  <1>5. t \in Records /\ t.how = "ended" /\ ~Succeeded(t)
    BY <1>4 DEF Records, Succeeded
  <1>6. Fits(id, f, "over", t)
    BY <1>1, <1>3, <1>5 DEF Fits, Phases
  <1>7. truth' = [truth EXCEPT ![id] = t] /\ phase' = [phase EXCEPT ![id] = "over"]
    BY DEF Unauthorized, Goes
  <1> QED
    BY <1>2, <1>6, <1>7, HandledStep DEF Unauthorized, Kept

LEMMA ResponseTypeStep ==
  ASSUME IInv, NEW id \in Ids, ResponseType(id)
  PROVE  IInv' /\ Kept
  <1> DEFINE e == Entry(id)
             f == [e EXCEPT !.streaming = TRUE]
             t == [truth[id] EXCEPT !.streamed = TRUE]
  <1>1. /\ id \in 1..nextId /\ e \in Entries /\ e = entries[id] /\ ~e.final
        /\ Mirrors(e, truth[id]) /\ saved[id] = "none"
    BY EntryIs DEF ResponseType
  <1>2. Follows(f, e, "response") /\ Snapshot(f) = "none"
    BY <1>1 DEF Follows, Entries, Snapshot
  <1>3. truth[id] \in Records /\ RequestInv(id) /\ phase[id] = "handling"
    BY DEF IInv, RequestsInv, ResponseType
  <1>4. t \in Records /\ t.how = truth[id].how /\ t.heard = truth[id].heard
    BY <1>3 DEF Records
  <1>5. Mirrors(f, t)
    BY <1>1, <1>3 DEF Mirrors, Entries, Records, Heard
  <1>6. Fits(id, f, "handling", t)
    BY <1>1, <1>2, <1>3, <1>4, <1>5 DEF Fits, Phases, RequestInv
  <1>7. truth' = [truth EXCEPT ![id] = t]
    BY DEF ResponseType
  <1>8. phase' = [phase EXCEPT ![id] = "handling"]
    BY <1>3 DEF ResponseType, IInv, RequestsInv
  <1>9. Update(id, f, "response") /\ UNCHANGED <<nextId, order>>
    BY DEF ResponseType
  <1> HIDE DEF f, t
  <1> QED
    BY <1>2, <1>3, <1>6, <1>7, <1>8, <1>9, HandledStep DEF Kept

LEMMA HeadersStep ==
  ASSUME IInv, NEW id \in Ids, NEW status \in {"ok", "error"}, Headers(id, status)
  PROVE  IInv' /\ Kept
  <1> DEFINE e == Entry(id)
             f == Answered(e, status)
             t == [truth[id] EXCEPT !.status = status]
  <1>1. /\ id \in 1..nextId /\ e \in Entries /\ e = entries[id] /\ ~e.final
        /\ Mirrors(e, truth[id]) /\ saved[id] = "none"
    BY EntryIs DEF Headers
  <1>2. Follows(f, e, "headers") /\ Snapshot(f) = "none"
    BY <1>1, AnsweredFollows DEF Answered, Entries, Snapshot
  <1>3. truth[id] \in Records /\ RequestInv(id) /\ phase[id] = "handling"
    BY DEF IInv, RequestsInv, Headers
  <1>4. t \in Records /\ t.how = truth[id].how
    BY <1>3 DEF Records
  <1>5. Mirrors(f, t)
    BY <1>1, <1>3 DEF Mirrors, Entries, Records, Heard, Answered
  <1>6. Fits(id, f, "body", t)
    BY <1>1, <1>2, <1>3, <1>4, <1>5 DEF Fits, Phases, RequestInv
  <1>7. truth' = [truth EXCEPT ![id] = t] /\ phase' = [phase EXCEPT ![id] = "body"]
    BY DEF Headers, Goes
  <1> QED
    BY <1>2, <1>3, <1>6, <1>7, HandledStep DEF Headers, Kept

\* An event after the outcome only adds to what the entry reports.
LEMMA EventStep ==
  ASSUME IInv, NEW id \in Ids, NEW event \in {"none", "completed", "failed"},
         NEW usage \in BOOLEAN, Event(id, event, usage)
  PROVE  IInv' /\ Kept
  <1> DEFINE e == Entry(id)
             f == Observed(e, event)
             kind == IF usage THEN "usage" ELSE "response_event"
             t == IF phase[id] = "body" /\ event # "none"
                  THEN [truth[id] EXCEPT !.heard = @ \cup {event}] ELSE truth[id]
  <1>1. id \in 1..nextId /\ e \in Entries
    BY EntryIs DEF Event
  <1>2. Follows(f, e, kind) /\ f.final = e.final
    BY <1>1, ObservedFollows DEF Observed, Entries
  <1>3. truth[id] \in Records /\ RequestInv(id) /\ phase[id] \in {"body", "late"}
    BY DEF IInv, RequestsInv, Event
  <1>4. t \in Records /\ t.how = truth[id].how
    BY <1>3 DEF Records
  <1>5. Fits(id, f, phase[id], t)
    <2>1. CASE phase[id] = "body"
      <3>1. e = entries[id] /\ ~e.final /\ Mirrors(e, truth[id]) /\ saved[id] = "none"
        BY <2>1, EntryIs
      <3>2. Mirrors(f, t)
        BY <1>1, <1>3, <2>1, <3>1 DEF Mirrors, Entries, Records, Heard, Observed
      <3>3. Snapshot(f) = "none"
        BY <1>2, <3>1 DEF Snapshot
      <3>4. truth[id].how = "none"
        BY <1>3, <2>1 DEF RequestInv
      <3> HIDE DEF f, t
      <3> QED
        BY <1>4, <2>1, <3>1, <3>2, <3>3, <3>4 DEF Fits, Phases
    <2>2. CASE phase[id] = "late"
      <3>1. t = truth[id] /\ saved[id] # "none" /\ truth[id].how # "none"
        BY <1>3, <2>2 DEF RequestInv
      <3> QED
        BY <1>3, <2>2, <3>1 DEF Fits, Phases
    <2> QED
      BY <1>3, <2>1, <2>2
  <1>6. Update(id, f, kind) /\ UNCHANGED <<nextId, order>> /\ kind # "received"
    BY DEF Event
  <1>7. truth' = [truth EXCEPT ![id] = t] /\ phase' = [phase EXCEPT ![id] = phase[id]]
    BY DEF Event, IInv, RequestsInv
  <1> HIDE DEF f, t, kind
  <1> QED
    BY <1>2, <1>3, <1>5, <1>6, <1>7, HandledStep DEF Kept

\* An end that a guard records while the request has no outcome.
LEMMA EndFits ==
  ASSUME IInv, NEW id \in Ids, phase[id] \in {"handling", "body"},
         NEW f, f.final, f.state \in States, NEW p \in {"late", "over", "returning"},
         NEW t \in Records, t.how # "none", f.state = "succeeded" <=> Succeeded(t)
  PROVE  Fits(id, f, p, t)
  <1>1. saved[id] = "none" /\ Snapshot(f) = f.state /\ f.state # "none"
    BY EntryIs DEF Snapshot, States
  <1> QED
    BY <1>1 DEF Fits, Phases

LEMMA BodyEndsStep ==
  ASSUME IInv, NEW id \in Ids, NEW to \in {"late", "over"}, BodyEnds(id, to)
  PROVE  IInv' /\ Kept
  <1> DEFINE e == Entry(id)
             source == IF truth[id].streamed THEN "stream_end" ELSE "http"
             f == Completed(e, "succeeded", source)
             t == [truth[id] EXCEPT !.how = "ended"]
  <1>1. id \in 1..nextId /\ e \in Entries /\ ~e.final /\ Mirrors(e, truth[id])
    BY EntryIs DEF BodyEnds
  <1>2. Follows(f, e, "finished") /\ f.final /\ f \in Entries
    BY <1>1, CompletedFollows DEF States, Follows
  <1>3. truth[id] \in Records /\ truth[id].how = "none" /\ phase[id] = "body"
    BY DEF IInv, RequestsInv, RequestInv, BodyEnds
  <1>4. t \in Records /\ t.how = "ended"
    BY <1>3 DEF Records
  <1>5. f.state = "succeeded" <=> Succeeded(t)
    BY <1>1, <1>3 DEF Completed, Outcome, Mirrors, Heard, Succeeded, Entries, Records
  <1>6. f.state \in States
    BY <1>2 DEF Entries
  <1>7. truth' = [truth EXCEPT ![id] = t] /\ phase' = [phase EXCEPT ![id] = to]
    BY <1>3 DEF BodyEnds, Ends, Goes
  <1>8. Update(id, f, "finished") /\ UNCHANGED <<nextId, order>>
    BY DEF BodyEnds
  <1> HIDE DEF f, t
  <1>9. Fits(id, f, to, t)
    BY <1>2, <1>3, <1>4, <1>5, <1>6, EndFits
  <1> QED
    BY <1>2, <1>3, <1>7, <1>8, <1>9, HandledStep DEF Kept

\* The connection or the socket is lost, or the recovery's time is up.
LEMMA FailsStep ==
  ASSUME IInv, NEW id \in Ids, BodyBreaks(id) \/ SocketTimesOut(id)
  PROVE  IInv' /\ Kept
  <1> DEFINE e == Entry(id)
             t == [truth[id] EXCEPT !.how = "broken"]
  <1>1. PICK source \in {"transport", "recovery"}, p \in {"over", "returning"} :
          /\ Update(id, Completed(e, "failed", source), "finished")
          /\ UNCHANGED <<nextId, order>> /\ Ends(id, "broken", p) /\ phase[id] = "body"
    BY DEF BodyBreaks, SocketTimesOut
  <1> DEFINE f == Completed(e, "failed", source)
  <1>2. id \in 1..nextId /\ e \in Entries /\ ~e.final
    BY <1>1, EntryIs
  <1>3. Follows(f, e, "finished") /\ f.final
    BY <1>2, CompletedFollows DEF States
  <1>4. truth[id] \in Records /\ truth[id].how = "none"
    BY <1>1 DEF IInv, RequestsInv, RequestInv
  <1>5. t \in Records /\ t.how = "broken"
    BY <1>4 DEF Records
  <1>6. f.state = "failed" /\ ~Succeeded(t)
    BY <1>1, <1>2, <1>5 DEF Completed, Outcome, Entries, Succeeded
  <1>7. truth' = [truth EXCEPT ![id] = t] /\ phase' = [phase EXCEPT ![id] = p]
    BY <1>1, <1>4 DEF Ends, Goes
  <1>8. Update(id, f, "finished")
    BY <1>1
  <1> HIDE DEF f, t
  <1>9. Fits(id, f, p, t)
    BY <1>1, <1>3, <1>4, <1>5, <1>6, EndFits DEF States
  <1> QED
    BY <1>1, <1>3, <1>7, <1>8, <1>9, HandledStep DEF Kept

LEMMA SocketEventStep ==
  ASSUME IInv, NEW id \in Ids, NEW event \in {"completed", "failed"}, SocketEvent(id, event)
  PROVE  IInv' /\ Kept
  <1> DEFINE e == Entry(id)
             o == Observed(e, event)
             f == Completed(o, IF event = "completed" THEN "succeeded" ELSE "failed",
                            "responses_event")
             t == [truth[id] EXCEPT !.heard = @ \cup {event}, !.how = "ended"]
  <1>1. id \in 1..nextId /\ e \in Entries /\ ~e.final /\ Mirrors(e, truth[id])
    BY EntryIs DEF SocketEvent
  <1>2. Follows(o, e, "finished") /\ o \in Entries
    BY <1>1, ObservedFollows DEF Follows
  <1>3. Follows(f, e, "finished") /\ f.final /\ f \in Entries
    BY <1>2, CompletedFollows, FollowsTrans DEF States, Follows
  <1>4. /\ truth[id] \in Records /\ truth[id].how = "none" /\ phase[id] = "body"
        /\ truth[id].kind = "socket"
    BY DEF IInv, RequestsInv, RequestInv, SocketEvent
  <1>5. t \in Records /\ t.how = "ended"
    BY <1>4 DEF Records
  <1>6. f.state = "succeeded" <=> Succeeded(t)
    BY <1>1, <1>4 DEF Completed, Observed, Outcome, Mirrors, Heard, Succeeded, Entries, Records
  <1>7. f.state \in States
    BY <1>3 DEF Entries
  <1>8. truth' = [truth EXCEPT ![id] = t] /\ phase' = [phase EXCEPT ![id] = "over"]
    BY DEF SocketEvent
  <1>9. Update(id, f, "finished") /\ UNCHANGED <<nextId, order>>
    BY DEF SocketEvent
  <1> HIDE DEF f, t
  <1>10. Fits(id, f, "over", t)
    BY <1>3, <1>4, <1>5, <1>6, <1>7, EndFits
  <1> QED
    BY <1>3, <1>4, <1>8, <1>9, <1>10, HandledStep DEF Kept

\* A guard dropped on a request that has its outcome leaves it.
LEMMA DroppedStep ==
  ASSUME IInv, NEW id \in Ids, Dropped(id)
  PROVE  IInv' /\ Kept
  <1> DEFINE e == Entry(id)
             f == Completed(e, "cancelled", "client_disconnect")
             t == [truth[id] EXCEPT !.how = IF @ = "none" THEN "left" ELSE @]
  <1>1. id \in 1..nextId /\ e \in Entries /\ phase[id] \in {"handling", "body", "returning"}
    BY EntryIs DEF Dropped
  <1>2. Follows(f, e, "finished") /\ f.final /\ f \in Entries
    BY <1>1, CompletedFollows DEF States, Follows
  <1>3. truth[id] \in Records /\ RequestInv(id)
    BY DEF IInv, RequestsInv
  <1>4. t \in Records
    BY <1>3 DEF Records
  <1>5. Fits(id, f, "over", t)
    <2>1. CASE phase[id] \in {"handling", "body"}
      <3>1. ~e.final /\ Mirrors(e, truth[id]) /\ truth[id].how = "none"
        BY <1>3, <2>1, EntryIs DEF RequestInv
      <3>2. t.how = "left"
        BY <1>3, <3>1 DEF Records
      <3>3. f.state = "succeeded" <=> Succeeded(t)
        BY <1>1, <1>3, <3>1
        DEF Completed, Outcome, Mirrors, Heard, Succeeded, Entries, Records
      <3>4. f.state \in States
        BY <1>2 DEF Entries
      <3> HIDE DEF f, t
      <3> QED
        BY <1>2, <1>4, <2>1, <3>2, <3>3, <3>4, EndFits
    <2>2. CASE phase[id] = "returning"
      <3>1. saved[id] # "none" /\ truth[id].how # "none"
        BY <1>3, <2>2 DEF RequestInv
      <3>2. t = truth[id]
        BY <1>3, <3>1 DEF Records
      <3> QED
        BY <1>3, <3>1, <3>2 DEF Fits, Phases
    <2> QED
      BY <1>1, <2>1, <2>2
  <1>6. truth' = [truth EXCEPT ![id] = t] /\ phase' = [phase EXCEPT ![id] = "over"]
    BY DEF Dropped, Ends, Goes
  <1>7. Update(id, f, "finished") /\ UNCHANGED <<nextId, order>>
    BY DEF Dropped
  <1> HIDE DEF f, t
  <1> QED
    BY <1>1, <1>2, <1>5, <1>6, <1>7, HandledStep DEF Kept

------------------------------------------------------------------------------
LEMMA InitIInv == Init => IInv
  <1> SUFFICES ASSUME Init PROVE IInv
    OBVIOUS
  <1> USE ConstantsOK DEF Init
  <1>1. OrderInv
    BY EmptySeq DEF OrderInv, Held
  <1>2. DOMAIN entries = {} /\ Window = {}
    BY DEF Window
  <1>3. EntriesInv
    BY <1>2 DEF EntriesInv
  <1>4. RequestsInv
    BY DEF RequestsInv, RequestInv, Unknown, Records, Phases, Ids
  <1> QED
    BY <1>1, <1>3, <1>4 DEF IInv, StoreInv

LEMMA NextIInv ==
  ASSUME IInv, [Next]_vars
  PROVE  IInv' /\ Kept
  <1>1. ASSUME NEW k \in Kinds, Arrives(k) PROVE IInv' /\ Kept
    BY <1>1, ArrivesStep
  <1>2. ASSUME NEW id \in Ids, Unauthorized(id) \/ ResponseType(id) \/ Dropped(id)
        PROVE  IInv' /\ Kept
    BY <1>2, UnauthorizedStep, ResponseTypeStep, DroppedStep
  <1>3. ASSUME NEW id \in Ids, BodyBreaks(id) \/ SocketTimesOut(id) PROVE IInv' /\ Kept
    BY <1>3, FailsStep
  <1>4. ASSUME NEW id \in Ids, NEW status \in {"ok", "error"}, Headers(id, status)
        PROVE  IInv' /\ Kept
    BY <1>4, HeadersStep
  <1>5. ASSUME NEW id \in Ids, NEW to \in {"late", "over"}, BodyEnds(id, to)
        PROVE  IInv' /\ Kept
    BY <1>5, BodyEndsStep
  <1>6. ASSUME NEW id \in Ids, NEW event \in {"none", "completed", "failed"},
               SocketEvent(id, event)
        PROVE  IInv' /\ Kept
    <2>1. event \in {"completed", "failed"}
      BY <1>6 DEF SocketEvent
    <2> QED
      BY <1>6, <2>1, SocketEventStep
  <1>7. ASSUME NEW id \in Ids, NEW event \in {"none", "completed", "failed"},
               NEW usage \in BOOLEAN, Event(id, event, usage)
        PROVE  IInv' /\ Kept
    BY <1>7, EventStep
  <1>8. CASE UNCHANGED vars
    BY <1>8 DEF vars, Kept, IInv, StoreInv, OrderInv, EntriesInv, RequestsInv, RequestInv, Held,
                Window, Succeeded
  <1> QED
    BY <1>1, <1>2, <1>3, <1>4, <1>5, <1>6, <1>7, <1>8 DEF Next

\* The store's part and the requests' part hold together in every reachable state.
THEOREM Inductive == Spec => []IInv
  <1>1. IInv /\ [Next]_vars => IInv'
    BY NextIInv
  <1> QED
    BY <1>1, InitIInv, PTL DEF Spec

\* The variables of the store and of the requests keep their types, and the order names
\* only cached requests.
THEOREM Types == Spec => []TypeOK
  <1>1. IInv => TypeOK
    <2> SUFFICES ASSUME IInv PROVE TypeOK
      OBVIOUS
    <2>1. Range(order) \subseteq DOMAIN entries
      BY RangeIsWindow DEF IInv, StoreInv, EntriesInv
    <2>2. nextId \in 0..MaxRequests /\ Len(order) <= RecentLimit
      BY ConstantsOK DEF IInv, StoreInv, OrderInv, Held
    <2>3. DOMAIN entries \subseteq 1..nextId
      BY DEF IInv, StoreInv, EntriesInv, Window
    <2> QED
      BY <2>1, <2>2, <2>3
      DEF IInv, StoreInv, EntriesInv, RequestsInv, TypeOK, Phases, Records
  <1> QED
    BY <1>1, Inductive, PTL

\* Store::begin and Store::update keep in the cache just the recent requests and those
\* without an outcome.
THEOREM CacheIsExact == Spec => []CacheExact
  <1>1. IInv => CacheExact
    BY RangeIsWindow DEF IInv, StoreInv, EntriesInv, CacheExact
  <1> QED
    BY <1>1, Inductive, PTL

\* When its guard is gone a request has an outcome on file, and it is "succeeded" just
\* when the request succeeded.
THEOREM OutcomesAreHonest == Spec => []OutcomeHonest
  <1>1. IInv => OutcomeHonest
    BY DEF IInv, RequestsInv, RequestInv, OutcomeHonest
  <1> QED
    BY <1>1, Inductive, PTL

\* Store::complete's early return, and the guards around it, keep the first outcome.
THEOREM OutcomesStick == Spec => FinalSticks
  <1>1. IInv /\ [Next]_vars => [\A id \in Ids : saved[id] # "none" => saved'[id] = saved[id]]_vars
    BY NextIInv DEF Kept
  <1> QED
    BY <1>1, Inductive, PTL DEF Spec, FinalSticks
==============================================================================
