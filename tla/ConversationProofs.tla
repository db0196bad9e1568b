-------------------------- MODULE ConversationProofs --------------------------
(* A failure commits nothing, whatever the requests, the native events and   *)
(* the number of turns.  The invariant says of a stream that has not ended   *)
(* what the converter and the facades have told on it; the lemmas follow     *)
(* each function of the converter over all its lists.  The provers take no   *)
(* operators for parameters: the steps that the model folds over a list are  *)
(* one operator by name, Step, and Good says what each of them keeps.        *)
EXTENDS ConversationProps, WellFoundedInduction, TLAPS

IsList(x) == Len(x) \in Nat /\ DOMAIN x = 1..Len(x)

Terminals == {"completed", "incomplete", "failed"}

Step(op, a, t, x) ==
  CASE op = "part" -> FeedPart(t, x, a)
    [] op = "held" -> FeedHeld(t, x, a)
    [] op = "live" -> IF Live(x) THEN Append(t, x) ELSE t
    [] op = "late" -> IF ~Live(x) THEN Append(t, x) ELSE t
    [] op = "items" -> LET item == OutputItem(x, Len(t) + 1, a)
                       IN IF item = Nothing THEN t ELSE Append(t, item)
    [] op = "ending" -> IF x \in a.done THEN ItemDone(t, a.output, x) ELSE t
    [] op = "whole" -> IF t.ok THEN ChatItem(t, x - 1, a.output[x], TRUE, a.x) ELSE t
    [] op = "chunk" -> PassChunk(t, x)
    [] op = "event" -> PassEvent(t, x)
    [] op = "native" -> NativePart(t, x, a)
    [] op = "nheld" -> NativeHeld(t, x, a)
    [] op = "sign" -> Signs(t, x, a)
    [] op = "block" -> IF a.blocks[x].kind = "thinking" THEN Append(t, x) ELSE t
    [] op = "search" -> IF x.type = "server_search" THEN Append(t, x) ELSE t
    [] op = "told" -> IF x.type \notin Terminals /\ (a.first \/ x.type # "created")
                      THEN Append(t, x) ELSE t
    [] op = "done" -> IF x.type = "item_done" THEN Append(t, x) ELSE t
    [] OTHER -> t

Folds(F, op, a, base, seq) ==
  F = [S \in SUBSET (DOMAIN seq) |->
         IF S = {} THEN base ELSE Step(op, a, F[S \ {Max(S)}], seq[Max(S)])]

\* Every set of numbers has a least one.
LEMMA Least ==
  ASSUME NEW S \in SUBSET Nat, S # {}
  PROVE  \E n \in S : \A k \in S : n <= k
  <1>1. PICK n \in S : \A k \in S : ~(<<k, n>> \in OpToRel(<, Nat))
    BY NatLessThanWellFounded, WFMin
  <1>2. \A k \in S : ~(k < n)
    BY <1>1 DEF OpToRel
  <1> QED
    BY <1>2

\* Induction, over sets instead of operators.
LEMMA Induction ==
  ASSUME NEW S, 0 \in S, \A n \in Nat : n \in S => n + 1 \in S
  PROVE  Nat \subseteq S
  <1> DEFINE T == Nat \ S
  <1> SUFFICES ASSUME T # {} PROVE FALSE
    OBVIOUS
  <1>1. PICK n \in T : \A k \in T : n <= k
    BY Least
  <1>2. n - 1 \in Nat /\ n - 1 \notin T
    BY <1>1
  <1> QED
    BY <1>1, <1>2

\* Max of a finite set of numbers is its greatest.
LEMMA Greatest ==
  ASSUME NEW n \in Nat, NEW S \in SUBSET (1..n), S # {}
  PROVE  Max(S) \in S /\ \A k \in S : k <= Max(S)
  <1> DEFINE Has == {m \in Nat : \A R \in SUBSET (1..m) : R # {} => \E x \in R : \A y \in R : x >= y}
  <1>1. 0 \in Has
    <2>1. 1..0 = {}
      OBVIOUS
    <2> QED
      BY <2>1
  <1>2. ASSUME NEW m \in Nat, m \in Has PROVE m + 1 \in Has
    <2> SUFFICES ASSUME NEW R \in SUBSET (1..m + 1), R # {}
                 PROVE  \E x \in R : \A y \in R : x >= y
      OBVIOUS
    <2>1. CASE m + 1 \in R
      BY <2>1
    <2>2. CASE m + 1 \notin R
      <3>1. R \in SUBSET (1..m)
        BY <2>2
      <3> QED
        BY <1>2, <3>1
    <2> QED
      BY <2>1, <2>2
  <1>3. n \in Has
    <2> HIDE DEF Has
    <2> QED
      BY <1>1, <1>2, Induction
  <1>4. \E x \in S : \A y \in S : x >= y
    BY <1>3
  <1> QED
    BY <1>4 DEF Max

\* Every step can be folded over every list.
LEMMA FoldExists ==
  ASSUME NEW op, NEW a, NEW base, NEW seq, IsList(seq)
  PROVE  \E F : Folds(F, op, a, base, seq)
  <1> DEFINE Upto(F, n) ==
               F = [S \in SUBSET (1..n) |->
                      IF S = {} THEN base ELSE Step(op, a, F[S \ {Max(S)}], seq[Max(S)])]
             Has == {n \in Nat : \E F : Upto(F, n)}
  <1>1. 0 \in Has
    <2> DEFINE F == [S \in SUBSET (1..0) |-> base]
    <2>1. Upto(F, 0)
      BY SMTT(30)
    <2> QED
      BY <2>1
  <1>2. ASSUME NEW n \in Nat, n \in Has PROVE n + 1 \in Has
    <2>1. PICK F : Upto(F, n)
      BY <1>2
    <2> DEFINE G == [S \in SUBSET (1..n + 1) |->
                       IF n + 1 \in S THEN Step(op, a, F[S \ {n + 1}], seq[n + 1]) ELSE F[S]]
    <2>2. ASSUME NEW S \in SUBSET (1..n + 1)
          PROVE  G[S] = IF S = {} THEN base ELSE Step(op, a, G[S \ {Max(S)}], seq[Max(S)])
      <3>1. CASE S = {}
        BY <2>1, <3>1
      <3>2. CASE n + 1 \in S
        <4>1. Max(S) = n + 1
          <5>1. n + 1 \in Nat /\ S # {}
            BY <3>2
          <5>2. Max(S) \in S /\ n + 1 <= Max(S)
            BY <3>2, <5>1, Greatest
          <5>3. Max(S) \in 1..n + 1
            BY <5>2
          <5> HIDE DEF G
          <5> QED
            BY <5>2, <5>3
        <4>2. S \ {n + 1} \in SUBSET (1..n + 1) /\ n + 1 \notin S \ {n + 1}
          OBVIOUS
        <4>3. G[S \ {n + 1}] = F[S \ {n + 1}]
          BY <4>2
        <4>4. G[S] = Step(op, a, F[S \ {n + 1}], seq[n + 1]) /\ S # {}
          BY <3>2
        <4> QED
          BY <4>1, <4>3, <4>4
      <3>3. CASE n + 1 \notin S /\ S # {}
        <4>1. S \in SUBSET (1..n)
          BY <3>3
        <4>2. Max(S) \in S
          BY <3>3, <4>1, Greatest
        <4>3. F[S] = Step(op, a, F[S \ {Max(S)}], seq[Max(S)])
          BY <2>1, <3>3, <4>1
        <4>4. S \ {Max(S)} \in SUBSET (1..n + 1) /\ n + 1 \notin S \ {Max(S)}
          BY <3>3
        <4>5. G[S \ {Max(S)}] = F[S \ {Max(S)}] /\ G[S] = F[S]
          BY <3>3, <4>4
        <4> QED
          BY <3>3, <4>3, <4>5
      <3> QED
        BY <3>1, <3>2, <3>3
    <2>3. Upto(G, n + 1)
      <3>1. G = [S \in SUBSET (1..n + 1) |-> G[S]]
        OBVIOUS
      <3> HIDE DEF G
      <3> QED
        BY <2>2, <3>1, Zenon
    <2>4. \E F1 : Upto(F1, n + 1)
      <3> WITNESS G
      <3> QED
        BY <2>3
    <2> QED
      BY <2>4
  <1>3. Len(seq) \in Has
    <2> HIDE DEF Has
    <2> QED
      BY <1>1, <1>2, Induction DEF IsList
  <1> QED
    BY <1>3 DEF Folds, IsList

EventFields == {"type", "index", "seq", "delta", "item", "output", "usage"}
IsEvent(e) == DOMAIN e = EventFields /\ IsList(e.output)
Feeding == {"created", "added", "text_done", "summary_delta", "delta", "args_delta"}

FreshFields == {"parts", "finish", "blocked", "usage", "started", "ended", "ok", "count",
  "active", "done", "calls", "summary", "sequence", "wire", "deferred", "events", "attempts",
  "spent"}

IsQueue(pc) == DOMAIN pc = {"queue", "active", "serial"} /\ \E S : pc.queue \in Seq(S)

EventsIn(es, types) == IsList(es) /\ \A i \in DOMAIN es : IsEvent(es[i]) /\ es[i].type \in types

Conv(t) ==
  /\ DOMAIN t = FreshFields
  /\ t.ok \in BOOLEAN /\ t.ended \in BOOLEAN /\ (t.ok => ~t.ended) /\ (~t.ok => t.ended)
  /\ IsList(t.parts) /\ t.count \in Nat
  /\ IsQueue(t.calls)
  /\ EventsIn(t.events, Feeding) /\ EventsIn(t.deferred, Feeding)

Midway == Feeding \union {"summary_done", "args_done", "item_done"}
Ending(t) ==
  DOMAIN t = FreshFields /\ EventsIn(t.events, Midway)

\* The chat stream: until it has ended, it tells nothing that ends it.
ChatFields == {"started", "ended", "ok", "chunks", "texts", "tools", "sealed"}
PlainChunks == {"role", "text", "tool", "args", "reasoning", "details"}
Reasons == {"stop", "tool_calls", "length"}
Chunks(cs, kinds) ==
  IsList(cs) /\ \A k \in DOMAIN cs : /\ cs[k].kind \in kinds
                                     /\ cs[k].kind = "finish" => cs[k].tool \in Reasons
ChatGoes(c) == DOMAIN c = ChatFields /\ c.ended = FALSE /\ Chunks(c.chunks, PlainChunks)

\* A wire that is another one with the first n of es after it.
Extended(wire, before, es, n) ==
  /\ IsList(wire) /\ Len(wire) = Len(before) + n
  /\ \A k \in DOMAIN before : wire[k] = before[k]
  /\ \A k \in 1..n : wire[Len(before) + k] = es[k]

\* The wire of the facades, by what has been told on it.
Typed(es, types) == IsList(es) /\ \A k \in DOMAIN es : es[k].type \in types
PlainEvents == {"start", "block", "delta"}
StopReasons == {"end_turn", "tool_use", "max_tokens"}
Committed(wire) ==
  /\ IsList(wire) /\ \A k \in DOMAIN wire : wire[k].type # "error"
  /\ \A k \in DOMAIN wire : wire[k].type = "message_delta" => wire[k].reason # "failed"

OutFields == {"chat", "messages", "wire"}
ChatState(c) == DOMAIN c = ChatFields /\ c.ended \in BOOLEAN
MessageFields == {"started", "ended", "blocks", "events", "thinking", "text", "tools", "thought",
                  "details", "finish", "usage"}
MessageState(m) ==
  /\ DOMAIN m = MessageFields /\ m.ended \in BOOLEAN /\ IsList(m.blocks)
  /\ m.finish \in {"none"} \union StopReasons

ChatFine(o) ==
  \/ ~o.chat.ended /\ Chunks(o.wire, PlainChunks)
  \/ o.chat.ended /\ Chunks(o.wire, PlainChunks \union {"error"})
  \/ o.chat.ended /\ Chunks(o.wire, PlainChunks \union {"finish", "usage"})

MessagesGo(o) ==
  /\ MessageState(o.messages)
  /\ \/ ~o.messages.ended /\ Typed(o.wire, PlainEvents)
     \/ o.messages.ended /\ Typed(o.wire, PlainEvents \union {"error"})

OutState(o) == DOMAIN o = OutFields /\ ChatState(o.chat)

\* Chunks on their way: a has the wire before them and the chat state after them.
Passing(a, n, o) ==
  /\ DOMAIN o = OutFields /\ o.chat = a.chat
  /\ IF P.shape = "chat" THEN Extended(o.wire, a.wire, a.chat.chunks, n) ELSE MessagesGo(o)

Telling(a, n, o) ==
  /\ OutState(o)
  /\ CASE P.shape = "responses" -> Extended(o.wire, a.wire, a.events, n)
       [] P.shape = "chat" -> ChatFine(o)
       [] OTHER -> MessagesGo(o)

\* Messages straight onto Gemini.
NativeFields == {"started", "ended", "ok", "blocks", "events", "parts", "calls", "active",
                 "finish", "usage"}
NativeGoes(t) ==
  /\ DOMAIN t = NativeFields /\ t.ended = FALSE /\ IsList(t.blocks)
  /\ Typed(t.events, PlainEvents) /\ IsQueue(t.calls)
Signing(t) ==
  DOMAIN t = NativeFields /\ IsList(t.blocks) /\ Typed(t.events, {"block", "signature"})

\* What has been selected from the first n of es, and the last item done among them.
From(t, es, n) ==
  IsList(t) /\ \A k \in DOMAIN t : t[k].type \notin Terminals /\ \E j \in 1..n : t[k] = es[j]
Lasts(t, es, n) ==
  /\ IsList(t)
  /\ Len(t) = 0 => \A j \in 1..n : es[j].type # "item_done"
  /\ Len(t) > 0 => \E j \in 1..n : /\ t[Len(t)] = es[j] /\ es[j].type = "item_done"
                                   /\ \A k \in j + 1..n : es[k].type # "item_done"

Good(op, a, i, t) ==
  CASE op \in {"part", "held"} -> Conv(t)
    [] op = "live" -> EventsIn(t, Feeding) /\ \A k \in DOMAIN t : Live(t[k])
    [] op = "late" -> EventsIn(t, Feeding)
    [] op = "items" -> IsList(t)
    [] op = "ending" -> Ending(t)
    [] op = "whole" -> ChatGoes(t)
    [] op = "chunk" -> Passing(a, i, t)
    [] op = "event" -> Telling(a, i, t)
    [] op \in {"native", "nheld"} -> NativeGoes(t)
    [] op = "sign" -> Signing(t)
    [] op \in {"block", "search"} -> IsList(t)
    [] op = "told" -> From(t, a.events, i)
    [] op = "done" -> Lasts(t, a, i)
    [] OTHER -> TRUE

\* What each step keeps, the fold keeps.
LEMMA FoldGood ==
  ASSUME NEW op, NEW a, NEW base, NEW seq, IsList(seq), NEW F, Folds(F, op, a, base, seq),
         Good(op, a, 0, base),
         \A i \in 1..Len(seq) : \A t : Good(op, a, i - 1, t) => Good(op, a, i, Step(op, a, t, seq[i]))
  PROVE  Good(op, a, Len(seq), F[DOMAIN seq])
  <1> DEFINE Has == {n \in Nat : n <= Len(seq) => Good(op, a, n, F[1..n])}
  <1>1. 0 \in Has
    <2>1. 1..0 = {} /\ {} \in SUBSET (DOMAIN seq)
      OBVIOUS
    <2>2. F[{}] = base
      BY <2>1 DEF Folds
    <2> QED
      BY <2>1, <2>2
  <1>2. ASSUME NEW n \in Nat, n \in Has PROVE n + 1 \in Has
    <2> SUFFICES ASSUME n + 1 <= Len(seq) PROVE Good(op, a, n + 1, F[1..n + 1])
      OBVIOUS
    <2>1. n + 1 \in 1..Len(seq) /\ Len(seq) \in Nat /\ n + 1 \in Nat
      BY DEF IsList
    <2>2. 1..n + 1 \in SUBSET (1..n + 1) /\ 1..n + 1 # {} /\ 1..n + 1 \in SUBSET (DOMAIN seq)
      BY <2>1 DEF IsList
    <2>3. Max(1..n + 1) \in 1..n + 1 /\ \A k \in 1..n + 1 : k <= Max(1..n + 1)
      BY <2>1, <2>2, Greatest
    <2>4. Max(1..n + 1) = n + 1
      BY <2>3
    <2>5. (1..n + 1) \ {n + 1} = 1..n
      OBVIOUS
    <2>6. F[1..n + 1] = Step(op, a, F[1..n], seq[n + 1])
      BY <2>2, <2>4, <2>5 DEF Folds
    <2>7. Good(op, a, n, F[1..n]) /\ n = (n + 1) - 1
      BY <1>2, <2>1
    <2> QED
      BY <2>1, <2>6, <2>7
  <1>3. Len(seq) \in Has /\ Len(seq) \in Nat
    <2> HIDE DEF Has
    <2> QED
      BY <1>1, <1>2, Induction DEF IsList
  <1> QED
    BY <1>3 DEF IsList

\* FeedDrained is such a fold.
LEMMA PartsFold ==
  ASSUME NEW t, NEW held, NEW req, IsList(held.parts)
  PROVE  \E F : /\ Folds(F, "part", req, [t EXCEPT !.calls = held.calls], held.parts)
                /\ FeedDrained(t, held, req) = IF ~held.ok THEN Bad(t) ELSE F[DOMAIN held.parts]
  <1> DEFINE base == [t EXCEPT !.calls = held.calls]
             Is(F) == F = [S \in SUBSET (DOMAIN held.parts) |->
                             IF S = {} THEN base
                             ELSE FeedPart(F[S \ {Max(S)}], held.parts[Max(S)], req)]
             G == CHOOSE F : Is(F)
  <1>1. FeedDrained(t, held, req) = IF ~held.ok THEN Bad(t) ELSE G[DOMAIN held.parts]
    BY Zenon DEF FeedDrained, FoldLeft, MapThenFoldSet
  <1>2. PICK F : Folds(F, "part", req, base, held.parts)
    BY FoldExists
  <1>3. \A u, x : Step("part", req, u, x) = FeedPart(u, x, req)
    BY DEF Step
  <1>4. Is(F)
    BY <1>2, <1>3, Zenon DEF Folds
  <1>5. Is(G)
    BY <1>4, Zenon
  <1>6. Folds(G, "part", req, base, held.parts)
    BY <1>3, <1>5, Zenon DEF Folds
  <1> QED
    BY <1>1, <1>6

\* The events that the converter builds.
LEMMA EventsAre ==
  ASSUME NEW type, NEW index, NEW x
  PROVE  /\ IsEvent(Event(type, index)) /\ Event(type, index).type = type
         /\ IsEvent(Delta(type, index, x)) /\ Delta(type, index, x).type = type
         /\ IsEvent(Done(type, index, x)) /\ Done(type, index, x).type = type
         /\ Done(type, index, x).item = x
  BY DEF IsEvent, EventFields, Event, Delta, Done, IsList

LEMMA TerminalIs ==
  ASSUME NEW type, NEW output, NEW usage, IsList(output)
  PROVE  IsEvent(Terminal(type, output, usage)) /\ Terminal(type, output, usage).type = type
  BY DEF IsEvent, EventFields, Event, Terminal, IsList

\* Lists, appended to and joined.
LEMMA AppendList ==
  ASSUME NEW es, IsList(es), NEW e
  PROVE  /\ IsList(Append(es, e)) /\ Len(Append(es, e)) = Len(es) + 1
         /\ Append(es, e)[Len(es) + 1] = e
         /\ \A i \in DOMAIN es : Append(es, e)[i] = es[i]
  BY DEF IsList

LEMMA JoinList ==
  ASSUME NEW es, NEW fs, IsList(es), IsList(fs)
  PROVE  /\ IsList(es \o fs) /\ Len(es \o fs) = Len(es) + Len(fs)
         /\ \A i \in DOMAIN es : (es \o fs)[i] = es[i]
         /\ \A i \in DOMAIN fs : (es \o fs)[Len(es) + i] = fs[i]
         /\ \A i \in DOMAIN (es \o fs) : i \notin DOMAIN es => i - Len(es) \in DOMAIN fs
  BY DEF IsList

\* A number changes nothing else of an event.
LEMMA Numbering ==
  ASSUME NEW e, IsEvent(e), NEW n
  PROVE  /\ IsEvent([e EXCEPT !.seq = n]) /\ [e EXCEPT !.seq = n].type = e.type
         /\ [e EXCEPT !.seq = n].item = e.item
         /\ [e EXCEPT !.seq = n].output = e.output
  BY DEF IsEvent, EventFields

LEMMA AppendEvents ==
  ASSUME NEW types, NEW es, EventsIn(es, types), NEW e, IsEvent(e), e.type \in types
  PROVE  EventsIn(Append(es, e), types)
  <1>1. IsList(es)
    BY DEF EventsIn
  <1>2. ASSUME NEW i \in DOMAIN Append(es, e)
        PROVE  IsEvent(Append(es, e)[i]) /\ Append(es, e)[i].type \in types
    <2>1. i \in DOMAIN es \/ i = Len(es) + 1
      BY <1>1, AppendList DEF IsList
    <2> QED
      BY <1>1, <2>1, AppendList DEF EventsIn
  <1> QED
    BY <1>1, <1>2, AppendList DEF EventsIn

LEMMA JoinEvents ==
  ASSUME NEW types, NEW es, NEW fs, EventsIn(es, types), EventsIn(fs, types)
  PROVE  EventsIn(es \o fs, types)
  <1>1. IsList(es) /\ IsList(fs)
    BY DEF EventsIn
  <1>2. ASSUME NEW i \in DOMAIN (es \o fs)
        PROVE  IsEvent((es \o fs)[i]) /\ (es \o fs)[i].type \in types
    <2>1. CASE i \in DOMAIN es
      BY <1>1, <2>1, JoinList DEF EventsIn
    <2>2. CASE i \notin DOMAIN es
      <3>1. i - Len(es) \in DOMAIN fs
        BY <1>1, <2>2, JoinList
      <3>2. \A k \in DOMAIN fs : (es \o fs)[Len(es) + k] = fs[k]
        BY <1>1, JoinList
      <3>3. Len(es) + (i - Len(es)) = i
        BY <1>1, JoinList DEF IsList
      <3> QED
        BY <3>1, <3>2, <3>3 DEF EventsIn
    <2> QED
      BY <2>1, <2>2
  <1> QED
    BY <1>1, <1>2, JoinList DEF EventsIn

\* Emit adds an event.
LEMMA EmitIs ==
  ASSUME NEW t, DOMAIN t = FreshFields, NEW e
  PROVE  /\ DOMAIN Emit(t, e) = FreshFields
         /\ Emit(t, e).events = Append(t.events, [e EXCEPT !.seq = t.sequence])
         /\ Emit(t, e).ok = t.ok /\ Emit(t, e).ended = t.ended /\ Emit(t, e).parts = t.parts
         /\ Emit(t, e).count = t.count /\ Emit(t, e).calls = t.calls
         /\ Emit(t, e).deferred = t.deferred /\ Emit(t, e).active = t.active
  BY DEF Emit, FreshFields

LEMMA EmitKeeps ==
  ASSUME NEW t, Conv(t), NEW e, IsEvent(e), e.type \in Feeding
  PROVE  Conv(Emit(t, e))
  <1>1. DOMAIN t = FreshFields /\ EventsIn(t.events, Feeding)
    BY DEF Conv
  <1> DEFINE numbered == [e EXCEPT !.seq = t.sequence]
  <1>2. IsEvent(numbered) /\ numbered.type \in Feeding
    BY Numbering
  <1>3. EventsIn(Append(t.events, numbered), Feeding)
    <2> HIDE DEF numbered
    <2> QED
      BY <1>1, <1>2, AppendEvents
  <1>4. EventsIn(Emit(t, e).events, Feeding)
    BY <1>1, <1>3, EmitIs, ZenonT(30)
  <1> QED
    BY <1>1, <1>4, EmitIs DEF Conv

\* A refusal is a state of the converter that has ended.
LEMMA BadKeeps ==
  ASSUME NEW t, Conv(t)
  PROVE  Conv(Bad(t)) /\ ~Bad(t).ok
  BY DEF Bad, Conv, FreshFields, EventsIn, IsList

\* What the next lemmas change of a converter leaves it one.
LEMMA SetParts ==
  ASSUME NEW t, Conv(t), NEW parts, IsList(parts)
  PROVE  Conv([t EXCEPT !.parts = parts])
  BY DEF Conv, FreshFields

LEMMA SetActive ==
  ASSUME NEW t, Conv(t), NEW n \in Nat, NEW x, NEW y
  PROVE  /\ Conv([t EXCEPT !.count = n, !.active = x])
         /\ Conv([t EXCEPT !.active = x, !.done = y])
         /\ Conv([t EXCEPT !.count = n, !.done = y])
         /\ Conv([t EXCEPT !.summary = x])
  BY DEF Conv, FreshFields

\* The parts of a native event, kind by kind.
LEMMA CloseKeeps ==
  ASSUME NEW t, Conv(t), NEW req
  PROVE  Conv(CloseActive(t, req)) /\ CloseActive(t, req).parts = t.parts
  <1> DEFINE e == Delta("text_done", t.active[1], t.parts[t.active[2]].text)
  <1>1. IsEvent(e) /\ e.type \in Feeding
    BY EventsAre DEF Feeding
  <1>2. Conv(Emit(t, e)) /\ Emit(t, e).parts = t.parts
    <2> HIDE DEF e
    <2> QED
      BY <1>1, EmitKeeps, EmitIs, ZenonT(30) DEF Conv
  <1>3. Conv([Emit(t, e) EXCEPT !.active = <<0, 0>>, !.done = @ \union {t.active[1]}])
    <2> HIDE DEF e
    <2> QED
      BY <1>2, SetActive
  <1> QED
    BY <1>2, <1>3 DEF CloseActive, Conv, FreshFields

LEMMA ThinksKeeps ==
  ASSUME NEW t, Conv(t), NEW p
  PROVE  Conv(Thinks(t, p))
  <1>1. Conv([t EXCEPT !.summary = @ \o p.text])
    BY SetActive
  <1> QED
    BY <1>1, EmitKeeps, EventsAre DEF Thinks, Feeding

LEMMA WritesKeeps ==
  ASSUME NEW t, Conv(t), NEW p, NEW merge \in BOOLEAN
  PROVE  Conv(Writes(t, p, merge))
  <1>1. t.count + 1 \in Nat
    BY DEF Conv
  <1> DEFINE index == IF ~merge \/ t.active[1] = 0 THEN t.count + 1 ELSE t.active[1]
             opened == IF ~merge \/ t.active[1] = 0
                       THEN [Emit(t, Event("added", index)) EXCEPT
                               !.count = index, !.active = <<index, Len(t.parts)>>]
                       ELSE t
  <1>2. Conv(Emit(t, Event("added", index)))
    BY EmitKeeps, EventsAre DEF Feeding
  <1>3. Conv(opened)
    BY <1>1, <1>2, SetActive
  <1>4. Conv(Emit(opened, Delta("delta", index, p.text)))
    <2> HIDE DEF opened
    <2> QED
      BY <1>3, EmitKeeps, EventsAre DEF Feeding
  <1>5. Writes(t, p, merge) = IF p.text = <<>> THEN t
                              ELSE Emit(opened, Delta("delta", index, p.text))
    BY Zenon DEF Writes
  <1> HIDE DEF opened, index
  <1> QED
    BY <1>4, <1>5

LEMMA ShowsKeeps ==
  ASSUME NEW t, Conv(t), NEW req
  PROVE  Conv(Shows(t, req))
  <1> DEFINE index == t.count + 1
             item == OutputItem(Last(t.parts), index, req)
             shown == Emit(t, Done("added", index, item))
             whole == CASE item.type = "message" ->
                             Emit(Emit(shown, Delta("delta", index, item.text)),
                                  Delta("text_done", index, item.text))
                        [] item.type = "call" -> Emit(shown, Delta("args_delta", index, item.text))
                        [] OTHER -> shown
  <1>1. index \in Nat
    BY DEF Conv
  <1> HIDE DEF index, item
  <1>2. Conv(shown)
    BY EmitKeeps, EventsAre DEF Feeding
  <1>3. Conv(whole)
    <2> HIDE DEF shown
    <2> QED
      BY <1>2, EmitKeeps, EventsAre DEF Feeding
  <1>4. Conv([whole EXCEPT !.count = index, !.done = @ \union {index}])
    <2> HIDE DEF whole
    <2> QED
      BY <1>1, <1>3, SetActive
  <1>5. Conv(Bad(t))
    BY BadKeeps
  <1>6. Shows(t, req) = IF item.type \in {"nothing", "broken"} THEN Bad(t)
                        ELSE [whole EXCEPT !.count = index, !.done = @ \union {index}]
    BY Zenon DEF Shows, index, item
  <1> HIDE DEF whole
  <1> QED
    BY <1>4, <1>5, <1>6

LEMMA PartKeeps ==
  ASSUME NEW t, Conv(t), NEW p, NEW req
  PROVE  Conv(FeedPart(t, p, req))
  <1> DEFINE at == Len(t.parts)
             merge == /\ p.kind = "text" /\ at > 0
                      /\ t.parts[at].kind = "text" /\ t.parts[at].thought = p.thought
                      /\ t.parts[at].sig = "none"
             closed == IF p.thought \/ merge \/ p.kind = "mark" THEN t ELSE CloseActive(t, req)
             kept == CASE p.kind = "mark" -> [closed EXCEPT !.parts[at].sig = p.sig]
                       [] merge -> [closed EXCEPT !.parts[at].text = @ \o p.text,
                                                  !.parts[at].sig = p.sig]
                       [] OTHER -> [closed EXCEPT !.parts = Append(@, p)]
  <1>1. Conv(closed) /\ IsList(closed.parts)
    BY CloseKeeps DEF Conv
  <1>2. Conv(kept)
    <2> HIDE DEF closed, merge
    <2>1. Conv([closed EXCEPT !.parts[at].sig = p.sig])
      <3>1. IsList([closed.parts EXCEPT ![at].sig = p.sig])
        BY <1>1 DEF IsList
      <3> QED
        BY <1>1, <3>1, SetParts
    <2>2. Conv([closed EXCEPT !.parts[at].text = @ \o p.text, !.parts[at].sig = p.sig])
      <3>1. IsList([closed.parts EXCEPT ![at].text = @ \o p.text, ![at].sig = p.sig])
        BY <1>1 DEF IsList
      <3> QED
        BY <1>1, <3>1, SetParts
    <2>3. Conv([closed EXCEPT !.parts = Append(@, p)])
      BY <1>1, AppendList, SetParts
    <2> QED
      BY <2>1, <2>2, <2>3
  <1>3. FeedPart(t, p, req) \in {t, Bad(t), kept, Thinks(kept, p), Writes(kept, p, merge),
                                 Shows(kept, req)}
    BY DEF FeedPart
  <1>4. merge \in BOOLEAN
    OBVIOUS
  <1> HIDE DEF kept, merge
  <1> QED
    BY <1>2, <1>3, <1>4, BadKeeps, ThinksKeeps, WritesKeeps, ShowsKeeps

\* Min of a finite set of numbers is its least.
LEMMA First ==
  ASSUME NEW n \in Nat, NEW S \in SUBSET (1..n), S # {}
  PROVE  Min(S) \in S /\ \A k \in S : Min(S) <= k
  <1>1. \E x \in S : \A y \in S : x <= y
    BY Least
  <1> QED
    BY <1>1 DEF Min

\* The queue of parts that wait for a call to be whole.
LEMMA DrainedKeeps ==
  ASSUME NEW pc, IsQueue(pc)
  PROVE  IsList(Drained(pc).parts) /\ IsQueue(Drained(pc).calls)
  <1> DEFINE first == SelectInSeq(pc.queue, LAMBDA slot : slot.part = Waiting)
             n == IF first = 0 THEN Len(pc.queue) ELSE first - 1
  <1>1. PICK S : pc.queue \in Seq(S)
    BY DEF IsQueue
  <1>2. first \in Nat
    <2> DEFINE I == {i \in 1..Len(pc.queue) : pc.queue[i].part = Waiting}
    <2>1. Len(pc.queue) \in Nat /\ I \in SUBSET (1..Len(pc.queue))
      BY <1>1
    <2>2. first = IF I # {} THEN Min(I) ELSE 0
      BY Zenon DEF SelectInSeq
    <2> HIDE DEF I, first
    <2>3. I # {} => Min(I) \in 1..Len(pc.queue)
      BY <2>1, First
    <2> QED
      BY <2>1, <2>2, <2>3
  <1>3. n \in Nat
    <2> HIDE DEF first
    <2> QED
      BY <1>1, <1>2
  <1>4. SubSeq(pc.queue, n + 1, Len(pc.queue)) \in Seq(S)
    <2> HIDE DEF n
    <2> QED
      BY <1>1, <1>3
  <1>5. IsList([i \in 1..n |-> pc.queue[i].part])
    <2> HIDE DEF n
    <2> QED
      BY <1>3 DEF IsList
  <1> DEFINE calls == [pc EXCEPT !.queue = SubSeq(@, n + 1, Len(@))]
  <1>6. Drained(pc) = [ok |-> TRUE, parts |-> [i \in 1..n |-> pc.queue[i].part], calls |-> calls]
    BY Zenon DEF Drained
  <1> HIDE DEF n
  <1>7. calls.queue = SubSeq(pc.queue, n + 1, Len(pc.queue))
    BY DEF IsQueue
  <1>8. DOMAIN calls = {"queue", "active", "serial"}
    BY DEF IsQueue
  <1>9. IsQueue(calls)
    <2> HIDE DEF calls
    <2> QED
      BY <1>4, <1>7, <1>8 DEF IsQueue
  <1> HIDE DEF calls
  <1> QED
    BY <1>5, <1>6, <1>9

LEMMA SetQueue ==
  ASSUME NEW pc, IsQueue(pc), NEW x, NEW y
  PROVE  /\ IsQueue([pc EXCEPT !.queue = Append(@, y)])
         /\ IsQueue([pc EXCEPT !.active = x])
         /\ \A S, f : f \in Seq(S) => IsQueue([pc EXCEPT !.active = x, !.queue = f])
         /\ IsList(pc.queue)
  <1>1. PICK S : pc.queue \in Seq(S)
    BY DEF IsQueue
  <1>2. DOMAIN pc = {"queue", "active", "serial"}
    BY DEF IsQueue
  <1>3. IsQueue([pc EXCEPT !.queue = Append(@, y)])
    <2>1. Append(pc.queue, y) \in Seq(S \union {y})
      BY <1>1
    <2> QED
      BY <1>2, <2>1 DEF IsQueue
  <1>4. IsQueue([pc EXCEPT !.active = x])
    BY <1>1, <1>2 DEF IsQueue
  <1>5. ASSUME NEW T, NEW f \in Seq(T) PROVE IsQueue([pc EXCEPT !.active = x, !.queue = f])
    <2>1. [pc EXCEPT !.active = x, !.queue = f].queue = f
      BY <1>2
    <2>2. DOMAIN [pc EXCEPT !.active = x, !.queue = f] = DOMAIN pc
      OBVIOUS
    <2> QED
      BY <1>2, <2>1, <2>2 DEF IsQueue
  <1>6. IsList(pc.queue)
    BY <1>1 DEF IsList
  <1> QED
    BY <1>3, <1>4, <1>5, <1>6

LEMMA HeldKeeps ==
  ASSUME NEW pc, IsQueue(pc), NEW p
  PROVE  IsList(Held(pc, p).parts) /\ IsQueue(Held(pc, p).calls)
  <1> DEFINE known == p.id # NoId /\ \E i \in DOMAIN pc.active : pc.active[i].part.id = p.id
             opened == Opened(pc, p)
             at == IF p.id = NoId THEN Len(opened.active)
                   ELSE SelectInSeq(opened.active, LAMBDA a : a.part.id = p.id)
             before == opened.active[at].part
             grown == [before EXCEPT !.text = @ \o p.text,
                                     !.sig = IF p.sig = "none" THEN @ ELSE p.sig]
             signed == before.sig # "none" /\ p.sig \notin {"none", before.sig}
             kept == RemoveAt(opened.active, at)
             queue == [i \in DOMAIN opened.queue |->
                         IF opened.queue[i].serial = opened.active[at].serial
                         THEN [opened.queue[i] EXCEPT !.part = grown] ELSE opened.queue[i]]
             filled == [opened EXCEPT !.active = kept, !.queue = queue]
             longer == [pc EXCEPT !.queue = Append(@, [serial |-> 0, part |-> p])]
             continued == [opened EXCEPT !.active[at].part = grown]
  <1>1. IsQueue(opened)
    <2>1. PICK S : pc.queue \in Seq(S)
      BY DEF IsQueue
    <2> DEFINE slot == [serial |-> pc.serial + 1, part |-> Waiting]
    <2>2. Append(pc.queue, slot) \in Seq(S \union {slot})
      BY <2>1
    <2> QED
      BY <2>2 DEF Opened, IsQueue
  <1>2. IsQueue(longer)
    BY SetQueue
  <1>3. IsQueue(filled)
    <2>1. IsList(opened.queue)
      BY <1>1, SetQueue
    <2>2. queue \in Seq({queue[i] : i \in DOMAIN queue})
      <3> DEFINE change(x) == IF x.serial = opened.active[at].serial
                              THEN [x EXCEPT !.part = grown] ELSE x
      <3>1. queue = [i \in DOMAIN opened.queue |-> change(opened.queue[i])]
        OBVIOUS
      <3>2. DOMAIN queue = 1..Len(opened.queue) /\ Len(opened.queue) \in Nat
        BY <2>1 DEF IsList
      <3> HIDE DEF change, queue
      <3> QED
        BY <3>1, <3>2
    <2> HIDE DEF opened, kept, queue
    <2> QED
      BY <1>1, <2>2, SetQueue
  <1>4. IsQueue(continued)
    <2> HIDE DEF opened, grown, at
    <2>1. [opened EXCEPT !.active[at].part = grown]
            = [opened EXCEPT !.active = [opened.active EXCEPT ![at].part = grown]]
      BY <1>1 DEF IsQueue
    <2> QED
      BY <1>1, <2>1, SetQueue
  <1>5. Held(pc, p) \in {Drained(longer), Refuses(pc), Drained(filled), Drained(continued)}
    <2>1. Held(pc, p) = CASE p.kind \notin {"open", "more", "last"} -> Drained(longer)
                          [] (p.kind = "open" /\ known) \/ (at = 0) -> Refuses(pc)
                          [] signed -> Refuses(pc)
                          [] p.kind = "last" -> Drained(filled)
                          [] OTHER -> Drained(continued)
      BY Zenon DEF Held
    <2> HIDE DEF longer, known, at, signed, filled, continued
    <2> QED
      BY <2>1
  <1>6. IsList(Refuses(pc).parts) /\ Refuses(pc).calls = pc
    BY DEF Refuses, IsList
  <1> HIDE DEF longer, filled, continued
  <1> QED
    BY <1>2, <1>3, <1>4, <1>5, <1>6, DrainedKeeps

\* The parts that are drained are fed one after the other.
LEMMA DrainedIs ==
  ASSUME NEW t, Conv(t), NEW held, IsList(held.parts), IsQueue(held.calls), NEW req
  PROVE  Conv(FeedDrained(t, held, req))
  <1> DEFINE base == [t EXCEPT !.calls = held.calls]
  <1>1. Conv(base)
    BY DEF Conv, FreshFields
  <1>2. PICK F : /\ Folds(F, "part", req, base, held.parts)
                 /\ FeedDrained(t, held, req) = IF ~held.ok THEN Bad(t) ELSE F[DOMAIN held.parts]
    BY PartsFold
  <1> HIDE DEF base
  <1>3. Good("part", req, 0, base)
    BY <1>1 DEF Good
  <1>4. \A i \in 1..Len(held.parts) : \A u : Good("part", req, i - 1, u)
          => Good("part", req, i, Step("part", req, u, held.parts[i]))
    BY PartKeeps DEF Good, Step
  <1>5. Good("part", req, Len(held.parts), F[DOMAIN held.parts])
    BY <1>2, <1>3, <1>4, FoldGood
  <1>6. Conv(F[DOMAIN held.parts])
    BY <1>5 DEF Good
  <1> QED
    BY <1>2, <1>6, BadKeeps

LEMMA FeedHeldKeeps ==
  ASSUME NEW t, Conv(t), NEW p, NEW req
  PROVE  Conv(FeedHeld(t, p, req))
  <1>1. IsQueue(t.calls)
    BY DEF Conv
  <1>2. IsList(Held(t.calls, p).parts) /\ IsQueue(Held(t.calls, p).calls)
    BY <1>1, HeldKeeps
  <1> QED
    BY <1>2, DrainedIs DEF FeedHeld

FedAll(t, c, req) == FoldLeft(LAMBDA u, p : FeedHeld(u, p, req), t, c.parts)

LEMMA FedAllKeeps ==
  ASSUME NEW t, Conv(t), NEW c, IsList(c.parts), NEW req
  PROVE  Conv(FedAll(t, c, req))
  <1> DEFINE Is(F) == F = [S \in SUBSET (DOMAIN c.parts) |->
                             IF S = {} THEN t
                             ELSE FeedHeld(F[S \ {Max(S)}], c.parts[Max(S)], req)]
             G == CHOOSE F : Is(F)
  <1>1. FedAll(t, c, req) = G[DOMAIN c.parts]
    BY Zenon DEF FedAll, FoldLeft, MapThenFoldSet
  <1>2. PICK F : Folds(F, "held", req, t, c.parts)
    BY FoldExists
  <1>3. \A u, x : Step("held", req, u, x) = FeedHeld(u, x, req)
    BY DEF Step
  <1>4. Is(F)
    BY <1>2, <1>3, Zenon DEF Folds
  <1>5. Is(G)
    BY <1>4, Zenon
  <1>6. Folds(G, "held", req, t, c.parts)
    BY <1>3, <1>5, Zenon DEF Folds
  <1> HIDE DEF G
  <1>7. Good("held", req, 0, t)
    BY DEF Good
  <1>8. \A i \in 1..Len(c.parts) : \A u : Good("held", req, i - 1, u)
          => Good("held", req, i, Step("held", req, u, c.parts[i]))
    BY <1>3, FeedHeldKeeps DEF Good
  <1>9. Good("held", req, Len(c.parts), G[DOMAIN c.parts])
    BY <1>6, <1>7, <1>8, FoldGood
  <1> QED
    BY <1>1, <1>9 DEF Good

LiveOf(es) == Only(es, Live)
LateOf(es) == Only(es, LAMBDA e : ~Live(e))

\* With a strict schema, what is told at once and what is told later.
LEMMA LiveOfKeeps ==
  ASSUME NEW es, EventsIn(es, Feeding)
  PROVE  EventsIn(LiveOf(es), Feeding) /\ \A i \in DOMAIN LiveOf(es) : Live(LiveOf(es)[i])
  <1> DEFINE Is(F) == F = [S \in SUBSET (DOMAIN es) |->
                             IF S = {} THEN <<>>
                             ELSE IF Live(es[Max(S)]) THEN Append(F[S \ {Max(S)}], es[Max(S)])
                                  ELSE F[S \ {Max(S)}]]
             G == CHOOSE F : Is(F)
  <1>1. LiveOf(es) = G[DOMAIN es]
    BY Zenon DEF LiveOf, Only, FoldLeft, MapThenFoldSet
  <1>2. PICK F : Folds(F, "live", 0, <<>>, es)
    BY FoldExists DEF EventsIn
  <1>3. \A u, x : Step("live", 0, u, x) = IF Live(x) THEN Append(u, x) ELSE u
    BY DEF Step
  <1>4. Is(F)
    BY <1>2, <1>3, Zenon DEF Folds
  <1>5. Is(G)
    BY <1>4, Zenon
  <1>6. Folds(G, "live", 0, <<>>, es)
    BY <1>3, <1>5, Zenon DEF Folds
  <1> HIDE DEF G
  <1>7. Good("live", 0, 0, <<>>)
    BY DEF Good, EventsIn, IsList
  <1>8. ASSUME NEW i \in 1..Len(es), NEW u, Good("live", 0, i - 1, u)
        PROVE  Good("live", 0, i, Step("live", 0, u, es[i]))
    <2>1. IsEvent(es[i]) /\ es[i].type \in Feeding
      BY DEF EventsIn, IsList
    <2>2. EventsIn(u, Feeding) /\ \A k \in DOMAIN u : Live(u[k])
      BY <1>8 DEF Good
    <2>3. ASSUME Live(es[i])
          PROVE  /\ EventsIn(Append(u, es[i]), Feeding)
                 /\ \A k \in DOMAIN Append(u, es[i]) : Live(Append(u, es[i])[k])
      <3>1. EventsIn(Append(u, es[i]), Feeding) /\ IsList(u)
        BY <2>1, <2>2, AppendEvents DEF EventsIn
      <3>2. \A k \in DOMAIN Append(u, es[i]) : k \in DOMAIN u \/ k = Len(u) + 1
        BY <3>1, AppendList DEF IsList
      <3> QED
        BY <2>2, <2>3, <3>1, <3>2, AppendList
    <2>4. CASE Live(es[i])
      <3>1. Step("live", 0, u, es[i]) = Append(u, es[i])
        BY <1>3, <2>4, Zenon
      <3> QED
        BY <2>3, <2>4, <3>1 DEF Good
    <2>5. CASE ~Live(es[i])
      <3>1. Step("live", 0, u, es[i]) = u
        BY <1>3, <2>5, Zenon
      <3> QED
        BY <2>2, <3>1 DEF Good
    <2> QED
      BY <2>4, <2>5
  <1>9. Good("live", 0, Len(es), G[DOMAIN es])
    BY <1>6, <1>7, <1>8, FoldGood DEF EventsIn
  <1> QED
    BY <1>1, <1>9 DEF Good

LEMMA LateOfKeeps ==
  ASSUME NEW es, EventsIn(es, Feeding)
  PROVE  EventsIn(LateOf(es), Feeding)
  <1> DEFINE Is(F) == F = [S \in SUBSET (DOMAIN es) |->
                             IF S = {} THEN <<>>
                             ELSE IF ~Live(es[Max(S)]) THEN Append(F[S \ {Max(S)}], es[Max(S)])
                                  ELSE F[S \ {Max(S)}]]
             G == CHOOSE F : Is(F)
  <1>1. LateOf(es) = G[DOMAIN es]
    BY Zenon DEF LateOf, Only, FoldLeft, MapThenFoldSet
  <1>2. PICK F : Folds(F, "late", 0, <<>>, es)
    BY FoldExists DEF EventsIn
  <1>3. \A u, x : Step("late", 0, u, x) = IF ~Live(x) THEN Append(u, x) ELSE u
    BY DEF Step
  <1>4. Is(F)
    BY <1>2, <1>3, Zenon DEF Folds
  <1>5. Is(G)
    BY <1>4, Zenon
  <1>6. Folds(G, "late", 0, <<>>, es)
    BY <1>3, <1>5, Zenon DEF Folds
  <1> HIDE DEF G
  <1>7. Good("late", 0, 0, <<>>)
    BY DEF Good, EventsIn, IsList
  <1>8. ASSUME NEW i \in 1..Len(es), NEW u, Good("late", 0, i - 1, u)
        PROVE  Good("late", 0, i, Step("late", 0, u, es[i]))
    <2>1. IsEvent(es[i]) /\ es[i].type \in Feeding
      BY DEF EventsIn, IsList
    <2>2. EventsIn(u, Feeding)
      BY <1>8 DEF Good
    <2>3. EventsIn(Append(u, es[i]), Feeding)
      BY <2>1, <2>2, AppendEvents
    <2>4. Step("late", 0, u, es[i]) \in {u, Append(u, es[i])}
      BY <1>3, Zenon
    <2> QED
      BY <2>2, <2>3, <2>4 DEF Good
  <1>9. Good("late", 0, Len(es), G[DOMAIN es])
    BY <1>6, <1>7, <1>8, FoldGood DEF EventsIn
  <1> QED
    BY <1>1, <1>9 DEF Good

\* Giving out the numbers changes nothing else of the events.
LEMMA WiredIs ==
  ASSUME NEW t, DOMAIN t = FreshFields, IsList(t.events), NEW req,
         \A i \in DOMAIN t.events : IsEvent(t.events[i])
  PROVE  /\ DOMAIN Wired(t, req) = FreshFields
         /\ IsList(Wired(t, req).events) /\ Len(Wired(t, req).events) = Len(t.events)
         /\ \A i \in DOMAIN t.events : /\ IsEvent(Wired(t, req).events[i])
                                       /\ Wired(t, req).events[i].type = t.events[i].type
                                       /\ Wired(t, req).events[i].output = t.events[i].output
                                       /\ Wired(t, req).events[i].item = t.events[i].item
         /\ Wired(t, req).ok = t.ok /\ Wired(t, req).ended = t.ended
         /\ Wired(t, req).parts = t.parts /\ Wired(t, req).count = t.count
         /\ Wired(t, req).calls = t.calls /\ Wired(t, req).deferred = t.deferred
  <1>1. CASE ~req.schema
    BY <1>1 DEF Wired
  <1>2. CASE req.schema
    <2> DEFINE numbered == [i \in DOMAIN t.events |-> [t.events[i] EXCEPT !.seq = t.wire + i - 1]]
    <2>1. Wired(t, req) = [t EXCEPT !.events = numbered, !.wire = @ + Len(t.events)]
      BY <1>2 DEF Wired
    <2>2. IsList(numbered) /\ Len(numbered) = Len(t.events)
      BY DEF IsList
    <2>3. ASSUME NEW i \in DOMAIN t.events
          PROVE  /\ IsEvent(numbered[i]) /\ numbered[i].type = t.events[i].type
                 /\ numbered[i].output = t.events[i].output
                 /\ numbered[i].item = t.events[i].item
      BY Numbering
    <2> HIDE DEF numbered
    <2> QED
      BY <2>1, <2>2, <2>3 DEF FreshFields
  <1> QED
    BY <1>1, <1>2

LEMMA WiredKeeps ==
  ASSUME NEW t, Conv(t), NEW req
  PROVE  Conv(Wired(t, req))
  <1>1. DOMAIN t = FreshFields /\ EventsIn(t.events, Feeding)
    BY DEF Conv
  <1>2. EventsIn(Wired(t, req).events, Feeding)
    BY <1>1, WiredIs DEF EventsIn, IsList
  <1> QED
    BY <1>1, <1>2, WiredIs DEF Conv, EventsIn

Textless(es) == \A i \in DOMAIN es : es[i].type # "delta"

\* Of a strict reply no text is told before its end.
LEMMA DeferredKeeps ==
  ASSUME NEW t, Conv(t), NEW req
  PROVE  Conv(Deferred(t, req)) /\ (req.schema => Textless(Deferred(t, req).events))
  <1>1. CASE ~req.schema
    BY <1>1 DEF Deferred
  <1>2. CASE req.schema
    <2> DEFINE held == [t EXCEPT !.events = LiveOf(@), !.deferred = @ \o LateOf(t.events)]
    <2>1. Deferred(t, req) = Wired(held, req)
      BY <1>2, Zenon DEF Deferred, LiveOf, LateOf, Only, FoldLeft, MapThenFoldSet
    <2>2. EventsIn(t.events, Feeding) /\ EventsIn(t.deferred, Feeding) /\ DOMAIN t = FreshFields
      BY DEF Conv
    <2>3. EventsIn(LiveOf(t.events), Feeding) /\ EventsIn(LateOf(t.events), Feeding)
      BY <2>2, LiveOfKeeps, LateOfKeeps
    <2>4. EventsIn(t.deferred \o LateOf(t.events), Feeding)
      BY <2>2, <2>3, JoinEvents
    <2>5. Conv(held) /\ held.events = LiveOf(t.events)
      BY <2>2, <2>3, <2>4 DEF Conv, FreshFields
    <2>6. \A i \in DOMAIN held.events : held.events[i].type # "delta"
      BY <2>2, <2>5, LiveOfKeeps DEF Live
    <2> HIDE DEF held
    <2>7. DOMAIN Wired(held, req).events = DOMAIN held.events
      BY <2>5, WiredIs, SMTT(30) DEF Conv, EventsIn, IsList
    <2>8. Textless(Wired(held, req).events)
      BY <2>5, <2>6, <2>7, WiredIs DEF Conv, EventsIn, Textless
    <2> QED
      BY <2>1, <2>5, <2>8, WiredKeeps
  <1> QED
    BY <1>1, <1>2

LEMMA NotedKeeps ==
  ASSUME NEW t, Conv(t), NEW c, NEW req
  PROVE  /\ Conv(Noted(t, c, req))
         /\ req.schema /\ Noted(t, c, req).ok => Textless(Noted(t, c, req).events)
  <1> DEFINE noted == [t EXCEPT !.finish = IF c.finish = "none" THEN @ ELSE c.finish,
                                !.blocked = @ \/ c.blocked,
                                !.usage = IF c.usage = 0 THEN @ ELSE c.usage]
  <1>1. Conv(noted)
    BY DEF Conv, FreshFields
  <1>2. Noted(t, c, req) = IF ~t.ok THEN t ELSE Deferred(noted, req)
    BY DEF Noted
  <1> HIDE DEF noted
  <1> QED
    BY <1>1, <1>2, DeferredKeeps DEF Conv

\* A failure is told in one event.
Failed(t) == /\ IsList(t.events) /\ Len(t.events) = 1
             /\ IsEvent(t.events[1]) /\ t.events[1].type = "failed"
             /\ t.ok = TRUE /\ t.ended = TRUE

\* Fail tells one event.
LEMMA FailIs ==
  ASSUME NEW t, DOMAIN t = FreshFields, NEW req
  PROVE  Failed(Fail(t, req))
  <1> DEFINE end == Terminal("failed", <<>>, t.spent + t.usage)
             closed == [t EXCEPT !.ended = TRUE, !.ok = TRUE, !.deferred = <<>>, !.events = <<>>]
             told == Emit(closed, end)
  <1>1. IsEvent(end) /\ end.type = "failed"
    BY TerminalIs DEF IsList
  <1>2. DOMAIN closed = FreshFields /\ closed.events = <<>> /\ closed.ok = TRUE /\ closed.ended = TRUE
    BY DEF FreshFields
  <1> HIDE DEF end, closed
  <1>3. /\ DOMAIN told = FreshFields /\ told.ok = TRUE /\ told.ended = TRUE
        /\ told.events = Append(<<>>, [end EXCEPT !.seq = closed.sequence])
    BY <1>2, EmitIs
  <1>4. IsEvent([end EXCEPT !.seq = closed.sequence]) /\ [end EXCEPT !.seq = closed.sequence].type = "failed"
    BY <1>1, Numbering
  <1>5. /\ IsList(told.events) /\ Len(told.events) = 1 /\ DOMAIN told.events = 1..1
        /\ told.events[1] = [end EXCEPT !.seq = closed.sequence]
    BY <1>3 DEF IsList
  <1>6. Fail(t, req) = Wired(told, req)
    BY Zenon DEF Fail, end, closed
  <1> HIDE DEF told
  <1>7. IsEvent(told.events[1]) /\ told.events[1].type = "failed"
    BY <1>4, <1>5
  <1>8. \A i \in DOMAIN told.events : IsEvent(told.events[i])
    BY <1>5, <1>7
  <1>9. 1 \in DOMAIN told.events
    BY <1>5
  <1> QED
    BY <1>3, <1>5, <1>6, <1>7, <1>8, <1>9, WiredIs DEF Failed

\* A native event fails the response, or it goes on.
LEMMA FeedIs ==
  ASSUME NEW t, Conv(t), NEW c, IsList(c.parts), NEW req
  PROVE  \/ Failed(Feed(t, c, req))
         \/ /\ Conv(Feed(t, c, req))
            /\ req.schema /\ Feed(t, c, req).ok => Textless(Feed(t, c, req).events)
  <1> DEFINE old == [t EXCEPT !.events = <<>>]
             begun == IF old.started THEN old
                      ELSE Emit(Emit([old EXCEPT !.started = TRUE], Event("created", 0)),
                                Event("added", 0))
  <1>1. Conv(old)
    BY DEF Conv, FreshFields, EventsIn, IsList
  <1>2. Conv([old EXCEPT !.started = TRUE])
    <2> HIDE DEF old
    <2> QED
      BY <1>1 DEF Conv, FreshFields
  <1> HIDE DEF old
  <1>3. Conv(begun)
    <2>1. Conv(Emit([old EXCEPT !.started = TRUE], Event("created", 0)))
      BY <1>2, EmitKeeps, EventsAre DEF Feeding
    <2>2. Conv(Emit(Emit([old EXCEPT !.started = TRUE], Event("created", 0)), Event("added", 0)))
      BY <2>1, EmitKeeps, EventsAre DEF Feeding
    <2> QED
      BY <1>1, <2>2
  <1>4. Feed(t, c, req) = CASE c.error -> Fail(old, req)
                            [] c.invalid -> Bad(old)
                            [] OTHER -> Noted(FedAll(begun, c, req), c, req)
    BY Zenon DEF Feed, FedAll, old, FoldLeft, MapThenFoldSet
  <1> HIDE DEF begun
  <1>5. Conv(FedAll(begun, c, req))
    BY <1>3, FedAllKeeps
  <1>6. Feed(t, c, req) \in {Fail(old, req), Bad(old), Noted(FedAll(begun, c, req), c, req)}
    BY <1>4
  <1>7. Failed(Fail(old, req)) /\ Conv(Bad(old)) /\ ~Bad(old).ok
    BY <1>1, FailIs, BadKeeps DEF Conv
  <1> QED
    BY <1>5, <1>6, <1>7, NotedKeeps

\* A converter that asks again, and a new one.
LEMMA RecoveringKeeps ==
  ASSUME NEW t, Conv(t)
  PROVE  Conv(Recovering(t))
  <1> DEFINE n == Len(t.parts)
             unsigned == n > 0 /\ t.parts[n].kind = "text" /\ ~t.parts[n].thought
                               /\ t.parts[n].sig = "none"
             parts == IF unsigned THEN [t.parts EXCEPT ![n].sig = "imported"] ELSE t.parts
  <1>1. IsList(parts)
    BY DEF Conv, IsList
  <1>2. Recovering(t) = [t EXCEPT !.attempts = @ + 1, !.calls = NoCalls,
               !.spent = @ + t.usage, !.usage = 0, !.finish = "none",
               !.parts = parts, !.events = <<>>]
    BY DEF Recovering
  <1>3. IsQueue(NoCalls)
    <2>1. <<>> \in Seq({})
      OBVIOUS
    <2> QED
      BY <2>1 DEF NoCalls, IsQueue
  <1>4. EventsIn(<<>>, Feeding)
    BY DEF EventsIn, IsList
  <1> HIDE DEF parts
  <1> QED
    BY <1>1, <1>2, <1>3, <1>4 DEF Conv, FreshFields

LEMMA FreshIs == Conv(Fresh)
  <1>1. <<>> \in Seq({})
    OBVIOUS
  <1>2. IsQueue(NoCalls)
    BY <1>1 DEF NoCalls, IsQueue
  <1>3. EventsIn(<<>>, Feeding) /\ IsList(<<>>)
    BY DEF EventsIn, IsList
  <1> QED
    BY <1>2, <1>3 DEF Conv, Fresh, FreshFields

---------------------------------------------------------------------------
\* The items of a whole turn.
LEMMA ItemsAreList ==
  ASSUME NEW parts, IsList(parts), NEW req
  PROVE  IsList(OutputItems(parts, req))
  <1> DEFINE Is(F) == F = [S \in SUBSET (DOMAIN parts) |->
                             IF S = {} THEN <<>>
                             ELSE LET item == OutputItem(parts[Max(S)], Len(F[S \ {Max(S)}]) + 1, req)
                                  IN IF item = Nothing THEN F[S \ {Max(S)}]
                                     ELSE Append(F[S \ {Max(S)}], item)]
             G == CHOOSE F : Is(F)
  <1>1. OutputItems(parts, req) = G[DOMAIN parts]
    BY Zenon DEF OutputItems, FoldLeft, MapThenFoldSet
  <1>2. PICK F : Folds(F, "items", req, <<>>, parts)
    BY FoldExists
  <1>3. \A u, x : Step("items", req, u, x)
                    = LET item == OutputItem(x, Len(u) + 1, req)
                      IN IF item = Nothing THEN u ELSE Append(u, item)
    BY DEF Step
  <1>4. Is(F)
    BY <1>2, <1>3, Zenon DEF Folds
  <1>5. Is(G)
    BY <1>4, Zenon
  <1>6. Folds(G, "items", req, <<>>, parts)
    BY <1>3, <1>5, Zenon DEF Folds
  <1> HIDE DEF G
  <1>7. Good("items", req, 0, <<>>)
    BY DEF Good, IsList
  <1>8. ASSUME NEW i \in 1..Len(parts), NEW u, Good("items", req, i - 1, u)
        PROVE  Good("items", req, i, Step("items", req, u, parts[i]))
    <2>1. IsList(u)
      BY <1>8 DEF Good
    <2> DEFINE item == OutputItem(parts[i], Len(u) + 1, req)
    <2>2. Step("items", req, u, parts[i]) = IF item = Nothing THEN u ELSE Append(u, item)
      BY <1>3
    <2> HIDE DEF item
    <2> QED
      BY <2>1, <2>2, AppendList DEF Good
  <1>9. Good("items", req, Len(parts), G[DOMAIN parts])
    BY <1>6, <1>7, <1>8, FoldGood
  <1> QED
    BY <1>1, <1>9 DEF Good

SomeItems(output) == IsList(output) /\ Len(output) >= 1

LEMMA ConvertedIs ==
  ASSUME NEW n, IsList(n.parts), NEW req
  PROVE  /\ SomeItems(Converted(n, req).output)
         /\ Converted(n, req).status \in {"completed", "incomplete", "failed"}
         /\ Converted(n, req).ok \in BOOLEAN
  <1> DEFINE items == OutputItems(n.parts, req)
             first == Reasoning(Thoughts(n.parts), Sealed(req.by, req.route, n.parts, items))
             status == CASE n.blocked -> "failed"
                         [] n.finish = "STOP" ->
                              IF req.schema /\ Calls(n.parts) = <<>> /\ ~SchemaHolds(n.parts)
                              THEN "failed" ELSE "completed"
                         [] n.finish = "MAX_TOKENS" -> "incomplete"
                         [] OTHER -> "failed"
  <1>1. IsList(items)
    BY ItemsAreList
  <1>2. Converted(n, req) = [ok |-> Broken \notin ToSet(items), status |-> status,
                             usage |-> n.usage, output |-> <<first>> \o items]
    BY Zenon DEF Converted
  <1>3. status \in {"completed", "incomplete", "failed"}
    OBVIOUS
  <1> HIDE DEF items, first, status
  <1>4. IsList(<<first>>) /\ Len(<<first>>) = 1
    BY DEF IsList
  <1>5. IsList(<<first>> \o items) /\ Len(<<first>> \o items) = 1 + Len(items)
    BY <1>1, <1>4, JoinList
  <1>6. Len(items) \in Nat
    BY <1>1 DEF IsList
  <1> QED
    BY <1>2, <1>3, <1>5, <1>6 DEF SomeItems

\* The events with which a turn ends.
LEMMA EmitEnding ==
  ASSUME NEW t, Ending(t), NEW e, IsEvent(e), e.type \in Midway
  PROVE  Ending(Emit(t, e))
  <1> DEFINE numbered == [e EXCEPT !.seq = t.sequence]
  <1>1. IsEvent(numbered) /\ numbered.type \in Midway
    BY Numbering
  <1>2. DOMAIN Emit(t, e) = FreshFields /\ Emit(t, e).events = Append(t.events, numbered)
    BY EmitIs DEF Ending
  <1> HIDE DEF numbered
  <1> QED
    BY <1>1, <1>2, AppendEvents DEF Ending

LEMMA ItemDoneKeeps ==
  ASSUME NEW t, Ending(t), NEW output, NEW index
  PROVE  Ending(ItemDone(t, output, index))
  <1> DEFINE item == output[index + 1]
             told == IF item.type = "call" THEN Emit(t, Delta("args_done", index, item.text)) ELSE t
  <1>1. Ending(told)
    BY EmitEnding, EventsAre DEF Midway
  <1>2. ItemDone(t, output, index) = Emit(told, Done("item_done", index, item))
    BY DEF ItemDone
  <1> HIDE DEF told, item
  <1> QED
    BY <1>1, <1>2, EmitEnding, EventsAre DEF Midway

EndingAll(t, n, done, output) ==
  FoldLeft(LAMBDA u, i : IF i \in done THEN ItemDone(u, output, i) ELSE u, t, [i \in 1..n |-> i])

LEMMA EndingAllKeeps ==
  ASSUME NEW t, Ending(t), NEW n \in Nat, NEW done, NEW output
  PROVE  Ending(EndingAll(t, n, done, output))
  <1> DEFINE a == [done |-> done, output |-> output]
             seq == [i \in 1..n |-> i]
             Is(F) == F = [S \in SUBSET (DOMAIN seq) |->
                             IF S = {} THEN t
                             ELSE IF seq[Max(S)] \in done
                                  THEN ItemDone(F[S \ {Max(S)}], output, seq[Max(S)])
                                  ELSE F[S \ {Max(S)}]]
             G == CHOOSE F : Is(F)
  <1>1. EndingAll(t, n, done, output) = G[DOMAIN seq]
    BY Zenon DEF EndingAll, FoldLeft, MapThenFoldSet
  <1>2. IsList(seq)
    BY DEF IsList
  <1> HIDE DEF seq
  <1>3. PICK F : Folds(F, "ending", a, t, seq)
    BY <1>2, FoldExists
  <1>4. \A u, x : Step("ending", a, u, x) = IF x \in done THEN ItemDone(u, output, x) ELSE u
    BY DEF Step
  <1>5. Is(F)
    BY <1>3, <1>4, Zenon DEF Folds
  <1>6. Is(G)
    BY <1>5, Zenon
  <1>7. Folds(G, "ending", a, t, seq)
    BY <1>4, <1>6, ZenonT(30) DEF Folds
  <1> HIDE DEF G, a
  <1>8. Good("ending", a, 0, t)
    BY DEF Good
  <1>9. ASSUME NEW i \in 1..Len(seq), NEW u, Good("ending", a, i - 1, u)
        PROVE  Good("ending", a, i, Step("ending", a, u, seq[i]))
    <2>1. Ending(u)
      BY <1>9 DEF Good
    <2>2. Ending(ItemDone(u, output, seq[i]))
      BY <2>1, ItemDoneKeeps
    <2> QED
      BY <1>4, <2>1, <2>2 DEF Good
  <1>10. Good("ending", a, Len(seq), G[DOMAIN seq])
    BY <1>2, <1>7, <1>8, <1>9, FoldGood
  <1> QED
    BY <1>1, <1>10 DEF Good

LEMMA CloseEnding ==
  ASSUME NEW t, Ending(t), NEW req
  PROVE  /\ Ending(CloseActive(t, req))
         /\ CloseActive(t, req).count = t.count /\ CloseActive(t, req).ok = t.ok
  <1> DEFINE e == Delta("text_done", t.active[1], t.parts[t.active[2]].text)
             told == Emit(t, e)
             closed == [told EXCEPT !.active = <<0, 0>>, !.done = @ \union {t.active[1]}]
  <1>1. IsEvent(e) /\ e.type \in Midway
    BY EventsAre DEF Midway, Feeding
  <1> HIDE DEF e
  <1>2. Ending(told) /\ told.count = t.count /\ told.ok = t.ok
    BY <1>1, EmitEnding, EmitIs DEF Ending
  <1>3. CloseActive(t, req) = IF t.active[1] = 0 THEN t ELSE closed
    BY Zenon DEF CloseActive, e
  <1> HIDE DEF told
  <1>4. closed.events = told.events /\ DOMAIN closed = DOMAIN told
        /\ closed.count = told.count /\ closed.ok = told.ok
    BY <1>2 DEF Ending, FreshFields
  <1> HIDE DEF closed
  <1> QED
    BY <1>2, <1>3, <1>4 DEF Ending

\* The end of a reply: all that was held back and a completion, or one event that
\* says that there is none.
Final(es) ==
  /\ IsList(es) /\ Len(es) >= 1 /\ \A i \in DOMAIN es : IsEvent(es[i])
  /\ \/ es[Len(es)].type = "completed" /\ \A i \in DOMAIN es : i < Len(es) => es[i].type \in Midway
     \/ es[Len(es)].type \in {"incomplete", "failed"} /\ Len(es) = 1

\* A turn ends in one way: with its items, cut off or failed.
LEMMA EmitFinal ==
  ASSUME NEW t, DOMAIN t = FreshFields, EventsIn(t.events, Midway), NEW e, IsEvent(e),
         \/ e.type = "completed"
         \/ e.type \in {"incomplete", "failed"} /\ t.events = <<>>
  PROVE  Final(Emit(t, e).events) /\ DOMAIN Emit(t, e) = FreshFields
  <1> DEFINE numbered == [e EXCEPT !.seq = t.sequence]
  <1>1. IsEvent(numbered) /\ numbered.type = e.type
    BY Numbering
  <1>2. DOMAIN Emit(t, e) = FreshFields /\ Emit(t, e).events = Append(t.events, numbered)
    BY EmitIs
  <1> HIDE DEF numbered
  <1> DEFINE es == Append(t.events, numbered)
             n == Len(t.events)
  <1>3. /\ IsList(es) /\ Len(es) = n + 1 /\ es[n + 1] = numbered
        /\ \A i \in DOMAIN t.events : es[i] = t.events[i]
    BY AppendList DEF EventsIn
  <1>4. n \in Nat /\ DOMAIN t.events = 1..n /\ DOMAIN es = 1..n + 1
    BY <1>3 DEF EventsIn, IsList
  <1>5. t.events = <<>> => n = 0
    OBVIOUS
  <1> HIDE DEF es, n
  <1>6. \A i \in DOMAIN es : IsEvent(es[i]) /\ (i < n + 1 => es[i].type \in Midway)
    BY <1>1, <1>3, <1>4 DEF EventsIn
  <1>7. Final(es)
    BY <1>1, <1>3, <1>4, <1>5, <1>6 DEF Final
  <1> QED
    BY <1>2, <1>7 DEF es

LEMMA ClosingIs ==
  ASSUME NEW t, Ending(t), t.events = <<>>, t.count \in Nat, EventsIn(t.deferred, Feeding),
         NEW req, NEW said, NEW output, IsList(output), IsList(said.output),
         said.status \in {"completed", "incomplete", "failed"}
  PROVE  LET end == Closing(t, CloseActive(t, req), said, output, req)
         IN Final(end.events) /\ DOMAIN end = FreshFields
  <1> SUFFICES /\ Final(Closing(t, CloseActive(t, req), said, output, req).events)
               /\ DOMAIN Closing(t, CloseActive(t, req), said, output, req) = FreshFields
    OBVIOUS
  <1> DEFINE closed == CloseActive(t, req)
             released == IF req.schema
                         THEN [closed EXCEPT !.events = t.deferred \o @, !.deferred = <<>>]
                         ELSE closed
             summed == IF t.summary = <<>> THEN released
                       ELSE Emit(released, Delta("summary_done", 0, t.summary))
             begun == Emit(summed, Done("item_done", 0, output[1]))
             items == EndingAll(begun, closed.count, closed.done, output)
             end == IF said.status = "completed"
                    THEN Emit(items, Terminal("completed", output, said.usage))
                    ELSE Emit([t EXCEPT !.deferred = <<>>],
                              Terminal(said.status, said.output, said.usage))
  <1>1. Ending(closed) /\ closed.count = t.count
    BY CloseEnding
  <1>2. Closing(t, CloseActive(t, req), said, output, req) = end
    BY Zenon DEF Closing, EndingAll, FoldLeft, MapThenFoldSet
  <1> HIDE DEF closed
  <1>3. Ending(released)
    <2>1. EventsIn(t.deferred, Midway)
      BY DEF EventsIn, Midway
    <2>2. EventsIn(t.deferred \o closed.events, Midway)
      BY <1>1, <2>1, JoinEvents DEF Ending
    <2> QED
      BY <1>1, <2>2 DEF Ending, FreshFields
  <1> HIDE DEF released
  <1>4. Ending(summed)
    BY <1>3, EmitEnding, EventsAre DEF Midway
  <1> HIDE DEF summed
  <1>5. Ending(begun)
    BY <1>4, EmitEnding, EventsAre DEF Midway
  <1> HIDE DEF begun
  <1>6. Ending(items)
    BY <1>1, <1>5, EndingAllKeeps
  <1> HIDE DEF items
  <1>7. CASE said.status = "completed"
    <2> DEFINE e == Terminal("completed", output, said.usage)
    <2>1. IsEvent(e) /\ e.type = "completed"
      BY TerminalIs
    <2>2. end = Emit(items, e)
      BY <1>7
    <2> HIDE DEF e, end
    <2> QED
      BY <1>2, <1>6, <2>1, <2>2, EmitFinal DEF Ending
  <1>8. CASE said.status # "completed"
    <2> DEFINE e == Terminal(said.status, said.output, said.usage)
               empty == [t EXCEPT !.deferred = <<>>]
    <2>1. IsEvent(e) /\ e.type \in {"incomplete", "failed"}
      BY <1>8, TerminalIs
    <2>2. DOMAIN empty = FreshFields /\ empty.events = <<>>
      BY DEF Ending, FreshFields
    <2>3. EventsIn(empty.events, Midway)
      BY <2>2 DEF EventsIn, IsList
    <2>4. end = Emit(empty, e)
      BY <1>8
    <2> HIDE DEF e, empty, end
    <2> QED
      BY <1>2, <2>1, <2>2, <2>3, <2>4, EmitFinal
  <1> QED
    BY <1>7, <1>8

\* The end of the transport ends the response, or is refused.
LEMMA FinishIs ==
  ASSUME NEW t, Conv(t), NEW req
  PROVE  /\ DOMAIN Finish(t, req) = FreshFields
         /\ ~Finish(t, req).ok \/ Final(Finish(t, req).events)
  <1> DEFINE u == [t EXCEPT !.events = <<>>, !.ended = TRUE,
                            !.usage = t.spent + t.usage, !.spent = 0]
             said == Converted(u, req)
             first == IF u.attempts = 0 THEN said.output[1]
                      ELSE Reasoning(u.summary,
                             Sealed(req.by, req.route, Patched(u.parts), Tail(said.output)))
             output == <<first>> \o Tail(said.output)
             closing == Closing(u, CloseActive(u, req), said, output, req)
             refused == [u EXCEPT !.spent = IF t.spent = 0 THEN 0 ELSE u.usage]
  <1>1. /\ DOMAIN u = FreshFields /\ u.events = <<>> /\ u.count = t.count
        /\ u.parts = t.parts /\ u.deferred = t.deferred
    BY DEF Conv, FreshFields
  <1>2. Finish(t, req) = CASE u.calls.active # <<>> -> Bad(t)
                           [] ~said.ok -> Bad(refused)
                           [] OTHER -> Wired(closing, req)
    BY Zenon DEF Finish, Finished
  <1>3. DOMAIN refused = FreshFields
    BY <1>1
  <1> HIDE DEF u
  <1>4. /\ SomeItems(said.output) /\ said.status \in {"completed", "incomplete", "failed"}
    BY <1>1, ConvertedIs DEF Conv
  <1> HIDE DEF said, first, refused
  <1>5. IsList(output)
    <2>1. IsList(<<first>>)
      BY DEF IsList
    <2>2. IsList(Tail(said.output))
      BY <1>4 DEF SomeItems, IsList
    <2> QED
      BY <2>1, <2>2, JoinList
  <1> HIDE DEF output
  <1>6. Ending(u) /\ u.count \in Nat /\ EventsIn(u.deferred, Feeding)
    BY <1>1 DEF Ending, Conv, EventsIn, IsList
  <1>7. Final(closing.events) /\ DOMAIN closing = FreshFields
    BY <1>1, <1>4, <1>5, <1>6, ClosingIs DEF SomeItems
  <1> HIDE DEF closing
  <1>8. Final(Wired(closing, req).events) /\ DOMAIN Wired(closing, req) = FreshFields
    <2>1. IsList(closing.events) /\ \A i \in DOMAIN closing.events : IsEvent(closing.events[i])
      BY <1>7 DEF Final
    <2>2. /\ DOMAIN Wired(closing, req).events = DOMAIN closing.events
          /\ Len(Wired(closing, req).events) = Len(closing.events)
      BY <1>7, <2>1, WiredIs DEF IsList
    <2>3. Len(closing.events) \in DOMAIN closing.events
      BY <1>7 DEF Final, IsList
    <2> QED
      BY <1>7, <2>1, <2>2, <2>3, WiredIs DEF Final
  <1>9. \A x : DOMAIN x = FreshFields => DOMAIN Bad(x) = FreshFields /\ ~Bad(x).ok
    BY DEF Bad, FreshFields
  <1> QED
    BY <1>2, <1>3, <1>8, <1>9 DEF Conv

---------------------------------------------------------------------------
(* The chat stream.                                                        *)
\* The chat stream, chunk by chunk.
LEMMA AppendChunks ==
  ASSUME NEW kinds, NEW cs, Chunks(cs, kinds), NEW k, k.kind \in kinds,
         k.kind = "finish" => k.tool \in Reasons
  PROVE  Chunks(Append(cs, k), kinds)
  <1>1. IsList(cs)
    BY DEF Chunks
  <1>2. \A i \in DOMAIN Append(cs, k) : i \in DOMAIN cs \/ i = Len(cs) + 1
    BY <1>1, AppendList DEF IsList
  <1> QED
    BY <1>1, <1>2, AppendList DEF Chunks

LEMMA SendsIs ==
  ASSUME NEW c, DOMAIN c = ChatFields, NEW k
  PROVE  /\ DOMAIN Sends(c, k) = ChatFields /\ Sends(c, k).chunks = Append(c.chunks, k)
         /\ Sends(c, k).ended = c.ended /\ Sends(c, k).ok = c.ok
  BY DEF Sends, ChatFields

LEMMA SendsKeeps ==
  ASSUME NEW c, ChatGoes(c), NEW k, k.kind \in PlainChunks
  PROVE  ChatGoes(Sends(c, k))
  <1>1. Chunks(Append(c.chunks, k), PlainChunks)
    BY AppendChunks DEF ChatGoes, PlainChunks
  <1> QED
    BY <1>1, SendsIs DEF ChatGoes

LEMMA SetChat ==
  ASSUME NEW c, ChatGoes(c), NEW x, NEW i
  PROVE  /\ ChatGoes([c EXCEPT !.ok = x]) /\ ChatGoes([c EXCEPT !.sealed = x])
         /\ ChatGoes([c EXCEPT !.tools = x]) /\ ChatGoes([c EXCEPT !.texts[i] = @ \o x])
         /\ ChatGoes([c EXCEPT !.tools[i].text = @ \o x])
  BY DEF ChatGoes, ChatFields

LEMMA GrowsKeeps ==
  ASSUME NEW c, ChatGoes(c), NEW kind \in {"text", "reasoning"}, NEW index, NEW x, NEW full
  PROVE  ChatGoes(Grows(c, kind, index, x, full))
  <1> DEFINE rest == Rest(c.texts[index], x, full)
             chunk == [Chunk(kind) EXCEPT !.text = rest]
             sent1 == Sends(c, chunk)
             grown == [sent1 EXCEPT !.texts[index] = @ \o rest]
  <1>1. chunk.kind \in PlainChunks
    BY DEF Chunk, PlainChunks
  <1>2. Grows(c, kind, index, x, full) = CASE full /\ ~IsPrefix(c.texts[index], x) -> Changed(c)
                                           [] rest = <<>> -> c
                                           [] OTHER -> grown
    BY Zenon DEF Grows
  <1> HIDE DEF chunk, rest
  <1>3. ChatGoes(sent1)
    BY <1>1, SendsKeeps
  <1> HIDE DEF sent1
  <1>4. ChatGoes(grown)
    BY <1>3, SetChat
  <1>5. ChatGoes(Changed(c))
    BY SetChat DEF Changed
  <1> HIDE DEF grown
  <1>6. Grows(c, kind, index, x, full) \in {Changed(c), c, grown}
    BY <1>2
  <1> QED
    BY <1>4, <1>5, <1>6

LEMMA NamedKeeps ==
  ASSUME NEW c, ChatGoes(c), NEW index, NEW item
  PROVE  ChatGoes(Named(c, index, item))
  <1> DEFINE chunk == [Chunk("tool") EXCEPT !.number = Len(c.tools) + 1, !.tool = item.tool,
                                            !.id = item.id]
             sent1 == Sends(c, chunk)
             more == Append(sent1.tools, [index |-> index, text |-> <<>>])
             named == [sent1 EXCEPT !.tools = more]
  <1>1. chunk.kind \in PlainChunks
    BY DEF Chunk, PlainChunks
  <1>2. Named(c, index, item) = IF Number(c, index) # 0 THEN c ELSE named
    BY Zenon DEF Named
  <1> HIDE DEF chunk
  <1>3. ChatGoes(sent1)
    BY <1>1, SendsKeeps
  <1> HIDE DEF sent1, more
  <1>4. ChatGoes(named)
    BY <1>3, SetChat
  <1> QED
    BY <1>2, <1>4

LEMMA ArguesKeeps ==
  ASSUME NEW c, ChatGoes(c), NEW index, NEW x, NEW full
  PROVE  ChatGoes(Argues(c, index, x, full))
  <1> DEFINE k == Number(c, index)
             rest == Rest(c.tools[k].text, x, full)
             chunk == [Chunk("args") EXCEPT !.number = k, !.text = rest]
             sent1 == Sends(c, chunk)
             grown == [sent1 EXCEPT !.tools[k].text = @ \o rest]
  <1>1. chunk.kind \in PlainChunks
    BY DEF Chunk, PlainChunks
  <1>2. Argues(c, index, x, full) = CASE k = 0 -> Changed(c)
                                      [] full /\ ~IsPrefix(c.tools[k].text, x) -> Changed(c)
                                      [] rest = <<>> -> c
                                      [] OTHER -> grown
    BY Zenon DEF Argues
  <1> HIDE DEF chunk, rest, k
  <1>3. ChatGoes(sent1)
    BY <1>1, SendsKeeps
  <1> HIDE DEF sent1
  <1>4. ChatGoes(grown)
    BY <1>3, SetChat
  <1>5. ChatGoes(Changed(c))
    BY SetChat DEF Changed
  <1> HIDE DEF grown
  <1>6. Argues(c, index, x, full) \in {Changed(c), c, grown}
    BY <1>2
  <1> QED
    BY <1>4, <1>5, <1>6

LEMMA SealedKeeps ==
  ASSUME NEW c, ChatGoes(c), NEW item
  PROVE  ChatGoes(SealedOnce(c, item))
  <1> DEFINE chunk == [Chunk("details") EXCEPT !.carrier = item.carrier]
  <1>1. chunk.kind \in PlainChunks
    BY DEF Chunk, PlainChunks
  <1> HIDE DEF chunk
  <1>2. ChatGoes([Sends(c, chunk) EXCEPT !.sealed = TRUE])
    BY <1>1, SendsKeeps, SetChat
  <1> QED
    BY <1>2 DEF SealedOnce, chunk

LEMMA ChatItemKeeps ==
  ASSUME NEW c, ChatGoes(c), NEW index, NEW item, NEW full, NEW x
  PROVE  ChatGoes(ChatItem(c, index, item, full, x))
  <1>1. ChatGoes(Argues(Named(c, index, item), index, item.text, TRUE))
    BY NamedKeeps, ArguesKeeps
  <1>2. ChatGoes(Named(c, index, item)) /\ ChatGoes(Changed(c))
    BY NamedKeeps, SetChat DEF Changed
  <1>3. ChatGoes(Grows(c, "text", index, item.text, TRUE))
    BY GrowsKeeps
  <1>4. ChatGoes(SealedOnce(Grows(c, "reasoning", index, item.text, TRUE), item))
    BY GrowsKeeps, SealedKeeps
  <1>5. ChatItem(c, index, item, full, x)
          \in {Argues(Named(c, index, item), index, item.text, TRUE), Named(c, index, item),
               Grows(c, "text", index, item.text, TRUE),
               SealedOnce(Grows(c, "reasoning", index, item.text, TRUE), item), c, Changed(c)}
    BY DEF ChatItem
  <1> QED
    BY <1>1, <1>2, <1>3, <1>4, <1>5

AllItems(c, output, x) ==
  FoldLeftDomain(LAMBDA d, i : IF d.ok THEN ChatItem(d, i - 1, output[i], TRUE, x) ELSE d, c, output)

LEMMA AllItemsKeep ==
  ASSUME NEW c, ChatGoes(c), NEW output, IsList(output), NEW x
  PROVE  ChatGoes(AllItems(c, output, x))
  <1> DEFINE a == [output |-> output, x |-> x]
             seq == [i \in DOMAIN output |-> i]
             one(u, i) == IF u.ok THEN ChatItem(u, i - 1, output[i], TRUE, x) ELSE u
             Is(F) == F = [S \in SUBSET (DOMAIN seq) |->
                             IF S = {} THEN c ELSE one(F[S \ {Max(S)}], seq[Max(S)])]
             G == CHOOSE F : Is(F)
  <1>1. AllItems(c, output, x) = G[DOMAIN seq]
    BY Zenon DEF AllItems, FoldLeftDomain, FoldLeft, MapThenFoldSet
  <1>2. IsList(seq)
    BY DEF IsList
  <1> HIDE DEF seq
  <1>3. PICK F : Folds(F, "whole", a, c, seq)
    BY <1>2, FoldExists
  <1>4. \A u, i : Step("whole", a, u, i) = one(u, i)
    BY DEF Step
  <1> HIDE DEF one, a
  <1>5. Is(F)
    BY <1>3, <1>4, Zenon DEF Folds
  <1>6. Is(G)
    BY <1>5, Zenon
  <1> HIDE DEF G
  <1>7. Folds(G, "whole", a, c, seq)
    BY <1>4, <1>6, Zenon DEF Folds
  <1>8. Good("whole", a, 0, c)
    BY DEF Good
  <1>9. ASSUME NEW i \in 1..Len(seq), NEW u, Good("whole", a, i - 1, u)
        PROVE  Good("whole", a, i, Step("whole", a, u, seq[i]))
    <2>1. ChatGoes(u)
      BY <1>9 DEF Good
    <2>2. ChatGoes(ChatItem(u, seq[i] - 1, output[seq[i]], TRUE, x))
      BY <2>1, ChatItemKeeps
    <2> QED
      BY <1>4, <2>1, <2>2 DEF Good, one
  <1>10. Good("whole", a, Len(seq), G[DOMAIN seq])
    BY <1>2, <1>7, <1>8, <1>9, FoldGood
  <1> QED
    BY <1>1, <1>10 DEF Good

Spoken(c, kinds) == DOMAIN c = ChatFields /\ Chunks(c.chunks, PlainChunks \union kinds)

\* The end of a response is the end of the chat stream.
LEMMA ChatEndsIs ==
  ASSUME NEW c, ChatGoes(c), NEW e, IsList(e.output), NEW x
  PROVE  Spoken(ChatEnds(c, e, x), {"finish", "usage"}) /\ ChatEnds(c, e, x).ended = TRUE
  <1> DEFINE items == AllItems(c, e.output, x)
             reason == CASE e.type = "incomplete" -> "length"
                         [] \E i \in DOMAIN e.output : e.output[i].type = "call" -> "tool_calls"
                         [] OTHER -> "stop"
             finish == [Chunk("finish") EXCEPT !.tool = reason]
             counted == [Chunk("usage") EXCEPT !.usage = e.usage]
             kinds == PlainChunks \union {"finish", "usage"}
  <1>1. ChatGoes(items)
    BY AllItemsKeep
  <1>2. ChatEnds(c, e, x) = [IF x.usage THEN Sends(Sends(items, finish), counted)
                             ELSE Sends(items, finish) EXCEPT !.ended = TRUE]
    BY Zenon DEF ChatEnds, AllItems, FoldLeftDomain, FoldLeft, MapThenFoldSet
  <1>3. reason \in Reasons
    BY DEF Reasons
  <1> HIDE DEF items, reason
  <1>4. finish.kind = "finish" /\ finish.tool \in Reasons /\ counted.kind = "usage"
    BY <1>3 DEF Chunk
  <1> HIDE DEF finish, counted
  <1>5. Chunks(items.chunks, kinds) /\ DOMAIN items = ChatFields
    BY <1>1 DEF ChatGoes, Chunks
  <1>6. "finish" \in kinds /\ "usage" \in kinds
    OBVIOUS
  <1> HIDE DEF kinds
  <1>7. Chunks(Append(items.chunks, finish), kinds)
    BY <1>4, <1>5, <1>6, AppendChunks
  <1>8. Chunks(Append(Append(items.chunks, finish), counted), kinds)
    BY <1>4, <1>6, <1>7, AppendChunks
  <1> DEFINE both == IF x.usage THEN Sends(Sends(items, finish), counted) ELSE Sends(items, finish)
  <1>9. DOMAIN both = ChatFields /\ Chunks(both.chunks, kinds)
    BY <1>5, <1>7, <1>8, SendsIs
  <1> HIDE DEF both
  <1>10. DOMAIN [both EXCEPT !.ended = TRUE] = ChatFields /\ [both EXCEPT !.ended = TRUE].ended = TRUE
         /\ [both EXCEPT !.ended = TRUE].chunks = both.chunks
    BY <1>9 DEF ChatFields
  <1> QED
    BY <1>2, <1>9, <1>10 DEF both, Spoken, kinds

\* What one event makes of a chat stream that has not ended, and of one that has.
Speaks(old, new) ==
  /\ DOMAIN new = ChatFields
  /\ IF old.ended THEN new.ended = TRUE /\ Chunks(new.chunks, {})
     ELSE \/ new.ended = FALSE /\ Chunks(new.chunks, PlainChunks)
          \/ new.ended = TRUE /\ Chunks(new.chunks, {"error"})
          \/ new.ended = TRUE /\ Chunks(new.chunks, PlainChunks \union {"finish", "usage"})

\* A chunk alone, and none.
LEMMA OneChunk ==
  ASSUME NEW kind, kind # "finish"
  PROVE  Chunks(<<Chunk(kind)>>, {kind})
  <1> DEFINE k == Chunk(kind)
  <1>1. k.kind = kind
    BY DEF Chunk
  <1> HIDE DEF k
  <1>2. Chunks(<<k>>, {kind})
    BY <1>1 DEF Chunks, IsList
  <1> QED
    BY <1>2 DEF k

LEMMA NoChunk == \A kinds : Chunks(<<>>, kinds)
  BY DEF Chunks, IsList

\* An event speaks on the chat stream, and so does its end.
LEMMA ChatEventIs ==
  ASSUME NEW old, ChatState(old), NEW e, IsList(e.output), NEW x
  PROVE  Speaks(old, ChatEvent(old, e, x))
  <1> DEFINE first == IF old.started THEN <<>> ELSE <<Chunk("role")>>
             c == [old EXCEPT !.chunks = first, !.started = TRUE]
             failed == [old EXCEPT !.chunks = <<Chunk("error")>>, !.ended = TRUE]
             next == CASE e.type = "failed" -> failed
                       [] e.type \in {"added", "item_done"} ->
                            ChatItem(c, e.index, e.item, e.type = "item_done", x)
                       [] e.type = "delta" -> Grows(c, "text", e.index, e.delta, FALSE)
                       [] e.type = "summary_delta" ->
                            IF x.exclude THEN c ELSE Grows(c, "reasoning", 0, e.delta, FALSE)
                       [] e.type = "args_delta" -> Argues(c, e.index, e.delta, FALSE)
                       [] e.type \in {"completed", "incomplete"} -> ChatEnds(c, e, x)
                       [] OTHER -> c
             wrong == [next EXCEPT !.chunks = <<Chunk("error")>>, !.ended = TRUE]
             after == [old EXCEPT !.chunks = <<>>]
  <1>1. ChatEvent(old, e, x) = IF old.ended THEN after ELSE IF next.ok THEN next ELSE wrong
    BY Zenon DEF ChatEvent
  <1>2. CASE old.ended
    <2>1. ChatEvent(old, e, x) = after
      BY <1>1, <1>2, Zenon
    <2>2. DOMAIN after = ChatFields /\ after.ended = TRUE /\ after.chunks = <<>>
      BY <1>2 DEF ChatState, ChatFields
    <2> HIDE DEF after
    <2> QED
      BY <1>2, <2>1, <2>2, NoChunk DEF Speaks
  <1>3. CASE ~old.ended
    <2>1. ChatEvent(old, e, x) = next \/ ChatEvent(old, e, x) = wrong
      BY <1>1, <1>3, Zenon
    <2>2. ChatGoes(c)
      <3>1. Chunks(first, PlainChunks)
        BY OneChunk, NoChunk DEF Chunks, PlainChunks
      <3> HIDE DEF first
      <3> QED
        BY <1>3, <3>1 DEF ChatState, ChatGoes, ChatFields
    <2>3. DOMAIN failed = ChatFields /\ failed.ended = TRUE /\ Chunks(failed.chunks, {"error"})
      BY OneChunk DEF ChatState, ChatFields
    <2> DEFINE good(n) == /\ DOMAIN n = ChatFields
                          /\ \/ n.ended = FALSE /\ Chunks(n.chunks, PlainChunks)
                             \/ n.ended = TRUE /\ Chunks(n.chunks, {"error"})
                             \/ n.ended = TRUE /\ Chunks(n.chunks, PlainChunks \union {"finish", "usage"})
    <2>4. good(failed)
      BY <2>3
    <2> HIDE DEF c, failed
    <2>5. \A n : ChatGoes(n) => good(n)
      BY DEF ChatGoes
    <2>6. ChatGoes(ChatItem(c, e.index, e.item, e.type = "item_done", x))
      BY <2>2, ChatItemKeeps
    <2>7. /\ ChatGoes(Grows(c, "text", e.index, e.delta, FALSE))
          /\ ChatGoes(Grows(c, "reasoning", 0, e.delta, FALSE))
          /\ ChatGoes(Argues(c, e.index, e.delta, FALSE))
      BY <2>2, GrowsKeeps, ArguesKeeps
    <2>8. good(ChatEnds(c, e, x))
      BY <2>2, ChatEndsIs DEF Spoken
    <2>9. good(next)
      <3>1. next \in {failed, ChatItem(c, e.index, e.item, e.type = "item_done", x),
                      Grows(c, "text", e.index, e.delta, FALSE), c,
                      Grows(c, "reasoning", 0, e.delta, FALSE),
                      Argues(c, e.index, e.delta, FALSE), ChatEnds(c, e, x)}
        <4> HIDE DEF good
        <4> QED
          OBVIOUS
      <3> HIDE DEF next, good
      <3> QED
        BY <2>2, <2>4, <2>5, <2>6, <2>7, <2>8, <3>1
    <2>10. good(wrong)
      <3>1. DOMAIN next = ChatFields
        BY <2>9
      <3> HIDE DEF next
      <3>2. DOMAIN wrong = ChatFields /\ wrong.ended = TRUE /\ wrong.chunks = <<Chunk("error")>>
        BY <3>1 DEF ChatFields
      <3> HIDE DEF wrong
      <3> QED
        BY <3>2, OneChunk
    <2> HIDE DEF next, wrong
    <2> QED
      BY <1>3, <2>1, <2>9, <2>10 DEF Speaks
  <1> QED
    BY <1>2, <1>3

LEMMA ChatEofIs ==
  ASSUME NEW old, ChatState(old)
  PROVE  Speaks(old, ChatEof(old))
  <1>1. Chunks([old EXCEPT !.chunks = <<>>].chunks, {})
    BY NoChunk DEF ChatState, ChatFields
  <1>2. Chunks([old EXCEPT !.chunks = <<Chunk("error")>>, !.ended = TRUE].chunks, {"error"})
    BY OneChunk DEF ChatState, ChatFields
  <1> QED
    BY <1>1, <1>2 DEF ChatEof, Speaks, ChatState, ChatFields

---------------------------------------------------------------------------
(* The Messages stream.                                                    *)
\* Lists of events of given types.
LEMMA AppendTyped ==
  ASSUME NEW types, NEW es, Typed(es, types), NEW e, e.type \in types
  PROVE  Typed(Append(es, e), types)
  <1>1. IsList(es)
    BY DEF Typed
  <1>2. \A i \in DOMAIN Append(es, e) : i \in DOMAIN es \/ i = Len(es) + 1
    BY <1>1, AppendList DEF IsList
  <1> QED
    BY <1>1, <1>2, AppendList DEF Typed

LEMMA JoinTyped ==
  ASSUME NEW types, NEW es, NEW fs, Typed(es, types), Typed(fs, types)
  PROVE  Typed(es \o fs, types)
  <1>1. IsList(es) /\ IsList(fs)
    BY DEF Typed
  <1>2. ASSUME NEW i \in DOMAIN (es \o fs)
        PROVE  (es \o fs)[i].type \in types
    <2>1. CASE i \in DOMAIN es
      BY <1>1, <2>1, JoinList DEF Typed
    <2>2. CASE i \notin DOMAIN es
      <3>1. i - Len(es) \in DOMAIN fs
        BY <1>1, <2>2, JoinList
      <3>2. \A k \in DOMAIN fs : (es \o fs)[Len(es) + k] = fs[k]
        BY <1>1, JoinList
      <3>3. Len(es) + (i - Len(es)) = i
        BY <1>1, JoinList DEF IsList
      <3> QED
        BY <3>1, <3>2, <3>3 DEF Typed
    <2> QED
      BY <2>1, <2>2
  <1> QED
    BY <1>1, <1>2, JoinList DEF Typed

\* The events of a Messages stream.
LEMMA MessageEventIs ==
  ASSUME NEW type, NEW index, NEW x, NEW y
  PROVE  /\ MessageEvent(type, index).type = type
         /\ [MessageEvent(type, index) EXCEPT !.block = x].type = type
         /\ [MessageEvent(type, index) EXCEPT !.text = x].type = type
         /\ [MessageEvent(type, index) EXCEPT !.details = x].type = type
         /\ [MessageEvent(type, index) EXCEPT !.reason = x, !.usage = y].type = type
         /\ [MessageEvent(type, index) EXCEPT !.reason = x, !.usage = y].reason = x
  BY DEF MessageEvent

LEMMA OneTyped ==
  ASSUME NEW e, NEW types, e.type \in types
  PROVE  Typed(<<e>>, types)
  BY DEF Typed, IsList

LEMMA NoneTyped == \A types : Typed(<<>>, types)
  BY DEF Typed, IsList

\* What the operations on the blocks do to a state of either facade.
Blocked(m, fields) == DOMAIN m = fields /\ IsList(m.blocks)
BlockFields == {"started", "ended", "blocks", "events", "usage", "finish"}

\* Blocks are begun, extended and signed.
LEMMA PutsIs ==
  ASSUME NEW fields, BlockFields \subseteq fields, NEW m, Blocked(m, fields), NEW types,
         Typed(m.events, types), NEW e, e.type \in types
  PROVE  /\ Blocked(Puts(m, e), fields) /\ Typed(Puts(m, e).events, types)
         /\ Puts(m, e).blocks = m.blocks
         /\ \A f \in fields \ {"events", "blocks"} : Puts(m, e)[f] = m[f]
  <1>1. Typed(Append(m.events, e), types)
    BY AppendTyped
  <1>2. "events" \in fields /\ "blocks" \in fields
    BY DEF BlockFields
  <1> QED
    BY <1>1, <1>2 DEF Puts, Blocked

LEMMA BeginsIs ==
  ASSUME NEW fields, BlockFields \subseteq fields, NEW m, Blocked(m, fields), NEW types,
         Typed(m.events, types), "block" \in types, NEW block
  PROVE  /\ Blocked(Begins(m, block), fields) /\ Typed(Begins(m, block).events, types)
         /\ \A f \in fields \ {"events", "blocks"} : Begins(m, block)[f] = m[f]
  <1> DEFINE e == [MessageEvent("block", Len(m.blocks) + 1) EXCEPT !.block = block]
             put == Puts(m, e)
             more == Append(put.blocks, block)
  <1>1. e.type \in types
    BY MessageEventIs
  <1> HIDE DEF e
  <1>2. /\ Blocked(put, fields) /\ Typed(put.events, types)
        /\ \A f \in fields \ {"events", "blocks"} : put[f] = m[f]
    BY <1>1, PutsIs
  <1>3. Begins(m, block) = [put EXCEPT !.blocks = more]
    BY Zenon DEF Begins, e
  <1> HIDE DEF put
  <1>4. IsList(more)
    BY <1>2, AppendList DEF Blocked
  <1> HIDE DEF more
  <1>5. "events" \in fields /\ "blocks" \in fields
    BY DEF BlockFields
  <1> QED
    BY <1>2, <1>3, <1>4, <1>5 DEF Blocked

LEMMA ExtendsIs ==
  ASSUME NEW fields, BlockFields \subseteq fields, NEW m, Blocked(m, fields), NEW types,
         Typed(m.events, types), "delta" \in types, NEW index, NEW x
  PROVE  /\ Blocked(Extends(m, index, x), fields) /\ Typed(Extends(m, index, x).events, types)
         /\ \A f \in fields \ {"events", "blocks"} : Extends(m, index, x)[f] = m[f]
  <1> DEFINE e == [MessageEvent("delta", index) EXCEPT !.text = x]
             put == Puts(m, e)
             more == [put.blocks EXCEPT ![index].text = @ \o x]
  <1>1. e.type \in types
    BY MessageEventIs
  <1> HIDE DEF e
  <1>2. /\ Blocked(put, fields) /\ Typed(put.events, types)
        /\ \A f \in fields \ {"events", "blocks"} : put[f] = m[f]
    BY <1>1, PutsIs
  <1>3. Extends(m, index, x) = [put EXCEPT !.blocks[index].text = @ \o x]
    BY Zenon DEF Extends, e
  <1> HIDE DEF put
  <1>4. IsList(more)
    BY <1>2 DEF Blocked, IsList
  <1>5. "events" \in fields /\ "blocks" \in fields
    BY DEF BlockFields
  <1>6. [put EXCEPT !.blocks[index].text = @ \o x] = [put EXCEPT !.blocks = more]
    BY <1>2, <1>5 DEF Blocked
  <1> HIDE DEF more
  <1> QED
    BY <1>2, <1>3, <1>4, <1>5, <1>6, ZenonT(30) DEF Blocked

LEMMA SignsIs ==
  ASSUME NEW fields, BlockFields \subseteq fields, NEW m, Blocked(m, fields), NEW types,
         Typed(m.events, types), "signature" \in types, NEW index, NEW x
  PROVE  /\ Blocked(Signs(m, index, x), fields) /\ Typed(Signs(m, index, x).events, types)
         /\ \A f \in fields \ {"events", "blocks"} : Signs(m, index, x)[f] = m[f]
  <1> DEFINE e == [MessageEvent("signature", index) EXCEPT !.details = x]
             put == Puts(m, e)
             more == [put.blocks EXCEPT ![index].details = x]
  <1>1. e.type \in types
    BY MessageEventIs
  <1> HIDE DEF e
  <1>2. /\ Blocked(put, fields) /\ Typed(put.events, types)
        /\ \A f \in fields \ {"events", "blocks"} : put[f] = m[f]
    BY <1>1, PutsIs
  <1>3. Signs(m, index, x) = [put EXCEPT !.blocks[index].details = x]
    BY Zenon DEF Signs, e
  <1> HIDE DEF put
  <1>4. IsList(more)
    BY <1>2 DEF Blocked, IsList
  <1>5. "events" \in fields /\ "blocks" \in fields
    BY DEF BlockFields
  <1>6. [put EXCEPT !.blocks[index].details = x] = [put EXCEPT !.blocks = more]
    BY <1>2, <1>5 DEF Blocked
  <1> HIDE DEF more
  <1> QED
    BY <1>2, <1>3, <1>4, <1>5, <1>6 DEF Blocked

Finishes == {"none"} \union StopReasons
Composes(n, ended) ==
  /\ Blocked(n, MessageFields) /\ Typed(n.events, PlainEvents)
  /\ n.ended = ended /\ n.finish \in Finishes

\* A Messages stream that goes on.
LEMMA MessageFieldsAre == BlockFields \subseteq MessageFields
  BY DEF BlockFields, MessageFields

LEMMA BeginsComposes ==
  ASSUME NEW n, NEW ended, Composes(n, ended), NEW block
  PROVE  Composes(Begins(n, block), ended)
  <1>1. "ended" \in MessageFields \ {"events", "blocks"} /\ "finish" \in MessageFields \ {"events", "blocks"}
        /\ "block" \in PlainEvents
    BY DEF MessageFields, PlainEvents
  <1> QED
    BY <1>1, BeginsIs, MessageFieldsAre DEF Composes

LEMMA ExtendsComposes ==
  ASSUME NEW n, NEW ended, Composes(n, ended), NEW index, NEW x
  PROVE  Composes(Extends(n, index, x), ended)
  <1>1. "ended" \in MessageFields \ {"events", "blocks"} /\ "finish" \in MessageFields \ {"events", "blocks"}
        /\ "delta" \in PlainEvents
    BY DEF MessageFields, PlainEvents
  <1> QED
    BY <1>1, ExtendsIs, MessageFieldsAre DEF Composes

LEMMA SetMessage ==
  ASSUME NEW n, NEW ended, Composes(n, ended), NEW x
  PROVE  /\ Composes([n EXCEPT !.details = x], ended)
         /\ Composes([n EXCEPT !.details.text = x], ended)
         /\ Composes([n EXCEPT !.details.carrier = x], ended)
         /\ Composes([n EXCEPT !.tools = x], ended)
         /\ Composes([n EXCEPT !.usage = x], ended)
         /\ Composes([n EXCEPT !.thinking = x], ended)
         /\ Composes([n EXCEPT !.text = x], ended)
         /\ x \in Finishes => Composes([n EXCEPT !.finish = x], ended)
  BY DEF Composes, Blocked, MessageFields

LEMMA OpeningComposes ==
  ASSUME NEW n, NEW ended, Composes(n, ended), NEW kind
  PROVE  /\ Composes(Opening(n, "thinking", kind), ended)
         /\ Composes(Opening(n, "text", kind), ended)
  <1> DEFINE begun == Begins(n, Block(kind, <<>>, "", NoId))
  <1>1. Composes(begun, ended)
    BY BeginsComposes
  <1>2. Composes([begun EXCEPT !.thinking = Len(n.blocks) + 1], ended)
    <2> HIDE DEF begun
    <2> QED
      BY <1>1, SetMessage
  <1>3. Composes([begun EXCEPT !.text = Len(n.blocks) + 1], ended)
    <2> HIDE DEF begun
    <2> QED
      BY <1>1, SetMessage
  <1>4. /\ [begun EXCEPT !.thinking = Len(n.blocks) + 1]
             = [begun EXCEPT !["thinking"] = Len(n.blocks) + 1]
        /\ [begun EXCEPT !.text = Len(n.blocks) + 1] = [begun EXCEPT !["text"] = Len(n.blocks) + 1]
    OBVIOUS
  <1>5. Opening(n, "thinking", kind)
          \in {n, [begun EXCEPT !["thinking"] = Len(n.blocks) + 1]}
    BY Zenon DEF Opening
  <1>6. Opening(n, "text", kind) \in {n, [begun EXCEPT !["text"] = Len(n.blocks) + 1]}
    BY Zenon DEF Opening
  <1> HIDE DEF begun
  <1> QED
    BY <1>2, <1>3, <1>4, <1>5, <1>6

\* A refusal is told in one event.
LEMMA RejectsIs ==
  ASSUME NEW fields, BlockFields \subseteq fields, NEW m, Blocked(m, fields)
  PROVE  /\ Blocked(Rejects(m), fields) /\ Rejects(m).ended = TRUE
         /\ Typed(Rejects(m).events, {"error"}) /\ Rejects(m).finish = m.finish
  <1>1. Typed(<<Refused>>, {"error"})
    BY OneTyped, MessageEventIs DEF Refused
  <1>2. {"events", "ended", "blocks", "finish"} \subseteq fields
    BY DEF BlockFields
  <1> QED
    BY <1>1, <1>2 DEF Rejects, Blocked

\* What one chunk makes of a Messages stream.
MessageAnswers(old, new) ==
  /\ MessageState(new)
  /\ \/ ~old.ended /\ ~new.ended /\ Typed(new.events, PlainEvents)
     \/ new.ended /\ Typed(new.events, PlainEvents \union {"error"})

\* A chunk answers on the Messages stream.
LEMMA ComposesAnswers ==
  ASSUME NEW old, MessageState(old), NEW new, Composes(new, old.ended)
  PROVE  MessageAnswers(old, new)
  BY DEF MessageAnswers, MessageState, Composes, Blocked, Typed, Finishes

LEMMA MessageChunkIs ==
  ASSUME NEW old, MessageState(old), NEW k, k.kind = "finish" => k.tool \in Reasons
  PROVE  MessageAnswers(old, MessageChunk(old, k))
  <1> DEFINE first == IF old.started THEN <<>> ELSE <<MessageEvent("start", 0)>>
             begun == [old EXCEPT !.started = TRUE, !.events = first]
             silent == [old EXCEPT !.events = <<>>]
             m1 == Opening(begun, "thinking", "thinking")
             m2 == Opening(begun, "text", "text")
             reasoned == [Extends(m1, m1.thinking, k.text) EXCEPT !.details.text = @ \o k.text]
             detailed == [begun EXCEPT !.details.carrier = k.carrier]
             said == Extends(m2, m2.text, k.text)
             called == [Begins(begun, Block("tool", <<>>, k.tool, k.id))
                          EXCEPT !.tools = Append(@, Len(begun.blocks) + 1)]
             argued == Extends(begun, begun.tools[k.number], k.text)
             finished == [begun EXCEPT !.finish = Stop[k.tool]]
             counted == [begun EXCEPT !.usage = k.usage]
  <1>1. Typed(first, PlainEvents) /\ Typed(<<>>, PlainEvents)
    <2>1. Typed(<<MessageEvent("start", 0)>>, PlainEvents)
      BY OneTyped, MessageEventIs DEF PlainEvents
    <2> QED
      BY <2>1, NoneTyped
  <1>2. Composes(begun, old.ended) /\ Composes(silent, old.ended)
    <2> HIDE DEF first
    <2> QED
      BY <1>1 DEF Composes, MessageState, MessageFields, Blocked, Finishes
  <1> HIDE DEF begun, silent, first
  <1>3. Composes(m1, old.ended) /\ Composes(m2, old.ended)
    BY <1>2, OpeningComposes
  <1> HIDE DEF m1, m2
  <1>4. Composes(reasoned, old.ended)
    <2> DEFINE e == Extends(m1, m1.thinking, k.text)
    <2>1. Composes(e, old.ended)
      BY <1>3, ExtendsComposes
    <2> HIDE DEF e
    <2>2. Composes([e EXCEPT !.details.text = e.details.text \o k.text], old.ended)
      BY <2>1, SetMessage
    <2> QED
      BY <2>2 DEF e
  <1>5. Composes(detailed, old.ended) /\ Composes(counted, old.ended)
    BY <1>2, SetMessage
  <1>6. Composes(said, old.ended) /\ Composes(argued, old.ended)
    BY <1>2, <1>3, ExtendsComposes
  <1>7. Composes(called, old.ended)
    <2> DEFINE b == Begins(begun, Block("tool", <<>>, k.tool, k.id))
    <2>1. Composes(b, old.ended)
      BY <1>2, BeginsComposes
    <2> HIDE DEF b
    <2>2. Composes([b EXCEPT !.tools = Append(b.tools, Len(begun.blocks) + 1)], old.ended)
      BY <2>1, SetMessage
    <2> QED
      BY <2>2 DEF b
  <1>8. k.kind = "finish" => Composes(finished, old.ended)
    <2>1. k.tool \in Reasons => Stop[k.tool] \in Finishes
      BY DEF Reasons, Stop, Finishes, StopReasons
    <2> QED
      BY <1>2, <2>1, SetMessage
  <1>9. MessageAnswers(old, Rejects(old))
    <2>1. Blocked(old, MessageFields)
      BY DEF MessageState, Blocked
    <2>2. /\ Blocked(Rejects(old), MessageFields) /\ Rejects(old).ended = TRUE
          /\ Typed(Rejects(old).events, {"error"}) /\ Rejects(old).finish = old.finish
      BY <2>1, RejectsIs, MessageFieldsAre
    <2> QED
      BY <2>2 DEF MessageAnswers, MessageState, Blocked, Typed
  <1>10. MessageChunk(old, k) = CASE old.ended -> silent
                                  [] k.kind = "error" -> Rejects(old)
                                  [] k.kind = "reasoning" -> reasoned
                                  [] k.kind = "details" -> detailed
                                  [] k.kind = "text" -> said
                                  [] k.kind = "tool" -> called
                                  [] k.kind = "args" -> argued
                                  [] k.kind = "finish" -> finished
                                  [] k.kind = "usage" -> counted
                                  [] OTHER -> begun
    BY Zenon DEF MessageChunk, silent, begun, first, m1, m2
  <1> HIDE DEF reasoned, detailed, said, called, argued, finished, counted
  <1>11. \/ MessageChunk(old, k) \in {silent, Rejects(old), reasoned, detailed, said, called,
                                      argued, counted, begun}
         \/ k.kind = "finish" /\ MessageChunk(old, k) = finished
    BY <1>10
  <1> QED
    BY <1>2, <1>4, <1>5, <1>6, <1>7, <1>8, <1>9, <1>11, ComposesAnswers

---------------------------------------------------------------------------
(* What its end tells.                                                     *)
\* A wire without an error.
LEMMA TypedCommits ==
  ASSUME NEW types, NEW es, Typed(es, types), "error" \notin types, "message_delta" \notin types
  PROVE  Committed(es)
  BY DEF Typed, Committed

LEMMA AppendCommits ==
  ASSUME NEW es, Committed(es), NEW e, e.type # "error",
         e.type = "message_delta" => e.reason # "failed"
  PROVE  Committed(Append(es, e))
  <1>1. IsList(es)
    BY DEF Committed
  <1>2. \A i \in DOMAIN Append(es, e) : i \in DOMAIN es \/ i = Len(es) + 1
    BY <1>1, AppendList DEF IsList
  <1> QED
    BY <1>1, <1>2, AppendList DEF Committed

LEMMA JoinCommits ==
  ASSUME NEW es, NEW fs, Committed(es), Committed(fs)
  PROVE  Committed(es \o fs)
  <1>1. IsList(es) /\ IsList(fs)
    BY DEF Committed
  <1>2. ASSUME NEW i \in DOMAIN (es \o fs)
        PROVE  /\ (es \o fs)[i].type # "error"
               /\ (es \o fs)[i].type = "message_delta" => (es \o fs)[i].reason # "failed"
    <2>1. CASE i \in DOMAIN es
      BY <1>1, <2>1, JoinList DEF Committed
    <2>2. CASE i \notin DOMAIN es
      <3>1. i - Len(es) \in DOMAIN fs
        BY <1>1, <2>2, JoinList
      <3>2. \A k \in DOMAIN fs : (es \o fs)[Len(es) + k] = fs[k]
        BY <1>1, JoinList
      <3>3. Len(es) + (i - Len(es)) = i
        BY <1>1, JoinList DEF IsList
      <3> QED
        BY <3>1, <3>2, <3>3 DEF Committed
    <2> QED
      BY <2>1, <2>2
  <1> QED
    BY <1>1, <1>2, JoinList DEF Committed

\* The blocks are stopped and the message is over.
LEMMA StopsIs ==
  ASSUME NEW fields, BlockFields \subseteq fields, NEW m, Blocked(m, fields),
         Committed(m.events), NEW reason, reason # "failed", NEW usage
  PROVE  /\ Blocked(Stops(m, reason, usage), fields) /\ Committed(Stops(m, reason, usage).events)
         /\ Stops(m, reason, usage).finish = m.finish
  <1> DEFINE stops == [i \in DOMAIN m.blocks |-> MessageEvent("stop", i)]
             told == m.events \o stops
             stopped == [m EXCEPT !.events = told]
             e == [MessageEvent("message_delta", 0) EXCEPT !.reason = reason, !.usage = usage]
             f == MessageEvent("message_stop", 0)
  <1>1. Committed(stops)
    <2>1. \A i : MessageEvent("stop", i).type = "stop"
      BY MessageEventIs
    <2>2. IsList(stops) /\ \A i \in DOMAIN stops : stops[i] = MessageEvent("stop", i)
      BY DEF IsList, Blocked
    <2> HIDE DEF stops
    <2>3. Typed(stops, {"stop"})
      BY <2>1, <2>2 DEF Typed
    <2> QED
      BY <2>3, TypedCommits
  <1> HIDE DEF stops
  <1>2. Committed(told)
    BY <1>1, JoinCommits
  <1> HIDE DEF told
  <1>3. e.type = "message_delta" /\ e.reason = reason /\ f.type = "message_stop"
    BY MessageEventIs
  <1>4. {"events", "blocks", "finish"} \subseteq fields
    BY DEF BlockFields
  <1>5. /\ Stops(m, reason, usage) = Puts(Puts(stopped, e), f)
        /\ Blocked(stopped, fields) /\ stopped.events = told /\ stopped.finish = m.finish
    <2>1. Stops(m, reason, usage) = Puts(Puts(stopped, e), f)
      BY Zenon DEF Stops, told, stops
    <2> QED
      BY <1>4, <2>1 DEF Blocked
  <1> HIDE DEF e, f, stopped
  <1>6. Committed(Append(told, e))
    BY <1>2, <1>3, AppendCommits
  <1>7. Committed(Append(Append(told, e), f))
    BY <1>3, <1>6, AppendCommits
  <1>8. ASSUME NEW n, NEW x, Blocked(n, fields)
        PROVE  /\ Blocked(Puts(n, x), fields)
               /\ Puts(n, x).events = Append(n.events, x) /\ Puts(n, x).finish = n.finish
    BY <1>4, <1>8 DEF Puts, Blocked
  <1> DEFINE put == Puts(stopped, e)
  <1>9. Blocked(put, fields) /\ put.events = Append(told, e) /\ put.finish = m.finish
    BY <1>5, <1>8
  <1>10. Stops(m, reason, usage) = Puts(put, f)
    BY <1>5
  <1> HIDE DEF put
  <1>11. /\ Blocked(Puts(put, f), fields) /\ Puts(put, f).finish = m.finish
         /\ Puts(put, f).events = Append(Append(told, e), f)
    BY <1>8, <1>9
  <1> QED
    BY <1>7, <1>10, <1>11

\* The end of a Messages stream that ran over chat.
LEMMA MessageEofIs ==
  ASSUME NEW old, MessageState(old)
  PROVE  \/ MessageAnswers(old, MessageEof(old)) /\ MessageEof(old).ended
         \/ ~old.ended /\ MessageEof(old).ended /\ Committed(MessageEof(old).events)
  <1> DEFINE m == [old EXCEPT !.events = <<>>]
             signed == CASE m.thinking # 0 -> Signs(m, m.thinking, m.details)
                         [] m.details # NoDetails -> Redacts(m, m.details)
                         [] OTHER -> m
             stopped == Stops(signed, m.finish, m.usage)
             ended == [stopped EXCEPT !.ended = TRUE]
             types == {"block", "signature"}
  <1>1. /\ Blocked(m, MessageFields) /\ m.events = <<>> /\ m.ended = old.ended
        /\ m.finish = old.finish
    BY DEF MessageState, MessageFields, Blocked
  <1>2. MessageEof(old) = CASE old.ended -> m
                            [] m.finish = "none" -> Rejects(m)
                            [] m.thinking # 0 /\ m.details.text # m.blocks[m.thinking].text -> Rejects(m)
                            [] OTHER -> ended
    BY Zenon DEF MessageEof
  <1> HIDE DEF m
  <1>3. MessageAnswers(old, Rejects(m)) /\ Rejects(m).ended
    <2>1. /\ Blocked(Rejects(m), MessageFields) /\ Rejects(m).ended = TRUE
          /\ Typed(Rejects(m).events, {"error"}) /\ Rejects(m).finish = m.finish
      BY <1>1, RejectsIs, MessageFieldsAre
    <2> QED
      BY <1>1, <2>1 DEF MessageAnswers, MessageState, Blocked, Typed
  <1>4. old.ended => MessageAnswers(old, m) /\ m.ended
    BY <1>1, NoneTyped DEF MessageAnswers, MessageState, Blocked
  <1>5. Blocked(signed, MessageFields) /\ Typed(signed.events, types)
    <2> DEFINE block == Signed(Block("redacted", <<>>, "", NoId), m.details)
    <2>1. Typed(m.events, types) /\ "block" \in types /\ "signature" \in types
      BY <1>1, NoneTyped
    <2> HIDE DEF types
    <2>2. /\ Blocked(Signs(m, m.thinking, m.details), MessageFields)
          /\ Typed(Signs(m, m.thinking, m.details).events, types)
      BY <1>1, <2>1, SignsIs, MessageFieldsAre
    <2>3. /\ Blocked(Begins(m, block), MessageFields)
          /\ Typed(Begins(m, block).events, types)
      <3> HIDE DEF block
      <3> QED
        BY <1>1, <2>1, BeginsIs, MessageFieldsAre
    <2>4. signed \in {Signs(m, m.thinking, m.details), Begins(m, block), m}
      BY DEF Redacts
    <2> HIDE DEF signed, block
    <2> QED
      BY <1>1, <2>1, <2>2, <2>3, <2>4
  <1>6. Committed(signed.events)
    BY <1>5, TypedCommits
  <1> HIDE DEF signed
  <1>7. m.finish # "none" => Blocked(ended, MessageFields) /\ Committed(ended.events) /\ ended.ended
    <2> SUFFICES ASSUME m.finish # "none"
                 PROVE  Blocked(ended, MessageFields) /\ Committed(ended.events) /\ ended.ended
      OBVIOUS
    <2>1. m.finish # "failed"
      BY <1>1 DEF MessageState, StopReasons
    <2>2. Blocked(stopped, MessageFields) /\ Committed(stopped.events)
      BY <1>5, <1>6, <2>1, StopsIs, MessageFieldsAre
    <2> HIDE DEF stopped
    <2> QED
      BY <2>2, MessageFieldsAre DEF Blocked, BlockFields
  <1> HIDE DEF ended
  <1>8. \/ old.ended /\ MessageEof(old) = m
        \/ MessageEof(old) = Rejects(m)
        \/ ~old.ended /\ m.finish # "none" /\ MessageEof(old) = ended
    BY <1>2
  <1> QED
    BY <1>3, <1>4, <1>7, <1>8

\* A wire that the events of one step are added to.
LEMMA AddsIs ==
  ASSUME NEW o, DOMAIN o = OutFields, MessagesGo(o), NEW m, MessageAnswers(o.messages, m)
  PROVE  DOMAIN Adds(o, m) = OutFields /\ MessagesGo(Adds(o, m)) /\ Adds(o, m).chat = o.chat
  <1> DEFINE wire == o.wire \o m.events
  <1>1. /\ DOMAIN Adds(o, m) = OutFields /\ Adds(o, m).chat = o.chat
        /\ Adds(o, m).messages = m /\ Adds(o, m).wire = wire
    BY DEF Adds, OutFields
  <1>2. CASE ~m.ended
    <2>1. Typed(o.wire, PlainEvents) /\ Typed(m.events, PlainEvents)
      BY <1>2 DEF MessagesGo, MessageAnswers
    <2>2. Typed(wire, PlainEvents)
      BY <2>1, JoinTyped
    <2> HIDE DEF wire
    <2> QED
      BY <1>1, <1>2, <2>2 DEF MessagesGo, MessageAnswers
  <1>3. CASE m.ended
    <2>1. /\ Typed(o.wire, PlainEvents \union {"error"})
          /\ Typed(m.events, PlainEvents \union {"error"})
      BY <1>3 DEF MessagesGo, MessageAnswers, Typed
    <2>2. Typed(wire, PlainEvents \union {"error"})
      BY <2>1, JoinTyped
    <2> HIDE DEF wire
    <2> QED
      BY <1>1, <1>3, <2>2 DEF MessagesGo, MessageAnswers
  <1> QED
    BY <1>2, <1>3

\* One chunk passed on.
LEMMA PassChunkKeeps ==
  ASSUME NEW a, NEW i \in 1..Len(a.chat.chunks), NEW o, Passing(a, i - 1, o), IsList(a.wire),
         NEW kinds, Chunks(a.chat.chunks, kinds)
  PROVE  Passing(a, i, PassChunk(o, a.chat.chunks[i]))
  <1> DEFINE k == a.chat.chunks[i]
  <1>1. k.kind = "finish" => k.tool \in Reasons
    BY DEF Chunks, IsList
  <1>2. CASE P.shape = "chat"
    <2> DEFINE wire == Append(o.wire, k)
    <2>1. PassChunk(o, k) = [o EXCEPT !.wire = wire]
      BY <1>2 DEF PassChunk
    <2>2. DOMAIN o = OutFields /\ o.chat = a.chat /\ Extended(o.wire, a.wire, a.chat.chunks, i - 1)
      BY <1>2 DEF Passing
    <2>3. /\ DOMAIN PassChunk(o, k) = OutFields /\ PassChunk(o, k).chat = a.chat
          /\ PassChunk(o, k).wire = wire
      BY <2>1, <2>2 DEF OutFields
    <2>4. /\ IsList(wire) /\ Len(wire) = Len(o.wire) + 1 /\ wire[Len(o.wire) + 1] = k
          /\ \A j \in DOMAIN o.wire : wire[j] = o.wire[j]
      BY <2>2, AppendList DEF Extended
    <2> HIDE DEF wire
    <2>5. Len(o.wire) = Len(a.wire) + (i - 1) /\ DOMAIN o.wire = 1..Len(o.wire)
          /\ Len(a.wire) \in Nat /\ DOMAIN a.wire = 1..Len(a.wire) /\ i \in Nat
      BY <2>2 DEF Extended, IsList, Chunks
    <2>6. Extended(wire, a.wire, a.chat.chunks, i)
      <3>1. Len(wire) = Len(a.wire) + i
        BY <2>4, <2>5
      <3>2. \A j \in DOMAIN a.wire : wire[j] = a.wire[j]
        BY <2>2, <2>4, <2>5 DEF Extended
      <3>3. ASSUME NEW j \in 1..i PROVE wire[Len(a.wire) + j] = a.chat.chunks[j]
        <4>1. CASE j = i
          BY <2>4, <2>5, <4>1
        <4>2. CASE j # i
          <5>1. j \in 1..i - 1 /\ Len(a.wire) + j \in DOMAIN o.wire
            BY <2>5, <4>2
          <5> QED
            BY <2>2, <2>4, <5>1 DEF Extended
        <4> QED
          BY <4>1, <4>2
      <3> QED
        BY <2>4, <3>1, <3>2, <3>3 DEF Extended
    <2> QED
      BY <1>2, <2>3, <2>6 DEF Passing
  <1>3. CASE P.shape # "chat"
    <2>1. PassChunk(o, k) = Adds(o, MessageChunk(o.messages, k))
      BY <1>3 DEF PassChunk
    <2>2. DOMAIN o = OutFields /\ o.chat = a.chat /\ MessagesGo(o)
      BY <1>3 DEF Passing
    <2>3. MessageAnswers(o.messages, MessageChunk(o.messages, k))
      BY <1>1, <2>2, MessageChunkIs DEF MessagesGo
    <2> QED
      BY <1>3, <2>1, <2>2, <2>3, AddsIs DEF Passing
  <1> QED
    BY <1>2, <1>3

---------------------------------------------------------------------------
(* Events and chunks passed on.                                            *)
\* A chunk after the other is passed on.
LEMMA ChunksPass ==
  ASSUME NEW o, DOMAIN o = OutFields, IsList(o.wire), P.shape # "chat" => MessagesGo(o),
         NEW c, NEW kinds, Chunks(c.chunks, kinds)
  PROVE  Passing([wire |-> o.wire, chat |-> c], Len(c.chunks), PassChunks(o, c))
  <1> DEFINE a == [wire |-> o.wire, chat |-> c]
             base == [o EXCEPT !.chat = c]
             seq == c.chunks
             Is(F) == F = [S \in SUBSET (DOMAIN seq) |->
                             IF S = {} THEN base ELSE PassChunk(F[S \ {Max(S)}], seq[Max(S)])]
             G == CHOOSE F : Is(F)
  <1>1. PassChunks(o, c) = G[DOMAIN seq]
    BY Zenon DEF PassChunks, FoldLeft, MapThenFoldSet
  <1>2. IsList(seq) /\ a.wire = o.wire /\ a.chat = c /\ a.chat.chunks = seq
    BY DEF Chunks
  <1>3. Passing(a, 0, base)
    <2>1. DOMAIN base = OutFields /\ base.chat = a.chat /\ base.wire = o.wire
          /\ base.messages = o.messages
      BY DEF OutFields
    <2>2. Extended(o.wire, o.wire, a.chat.chunks, 0)
      BY DEF Extended, IsList
    <2>3. P.shape # "chat" => MessagesGo(base)
      BY <2>1 DEF MessagesGo
    <2> HIDE DEF base
    <2> QED
      BY <1>2, <2>1, <2>2, <2>3 DEF Passing
  <1> HIDE DEF a, base, seq
  <1>4. PICK F : Folds(F, "chunk", a, base, seq)
    BY <1>2, FoldExists
  <1>5. \A u, x : Step("chunk", a, u, x) = PassChunk(u, x)
    BY DEF Step
  <1>6. Is(F)
    BY <1>4, <1>5, Zenon DEF Folds
  <1>7. Is(G)
    BY <1>6, Zenon
  <1>8. Folds(G, "chunk", a, base, seq)
    BY <1>5, <1>7, Zenon DEF Folds
  <1> HIDE DEF G
  <1>9. Good("chunk", a, 0, base)
    BY <1>3 DEF Good
  <1>10. ASSUME NEW i \in 1..Len(seq), NEW u, Good("chunk", a, i - 1, u)
         PROVE  Good("chunk", a, i, Step("chunk", a, u, seq[i]))
    <2>1. Passing(a, i - 1, u)
      BY <1>10 DEF Good
    <2>2. Chunks(a.chat.chunks, kinds) /\ IsList(a.wire)
      BY <1>2 DEF seq
    <2>3. Passing(a, i, PassChunk(u, seq[i]))
      BY <1>2, <2>1, <2>2, PassChunkKeeps
    <2> QED
      BY <1>5, <2>3 DEF Good
  <1>11. Good("chunk", a, Len(seq), G[DOMAIN seq])
    BY <1>2, <1>8, <1>9, <1>10, FoldGood
  <1>12. Passing(a, Len(seq), G[DOMAIN seq])
    BY <1>11 DEF Good
  <1> QED
    BY <1>1, <1>12 DEF a, seq

\* What the client of a chat stream has been sent.
LEMMA ExtendedChunks ==
  ASSUME NEW kinds, NEW before, NEW cs, Chunks(before, kinds), Chunks(cs, kinds),
         NEW wire, Extended(wire, before, cs, Len(cs))
  PROVE  Chunks(wire, kinds)
  <1>1. /\ IsList(wire) /\ Len(wire) = Len(before) + Len(cs)
        /\ \A k \in DOMAIN before : wire[k] = before[k]
        /\ \A k \in 1..Len(cs) : wire[Len(before) + k] = cs[k]
    BY DEF Extended
  <1>2. IsList(before) /\ IsList(cs)
    BY DEF Chunks
  <1>3. ASSUME NEW i \in DOMAIN wire
        PROVE  wire[i].kind \in kinds /\ (wire[i].kind = "finish" => wire[i].tool \in Reasons)
    <2>1. CASE i \in DOMAIN before
      BY <1>1, <2>1 DEF Chunks
    <2>2. CASE i \notin DOMAIN before
      <3>1. i - Len(before) \in 1..Len(cs) /\ Len(before) + (i - Len(before)) = i
            /\ DOMAIN cs = 1..Len(cs)
        BY <1>1, <1>2, <2>2 DEF IsList
      <3> QED
        BY <1>1, <3>1 DEF Chunks
    <2> QED
      BY <2>1, <2>2
  <1> QED
    BY <1>1, <1>3 DEF Chunks

LEMMA WiderChunks ==
  ASSUME NEW kinds, NEW more, kinds \subseteq more, NEW cs, Chunks(cs, kinds)
  PROVE  Chunks(cs, more)
  BY DEF Chunks

LEMMA SpeaksFine ==
  ASSUME NEW o, ChatState(o.chat), ChatFine(o), NEW n, Speaks(o.chat, n.chat),
         Extended(n.wire, o.wire, n.chat.chunks, Len(n.chat.chunks))
  PROVE  ChatFine(n) /\ ChatState(n.chat)
  <1> DEFINE errors == PlainChunks \union {"error"}
             ends == PlainChunks \union {"finish", "usage"}
             cs == n.chat.chunks
  <1>1. {} \subseteq errors /\ {} \subseteq ends /\ PlainChunks \subseteq errors
        /\ PlainChunks \subseteq ends /\ {"error"} \subseteq errors
    OBVIOUS
  <1> HIDE DEF errors, ends
  <1>2. CASE o.chat.ended
    <2>1. n.chat.ended = TRUE /\ Chunks(cs, {}) /\ DOMAIN n.chat = ChatFields
      BY <1>2 DEF Speaks
    <2>2. Chunks(cs, errors) /\ Chunks(cs, ends)
      BY <1>1, <2>1, WiderChunks
    <2>3. Chunks(o.wire, errors) \/ Chunks(o.wire, ends)
      BY <1>2 DEF ChatFine, errors, ends
    <2>4. Chunks(n.wire, errors) \/ Chunks(n.wire, ends)
      BY <2>2, <2>3, ExtendedChunks
    <2> QED
      BY <2>1, <2>4 DEF ChatFine, ChatState, errors, ends
  <1>3. CASE ~o.chat.ended
    <2>1. Chunks(o.wire, PlainChunks)
      BY <1>3 DEF ChatFine
    <2>2. Chunks(o.wire, errors) /\ Chunks(o.wire, ends)
      BY <1>1, <2>1, WiderChunks
    <2>3. CASE n.chat.ended = FALSE /\ Chunks(cs, PlainChunks)
      BY <2>1, <2>3, ExtendedChunks DEF ChatFine, ChatState, Speaks
    <2>4. CASE n.chat.ended = TRUE /\ Chunks(cs, {"error"})
      <3>1. Chunks(n.wire, errors)
        BY <1>1, <2>2, <2>4, WiderChunks, ExtendedChunks
      <3> QED
        BY <2>4, <3>1 DEF ChatFine, ChatState, Speaks, errors
    <2>5. CASE n.chat.ended = TRUE /\ Chunks(cs, ends)
      <3>1. Chunks(n.wire, ends)
        BY <2>2, <2>5, ExtendedChunks
      <3> QED
        BY <2>5, <3>1 DEF ChatFine, ChatState, Speaks, ends
    <2> QED
      BY <1>3, <2>3, <2>4, <2>5 DEF Speaks, ends
  <1> QED
    BY <1>2, <1>3 DEF ChatState

LEMMA SpeaksChunks ==
  ASSUME NEW old, NEW new, Speaks(old, new)
  PROVE  \E kinds : Chunks(new.chunks, kinds)
  BY DEF Speaks

\* What the facades tell of what the chat stream makes of an event, or of its end.
LEMMA PassesOn ==
  ASSUME NEW o, OutState(o), NEW c, Speaks(o.chat, c), P.shape # "responses",
         IF P.shape = "chat" THEN ChatFine(o) ELSE MessagesGo(o)
  PROVE  /\ OutState(PassChunks(o, c))
         /\ IF P.shape = "chat" THEN ChatFine(PassChunks(o, c)) ELSE MessagesGo(PassChunks(o, c))
  <1> DEFINE a == [wire |-> o.wire, chat |-> c]
             n == PassChunks(o, c)
  <1>1. PICK kinds : Chunks(c.chunks, kinds)
    BY SpeaksChunks
  <1>2. DOMAIN o = OutFields /\ ChatState(o.chat)
    BY DEF OutState
  <1>3. IsList(o.wire)
    BY DEF ChatFine, MessagesGo, Chunks, Typed
  <1>4. Passing(a, Len(c.chunks), n)
    BY <1>1, <1>2, <1>3, ChunksPass
  <1>5. a.wire = o.wire /\ a.chat = c
    OBVIOUS
  <1> HIDE DEF a, n
  <1>6. /\ DOMAIN n = OutFields /\ n.chat = c
        /\ IF P.shape = "chat" THEN Extended(n.wire, o.wire, c.chunks, Len(c.chunks))
           ELSE MessagesGo(n)
    BY <1>4, <1>5 DEF Passing
  <1>7. ChatState(c)
    BY <1>2 DEF Speaks, ChatState
  <1>8. OutState(n)
    BY <1>6, <1>7 DEF OutState
  <1>9. CASE P.shape = "chat"
    BY <1>2, <1>6, <1>8, <1>9, SpeaksFine DEF n
  <1>10. CASE P.shape # "chat"
    BY <1>6, <1>8, <1>10 DEF n
  <1> QED
    BY <1>9, <1>10

\* An event after the other is passed on.
LEMMA PassEventKeeps ==
  ASSUME NEW a, IsList(a.wire), IsList(a.events), NEW i \in 1..Len(a.events),
         IsEvent(a.events[i]), NEW o, Telling(a, i - 1, o)
  PROVE  Telling(a, i, PassEvent(o, a.events[i]))
  <1> DEFINE e == a.events[i]
  <1>1. CASE P.shape = "responses"
    <2> DEFINE wire == Append(o.wire, e)
    <2>1. PassEvent(o, e) = [o EXCEPT !.wire = wire]
      BY <1>1 DEF PassEvent
    <2>2. OutState(o) /\ Extended(o.wire, a.wire, a.events, i - 1)
      BY <1>1 DEF Telling
    <2>3. OutState(PassEvent(o, e)) /\ PassEvent(o, e).wire = wire
      BY <2>1, <2>2 DEF OutState, OutFields
    <2>4. /\ IsList(wire) /\ Len(wire) = Len(o.wire) + 1 /\ wire[Len(o.wire) + 1] = e
          /\ \A j \in DOMAIN o.wire : wire[j] = o.wire[j]
      BY <2>2, AppendList DEF Extended
    <2> HIDE DEF wire
    <2>5. Len(o.wire) = Len(a.wire) + (i - 1) /\ DOMAIN o.wire = 1..Len(o.wire)
          /\ Len(a.wire) \in Nat /\ DOMAIN a.wire = 1..Len(a.wire) /\ i \in Nat
      BY <2>2 DEF Extended, IsList
    <2>6. Extended(wire, a.wire, a.events, i)
      <3>1. Len(wire) = Len(a.wire) + i
        BY <2>4, <2>5
      <3>2. \A j \in DOMAIN a.wire : wire[j] = a.wire[j]
        BY <2>2, <2>4, <2>5 DEF Extended
      <3>3. ASSUME NEW j \in 1..i PROVE wire[Len(a.wire) + j] = a.events[j]
        <4>1. CASE j = i
          BY <2>4, <2>5, <4>1
        <4>2. CASE j # i
          <5>1. j \in 1..i - 1 /\ Len(a.wire) + j \in DOMAIN o.wire
            BY <2>5, <4>2
          <5> QED
            BY <2>2, <2>4, <5>1 DEF Extended
        <4> QED
          BY <4>1, <4>2
      <3> QED
        BY <2>4, <3>1, <3>2, <3>3 DEF Extended
    <2> QED
      BY <1>1, <2>3, <2>6 DEF Telling
  <1>2. CASE P.shape # "responses"
    <2> DEFINE c == ChatEvent(o.chat, e, P.x)
    <2>1. PassEvent(o, e) = PassChunks(o, c)
      BY <1>2 DEF PassEvent
    <2>2. OutState(o) /\ IF P.shape = "chat" THEN ChatFine(o) ELSE MessagesGo(o)
      BY <1>2 DEF Telling
    <2>3. Speaks(o.chat, c)
      BY <2>2, ChatEventIs DEF OutState, IsEvent
    <2> HIDE DEF c, e
    <2>4. /\ OutState(PassChunks(o, c))
          /\ IF P.shape = "chat" THEN ChatFine(PassChunks(o, c)) ELSE MessagesGo(PassChunks(o, c))
      BY <1>2, <2>2, <2>3, PassesOn
    <2> QED
      BY <1>2, <2>1, <2>4 DEF Telling, e
  <1> QED
    BY <1>1, <1>2

Events(es) == IsList(es) /\ \A i \in DOMAIN es : IsEvent(es[i])
Going(o) ==
  /\ OutState(o) /\ IsList(o.wire)
  /\ P.shape = "chat" => ChatFine(o)
  /\ P.shape \notin {"responses", "chat"} => MessagesGo(o)

\* Passed tells all of its events.
LEMMA PassedIs ==
  ASSUME Going(out), NEW events, Events(events)
  PROVE  Telling([wire |-> out.wire, events |-> events], Len(events), Passed(events))
  <1> DEFINE a == [wire |-> out.wire, events |-> events]
             Is(F) == F = [S \in SUBSET (DOMAIN events) |->
                             IF S = {} THEN out ELSE PassEvent(F[S \ {Max(S)}], events[Max(S)])]
             G == CHOOSE F : Is(F)
  <1>1. Passed(events) = G[DOMAIN events]
    BY Zenon DEF Passed, FoldLeft, MapThenFoldSet
  <1>2. IsList(events) /\ a.wire = out.wire /\ a.events = events
    BY DEF Events
  <1> HIDE DEF a
  <1>3. Telling(a, 0, out)
    <2>1. Extended(out.wire, a.wire, a.events, 0)
      BY <1>2 DEF Going, Extended, IsList
    <2> QED
      BY <2>1 DEF Telling, Going
  <1>4. PICK F : Folds(F, "event", a, out, events)
    BY <1>2, FoldExists
  <1>5. \A u, x : Step("event", a, u, x) = PassEvent(u, x)
    BY DEF Step
  <1>6. Is(F)
    BY <1>4, <1>5, Zenon DEF Folds
  <1>7. Is(G)
    BY <1>6, Zenon
  <1>8. Folds(G, "event", a, out, events)
    BY <1>5, <1>7, Zenon DEF Folds
  <1> HIDE DEF G
  <1>9. Good("event", a, 0, out)
    BY <1>3 DEF Good
  <1>10. ASSUME NEW i \in 1..Len(events), NEW u, Good("event", a, i - 1, u)
         PROVE  Good("event", a, i, Step("event", a, u, events[i]))
    <2>1. Telling(a, i - 1, u)
      BY <1>10 DEF Good
    <2>2. IsList(a.wire) /\ IsList(a.events) /\ IsEvent(a.events[i])
      BY <1>2 DEF Going, Events, IsList
    <2>3. Telling(a, i, PassEvent(u, a.events[i]))
      BY <1>2, <2>1, <2>2, PassEventKeeps
    <2> QED
      BY <1>2, <1>5, <2>3 DEF Good
  <1>11. Good("event", a, Len(events), G[DOMAIN events])
    BY <1>2, <1>8, <1>9, <1>10, FoldGood
  <1>12. Telling(a, Len(events), G[DOMAIN events])
    BY <1>11 DEF Good
  <1> QED
    BY <1>1, <1>12 DEF a

---------------------------------------------------------------------------
(* What a client makes of its wire.                                        *)
BlocksFine(wire) == Typed(wire, PlainEvents \union {"error"}) \/ Committed(wire)

\* The end of each facade.
LEMMA PassEofIs ==
  ASSUME NEW o, Going(o)
  PROVE  /\ P.shape = "responses" => PassEof(o) = o
         /\ P.shape = "chat" => ChatFine(PassEof(o))
         /\ P.shape = "messages" => BlocksFine(PassEof(o).wire)
  <1> DEFINE c == ChatEof(o.chat)
             n == PassChunks(o, c)
  <1>1. CASE P.shape = "responses"
    BY <1>1 DEF PassEof
  <1>2. CASE P.shape \in {"chat", "messages"}
    <2>1. Speaks(o.chat, c)
      BY ChatEofIs DEF Going, OutState
    <2>2. OutState(o) /\ IF P.shape = "chat" THEN ChatFine(o) ELSE MessagesGo(o)
      BY <1>2 DEF Going
    <2> HIDE DEF c
    <2>3. OutState(n) /\ IF P.shape = "chat" THEN ChatFine(n) ELSE MessagesGo(n)
      BY <1>2, <2>1, <2>2, PassesOn
    <2>4. PassEof(o) = EndMessages(n)
      BY <1>2 DEF PassEof, c
    <2> HIDE DEF n
    <2>5. CASE P.shape = "chat"
      BY <2>3, <2>4, <2>5 DEF EndMessages
    <2>6. CASE P.shape = "messages"
      <3> DEFINE m == MessageEof(n.messages)
                 wire == n.wire \o m.events
      <3>1. MessagesGo(n) /\ DOMAIN n = OutFields /\ MessageState(n.messages)
        BY <2>3, <2>6 DEF OutState, MessagesGo
      <3>2. PassEof(o) = Adds(n, m)
        BY <2>4, <2>6 DEF EndMessages
      <3>3. \/ MessageAnswers(n.messages, m) /\ m.ended
            \/ ~n.messages.ended /\ m.ended /\ Committed(m.events)
        BY <3>1, MessageEofIs
      <3> HIDE DEF m
      <3>4. CASE MessageAnswers(n.messages, m) /\ m.ended
        <4>1. MessagesGo(Adds(n, m))
          BY <3>1, <3>4, AddsIs
        <4>2. Typed(Adds(n, m).wire, PlainEvents \union {"error"})
          BY <4>1 DEF MessagesGo, Typed
        <4> QED
          BY <2>6, <3>2, <4>2 DEF BlocksFine
      <3>5. CASE ~n.messages.ended /\ m.ended /\ Committed(m.events)
        <4>1. Typed(n.wire, PlainEvents)
          BY <3>1, <3>5 DEF MessagesGo
        <4>2. Committed(n.wire)
          BY <4>1, TypedCommits DEF PlainEvents
        <4>3. Committed(wire)
          BY <3>5, <4>2, JoinCommits
        <4>4. Adds(n, m).wire = wire
          BY <3>1 DEF Adds, OutFields
        <4> QED
          BY <2>6, <3>2, <4>3, <4>4 DEF BlocksFine
      <3> QED
        BY <3>3, <3>4, <3>5
    <2> QED
      BY <1>2, <2>5, <2>6
  <1> QED
    BY <1>1, <1>2

---------------------------------------------------------------------------
\* A chat client that takes the reply for failed has seen no finish.
LEMMA MessageFailed ==
  ASSUME NEW o, ChatFine(o), MessageOf(o.wire).status = "failed"
  PROVE  \A i \in DOMAIN o.wire : o.wire[i].kind \notin {"finish", "usage"}
  <1> DEFINE wire == o.wire
             I == {i \in 1..Len(wire) : wire[i].kind \in {"finish", "error"}}
             finish == SelectInSeq(wire, LAMBDA k : k.kind \in {"finish", "error"})
  <1>1. IsList(wire)
    BY DEF ChatFine, Chunks
  <1>2. finish = IF I # {} THEN Min(I) ELSE 0
    BY Zenon DEF SelectInSeq
  <1>3. I # {} => Min(I) \in I
    <2>1. Len(wire) \in Nat /\ I \in SUBSET (1..Len(wire))
      BY <1>1 DEF IsList
    <2> HIDE DEF I
    <2> QED
      BY <2>1, First
  <1>4. PICK message, usage :
          MessageOf(wire) = IF finish = 0 THEN NoReply
                            ELSE IF wire[finish].kind = "error" THEN [NoReply EXCEPT !.status = "failed"]
                            ELSE [status |-> wire[finish].tool, kept |-> <<message>>, usage |-> usage]
    BY Zenon DEF MessageOf
  <1>5. finish # 0 /\ finish \in DOMAIN wire /\ wire[finish].kind \in {"finish", "error"}
    <2>1. finish # 0
      BY <1>4 DEF NoReply
    <2> HIDE DEF finish
    <2> QED
      BY <1>1, <1>2, <1>3, <2>1 DEF IsList
  <1>6. wire[finish].kind = "error" \/ wire[finish].tool = "failed"
    <2> HIDE DEF finish
    <2> QED
      BY <1>4, <1>5
  <1> HIDE DEF finish, wire
  <1>7. \E kinds : Chunks(wire, kinds)
    BY DEF ChatFine, wire
  <1>8. wire[finish].kind = "error"
    BY <1>5, <1>6, <1>7 DEF Chunks, Reasons
  <1>9. Chunks(wire, PlainChunks \union {"error"})
    BY <1>5, <1>8 DEF ChatFine, Chunks, PlainChunks, wire
  <1> QED
    BY <1>9 DEF Chunks, PlainChunks, wire

\* A Messages client that takes the reply for failed has seen no block stopped or signed.
LEMMA BlocksFailed ==
  ASSUME NEW wire, BlocksFine(wire), BlocksOf(wire).status = "failed"
  PROVE  \A i \in DOMAIN wire :
           wire[i].type \notin {"message_stop", "message_delta", "signature", "stop"}
  <1> DEFINE I == {i \in 1..Len(wire) : wire[i].type = "message_delta"}
             delta == SelectInSeq(wire, LAMBDA e : e.type = "message_delta")
  <1>1. IsList(wire)
    BY DEF BlocksFine, Typed, Committed
  <1>2. delta = IF I # {} THEN Min(I) ELSE 0
    BY Zenon DEF SelectInSeq
  <1>3. I # {} => Min(I) \in I
    <2>1. Len(wire) \in Nat /\ I \in SUBSET (1..Len(wire))
      BY <1>1 DEF IsList
    <2> HIDE DEF I
    <2> QED
      BY <2>1, First
  <1>4. PICK kept :
          BlocksOf(wire) = CASE wire = <<>> -> NoReply
                             [] Last(wire).type = "error" -> [NoReply EXCEPT !.status = "failed"]
                             [] delta = 0 -> NoReply
                             [] OTHER -> [status |-> wire[delta].reason, usage |-> wire[delta].usage,
                                          kept |-> kept]
    BY Zenon DEF BlocksOf
  <1>5. delta # 0 => delta \in DOMAIN wire /\ wire[delta].type = "message_delta"
    <2> HIDE DEF delta
    <2> QED
      BY <1>1, <1>2, <1>3 DEF IsList
  <1> HIDE DEF delta
  <1>6. CASE Typed(wire, PlainEvents \union {"error"})
    BY <1>6 DEF Typed, PlainEvents
  <1>7. CASE Committed(wire)
    <2>1. Last(wire).type # "error" \/ wire = <<>>
      <3>1. Len(wire) > 0 => Len(wire) \in DOMAIN wire
        BY <1>1 DEF IsList
      <3>2. Len(wire) > 0 => Last(wire).type # "error"
        BY <1>7, <3>1 DEF Committed, Last
      <3>3. Len(wire) = 0 => DOMAIN wire = {}
        BY <1>1 DEF IsList
      <3> QED
        BY <1>1, <1>7, <3>2, <3>3 DEF IsList
    <2>2. delta # 0 => wire[delta].reason # "failed"
      BY <1>5, <1>7 DEF Committed
    <2> QED
      BY <1>4, <2>1, <2>2 DEF NoReply
  <1> QED
    BY <1>6, <1>7 DEF BlocksFine

DoneOf(wire) == Only(wire, LAMBDA e : e.type = "item_done")

\* The items a client was told are done.
LEMMA DoneOfIs ==
  ASSUME NEW wire, IsList(wire)
  PROVE  Lasts(DoneOf(wire), wire, Len(wire))
  <1> DEFINE one(u, x) == IF x.type = "item_done" THEN Append(u, x) ELSE u
             Is(F) == F = [S \in SUBSET (DOMAIN wire) |->
                             IF S = {} THEN <<>> ELSE one(F[S \ {Max(S)}], wire[Max(S)])]
             G == CHOOSE F : Is(F)
  <1>1. DoneOf(wire) = G[DOMAIN wire]
    BY Zenon DEF DoneOf, Only, FoldLeft, MapThenFoldSet
  <1>2. PICK F : Folds(F, "done", wire, <<>>, wire)
    BY FoldExists
  <1>3. \A u, x : Step("done", wire, u, x) = one(u, x)
    BY DEF Step
  <1> HIDE DEF one
  <1>4. Is(F)
    BY <1>2, <1>3, Zenon DEF Folds
  <1>5. Is(G)
    BY <1>4, Zenon
  <1> HIDE DEF G
  <1>6. Folds(G, "done", wire, <<>>, wire)
    BY <1>3, <1>5, Zenon DEF Folds
  <1>7. Good("done", wire, 0, <<>>)
    <2>1. Lasts(<<>>, wire, 0)
      BY DEF Lasts, IsList
    <2> QED
      BY <2>1 DEF Good
  <1>8. ASSUME NEW i \in 1..Len(wire), NEW u, Good("done", wire, i - 1, u)
        PROVE  Good("done", wire, i, Step("done", wire, u, wire[i]))
    <2>1. Lasts(u, wire, i - 1) /\ i \in Nat /\ (i - 1) + 1 = i
      BY <1>8 DEF Good, IsList
    <2>2. CASE wire[i].type = "item_done"
      <3>1. one(u, wire[i]) = Append(u, wire[i])
        BY <2>2 DEF one
      <3>2. /\ IsList(Append(u, wire[i])) /\ Len(Append(u, wire[i])) = Len(u) + 1
            /\ Append(u, wire[i])[Len(u) + 1] = wire[i] /\ Len(u) \in Nat
        BY <2>1, AppendList DEF Lasts, IsList
      <3> DEFINE more == Append(u, wire[i])
      <3> HIDE DEF more
      <3>3. Lasts(more, wire, i)
        BY <2>1, <2>2, <3>2 DEF Lasts, more
      <3> QED
        BY <1>3, <3>1, <3>3 DEF Good, more
    <2>3. CASE wire[i].type # "item_done"
      <3>1. one(u, wire[i]) = u
        BY <2>3 DEF one
      <3>2. Len(u) \in Nat
        BY <2>1 DEF Lasts, IsList
      <3>3. Lasts(u, wire, i)
        BY <2>1, <2>3, <3>2, SMTT(30) DEF Lasts
      <3> QED
        BY <1>3, <3>1, <3>3 DEF Good
    <2> QED
      BY <2>2, <2>3
  <1>9. Good("done", wire, Len(wire), G[DOMAIN wire])
    BY <1>6, <1>7, <1>8, FoldGood
  <1> QED
    BY <1>1, <1>9 DEF Good

\* A wire on which only the last event can end the response.
Running(wire) ==
  IsList(wire) /\ \A i \in DOMAIN wire : i < Len(wire) => wire[i].type \notin Terminals

\* What a Responses client makes of its wire: the last event decides.
LEMMA ItemsOfIs ==
  ASSUME NEW wire, Running(wire)
  PROVE  /\ wire # <<>> /\ wire[Len(wire)].type \in Terminals
              => ItemsOf(wire).status = wire[Len(wire)].type
         /\ wire = <<>> \/ wire[Len(wire)].type \notin Terminals
              => ItemsOf(wire).status # "failed"
         /\ ItemsOf(wire).status = "failed"
              => ItemsOf(wire).kept = [i \in DOMAIN DoneOf(wire) |-> DoneOf(wire)[i].item]
  <1> DEFINE I == {i \in 1..Len(wire) : wire[i].type \in {"completed", "incomplete", "failed"}}
             end == SelectInSeq(wire, LAMBDA e : e.type \in {"completed", "incomplete", "failed"})
             n == Len(wire)
             kept == [i \in DOMAIN DoneOf(wire) |-> DoneOf(wire)[i].item]
  <1>1. IsList(wire) /\ n \in Nat
    BY DEF Running, IsList
  <1>2. end = IF I # {} THEN Min(I) ELSE 0
    BY Zenon DEF SelectInSeq
  <1>3. I # {} => Min(I) \in I
    <2>1. I \in SUBSET (1..n)
      OBVIOUS
    <2> HIDE DEF I
    <2> QED
      BY <1>1, <2>1, First
  <1>4. ItemsOf(wire) = CASE end = 0 -> [NoReply EXCEPT !.kept = kept]
                          [] wire[end].type = "incomplete" ->
                               [status |-> "incomplete", kept |-> wire[end].output,
                                usage |-> wire[end].usage]
                          [] OTHER -> [status |-> wire[end].type, kept |-> kept,
                                       usage |-> wire[end].usage]
    BY Zenon DEF ItemsOf, DoneOf, Only, FoldLeft, MapThenFoldSet
  <1> HIDE DEF kept
  <1>5. wire # <<>> => n \in DOMAIN wire
    BY <1>1 DEF IsList, Running
  <1>6. I \subseteq {n}
    BY DEF Running, IsList, Terminals
  <1>7. wire # <<>> /\ wire[n].type \in Terminals => end = n /\ end # 0
    <2> SUFFICES ASSUME wire # <<>>, wire[n].type \in Terminals PROVE end = n /\ end # 0
      OBVIOUS
    <2>1. n \in I /\ n # 0
      BY <1>1, <1>5 DEF Terminals, IsList
    <2> HIDE DEF I, end
    <2> QED
      BY <1>2, <1>3, <1>6, <2>1
  <1>8. wire = <<>> \/ wire[n].type \notin Terminals => end = 0
    <2> SUFFICES ASSUME wire = <<>> \/ wire[n].type \notin Terminals PROVE end = 0
      OBVIOUS
    <2>1. I = {}
      BY <1>6 DEF Terminals
    <2> HIDE DEF I, end
    <2> QED
      BY <1>2, <2>1
  <1>9. end # 0 => end \in DOMAIN wire
    BY <1>1, <1>2, <1>3, Zenon DEF IsList
  <1> HIDE DEF end, I
  <1>10. NoReply.status = "none" /\ DOMAIN NoReply = {"status", "kept", "usage"}
    BY DEF NoReply
  <1>11. end = 0 => ItemsOf(wire).status \in {"none", "incomplete"}
    BY <1>4, <1>10
  <1>12. end # 0 => ItemsOf(wire).status = wire[end].type
    BY <1>4
  <1>13. ItemsOf(wire).status = "failed" => ItemsOf(wire).kept = kept
    BY <1>4, <1>10, <1>11
  <1> QED
    BY <1>7, <1>8, <1>11, <1>12, <1>13 DEF kept

---------------------------------------------------------------------------
(* Messages straight onto Gemini.                                          *)
\* Messages straight onto Gemini: the blocks of its stream.
LEMMA NativeFieldsAre ==
  /\ BlockFields \subseteq NativeFields
  /\ "ended" \in NativeFields \ {"events", "blocks"} /\ "calls" \in NativeFields \ {"events", "blocks"}
  /\ "block" \in PlainEvents /\ "delta" \in PlainEvents
  BY DEF BlockFields, NativeFields, PlainEvents

LEMMA BeginsGoes ==
  ASSUME NEW t, NativeGoes(t), NEW block
  PROVE  NativeGoes(Begins(t, block))
  BY BeginsIs, NativeFieldsAre DEF NativeGoes, Blocked

LEMMA ExtendsGoes ==
  ASSUME NEW t, NativeGoes(t), NEW index, NEW x
  PROVE  NativeGoes(Extends(t, index, x))
  BY ExtendsIs, NativeFieldsAre DEF NativeGoes, Blocked

LEMMA SetNative ==
  ASSUME NEW t, NativeGoes(t), NEW x
  PROVE  /\ NativeGoes([t EXCEPT !.active = x]) /\ NativeGoes([t EXCEPT !.active.index = x])
         /\ NativeGoes([t EXCEPT !.ok = x]) /\ NativeGoes([t EXCEPT !.parts = x])
         /\ NativeGoes([t EXCEPT !.finish = x])
         /\ IsQueue(x) => NativeGoes([t EXCEPT !.calls = x])
  BY DEF NativeGoes, NativeFields

\* The parts of a native event, in that stream.
LEMMA NativePartKeeps ==
  ASSUME NEW t, NativeGoes(t), NEW p, NEW req
  PROVE  NativeGoes(NativePart(t, p, req))
  <1> DEFINE fresh == Begins(t, Block(IF p.thought THEN "thinking" ELSE "text", <<>>, "", NoId))
             opened == [fresh EXCEPT !.active = [index |-> Len(t.blocks) + 1, thought |-> p.thought]]
             continues == t.active.index # 0 /\ t.active.thought = p.thought
             open == IF continues THEN t ELSE opened
             shown == Extends(open, open.active.index, p.text)
             index == Len(t.blocks) + 1
             id == IF p.id = NoId THEN <<req.id, index>> ELSE p.id
             name == Resolved(p.tool, req.tools)
             tool == Extends(Begins(t, Block("tool", <<>>, name, id)), index, p.text)
             refused == [t EXCEPT !.ok = FALSE]
             told == CASE p.kind = "text" -> Displays(t, p, req)
                       [] p.kind = "call" -> Uses(t, p, req)
                       [] p.kind = "mark" -> t
                       [] OTHER -> refused
  <1>1. NativeGoes(open)
    <2>1. NativeGoes(fresh)
      BY BeginsGoes
    <2> HIDE DEF fresh
    <2>2. NativeGoes(opened)
      BY <2>1, SetNative
    <2> HIDE DEF opened
    <2> QED
      BY <2>2
  <1>2. Displays(t, p, req) = IF p.text = <<>> \/ (p.thought /\ ~req.display) THEN t ELSE shown
    BY Zenon DEF Displays
  <1> HIDE DEF open
  <1>3. NativeGoes(shown)
    BY <1>1, ExtendsGoes
  <1>4. NativeGoes([tool EXCEPT !.active.index = 0])
    <2>1. NativeGoes(tool)
      BY BeginsGoes, ExtendsGoes
    <2> HIDE DEF tool
    <2> QED
      BY <2>1, SetNative
  <1>5. Uses(t, p, req) \in {refused, [tool EXCEPT !.active.index = 0]}
    BY Zenon DEF Uses
  <1>6. NativeGoes(refused)
    BY SetNative
  <1> HIDE DEF shown, tool, refused
  <1>7. NativeGoes(told)
    BY <1>2, <1>3, <1>4, <1>5, <1>6
  <1>8. NativePart(t, p, req) = IF ~t.ok THEN t ELSE [told EXCEPT !.parts = Kept(told.parts, p)]
    BY Zenon DEF NativePart, refused
  <1> HIDE DEF told
  <1>9. NativeGoes([told EXCEPT !.parts = Kept(told.parts, p)])
    BY <1>7, SetNative
  <1> QED
    BY <1>8, <1>9

LEMMA NativeDrainedKeeps ==
  ASSUME NEW t, NativeGoes(t), NEW held, IsList(held.parts), IsQueue(held.calls), NEW req
  PROVE  NativeGoes(NativeDrained(t, held, req))
  <1> DEFINE base == [t EXCEPT !.calls = held.calls]
             seq == held.parts
             Is(F) == F = [S \in SUBSET (DOMAIN seq) |->
                             IF S = {} THEN base ELSE NativePart(F[S \ {Max(S)}], seq[Max(S)], req)]
             G == CHOOSE F : Is(F)
             refused == [t EXCEPT !.ok = FALSE]
  <1>1. NativeDrained(t, held, req) = IF t.finish # "none" \/ ~held.ok THEN refused ELSE G[DOMAIN seq]
    BY Zenon DEF NativeDrained, FoldLeft, MapThenFoldSet
  <1>2. NativeGoes(base) /\ NativeGoes(refused)
    BY SetNative
  <1> HIDE DEF base, seq, refused
  <1>3. IsList(seq)
    BY DEF seq
  <1>4. PICK F : Folds(F, "native", req, base, seq)
    BY <1>3, FoldExists
  <1>5. \A u, x : Step("native", req, u, x) = NativePart(u, x, req)
    BY DEF Step
  <1>6. Is(F)
    BY <1>4, <1>5, Zenon DEF Folds
  <1>7. Is(G)
    BY <1>6, Zenon
  <1>8. Folds(G, "native", req, base, seq)
    BY <1>5, <1>7, Zenon DEF Folds
  <1> HIDE DEF G
  <1>9. Good("native", req, 0, base)
    BY <1>2 DEF Good
  <1>10. \A i \in 1..Len(seq) : \A u : Good("native", req, i - 1, u)
           => Good("native", req, i, Step("native", req, u, seq[i]))
    BY <1>5, NativePartKeeps DEF Good
  <1>11. Good("native", req, Len(seq), G[DOMAIN seq])
    BY <1>3, <1>8, <1>9, <1>10, FoldGood
  <1>12. NativeGoes(G[DOMAIN seq])
    BY <1>11 DEF Good
  <1> QED
    BY <1>1, <1>2, <1>12

LEMMA NativeHeldKeeps ==
  ASSUME NEW t, NativeGoes(t), NEW p, NEW req
  PROVE  NativeGoes(NativeHeld(t, p, req))
  <1>1. IsList(Held(t.calls, p).parts) /\ IsQueue(Held(t.calls, p).calls)
    BY HeldKeeps DEF NativeGoes
  <1> QED
    BY <1>1, NativeDrainedKeeps DEF NativeHeld

NativeAll(t, c, req) == FoldLeft(LAMBDA u, p : NativeHeld(u, p, req), t, c.parts)

LEMMA NativeAllKeeps ==
  ASSUME NEW t, NativeGoes(t), NEW c, IsList(c.parts), NEW req
  PROVE  NativeGoes(NativeAll(t, c, req))
  <1> DEFINE seq == c.parts
             Is(F) == F = [S \in SUBSET (DOMAIN seq) |->
                             IF S = {} THEN t ELSE NativeHeld(F[S \ {Max(S)}], seq[Max(S)], req)]
             G == CHOOSE F : Is(F)
  <1>1. NativeAll(t, c, req) = G[DOMAIN seq]
    BY Zenon DEF NativeAll, FoldLeft, MapThenFoldSet
  <1> HIDE DEF seq
  <1>3. IsList(seq)
    BY DEF seq
  <1>4. PICK F : Folds(F, "nheld", req, t, seq)
    BY <1>3, FoldExists
  <1>5. \A u, x : Step("nheld", req, u, x) = NativeHeld(u, x, req)
    BY DEF Step
  <1>6. Is(F)
    BY <1>4, <1>5, Zenon DEF Folds
  <1>7. Is(G)
    BY <1>6, Zenon
  <1>8. Folds(G, "nheld", req, t, seq)
    BY <1>5, <1>7, Zenon DEF Folds
  <1> HIDE DEF G
  <1>9. Good("nheld", req, 0, t)
    BY DEF Good
  <1>10. \A i \in 1..Len(seq) : \A u : Good("nheld", req, i - 1, u)
           => Good("nheld", req, i, Step("nheld", req, u, seq[i]))
    BY <1>5, NativeHeldKeeps DEF Good
  <1>11. Good("nheld", req, Len(seq), G[DOMAIN seq])
    BY <1>3, <1>8, <1>9, <1>10, FoldGood
  <1> QED
    BY <1>1, <1>11 DEF Good

\* It is refused with an error alone.
LEMMA NativeRejects ==
  ASSUME NEW t, NativeGoes(t)
  PROVE  Rejects(t).ended = TRUE /\ Typed(Rejects(t).events, {"error"})
  BY RejectsIs, NativeFieldsAre DEF NativeGoes, Blocked

\* A native event goes on or ends in an error.
LEMMA NativeFeedIs ==
  ASSUME NEW t, NativeGoes(t), NEW c, IsList(c.parts), NEW req
  PROVE  \/ NativeGoes(NativeFeed(t, c, req))
         \/ NativeFeed(t, c, req).ended = TRUE /\ Typed(NativeFeed(t, c, req).events, {"error"})
  <1> DEFINE first == IF t.started THEN <<>> ELSE <<MessageEvent("start", 0)>>
             begun == [t EXCEPT !.started = TRUE, !.events = first,
                                !.usage = IF c.usage = 0 THEN @ ELSE c.usage,
                                !.finish = IF c.blocked THEN "SAFETY" ELSE @]
             fed == NativeAll(begun, c, req)
             noted == [fed EXCEPT !.finish = IF c.finish = "none" THEN @ ELSE c.finish]
  <1>1. Typed(first, PlainEvents)
    <2>1. Typed(<<MessageEvent("start", 0)>>, PlainEvents)
      BY OneTyped, MessageEventIs DEF PlainEvents
    <2> QED
      BY <2>1, NoneTyped
  <1>2. NativeGoes(begun)
    <2> HIDE DEF first
    <2> QED
      BY <1>1 DEF NativeGoes, NativeFields
  <1>3. NativeFeed(t, c, req) = NativeNoted(fed, c)
    BY Zenon DEF NativeFeed, NativeAll, FoldLeft, MapThenFoldSet
  <1> HIDE DEF begun
  <1>4. NativeGoes(fed)
    BY <1>2, NativeAllKeeps
  <1> HIDE DEF fed
  <1>5. NativeGoes(noted)
    BY <1>4, SetNative
  <1>6. NativeNoted(fed, c) \in {Rejects(fed), noted}
    BY DEF NativeNoted
  <1> HIDE DEF noted
  <1> QED
    BY <1>3, <1>4, <1>5, <1>6, NativeRejects

Thinking(t) == Only([i \in DOMAIN t.blocks |-> i], LAMBDA i : t.blocks[i].kind = "thinking")

\* Its thinking is signed at the end.
LEMMA ThinkingIsList ==
  ASSUME NEW t, IsList(t.blocks)
  PROVE  IsList(Thinking(t))
  <1> DEFINE seq == [i \in DOMAIN t.blocks |-> i]
             one(u, x) == IF t.blocks[x].kind = "thinking" THEN Append(u, x) ELSE u
             Is(F) == F = [S \in SUBSET (DOMAIN seq) |->
                             IF S = {} THEN <<>> ELSE one(F[S \ {Max(S)}], seq[Max(S)])]
             G == CHOOSE F : Is(F)
  <1>1. Thinking(t) = G[DOMAIN seq]
    BY Zenon DEF Thinking, Only, FoldLeft, MapThenFoldSet
  <1>2. IsList(seq)
    BY DEF IsList
  <1> HIDE DEF seq
  <1>3. PICK F : Folds(F, "block", t, <<>>, seq)
    BY <1>2, FoldExists
  <1>4. \A u, x : Step("block", t, u, x) = one(u, x)
    BY DEF Step
  <1> HIDE DEF one
  <1>5. Is(F)
    BY <1>3, <1>4, Zenon DEF Folds
  <1>6. Is(G)
    BY <1>5, Zenon
  <1> HIDE DEF G
  <1>7. Folds(G, "block", t, <<>>, seq)
    BY <1>4, <1>6, Zenon DEF Folds
  <1>8. Good("block", t, 0, <<>>)
    BY DEF Good, IsList
  <1>9. ASSUME NEW i \in 1..Len(seq), NEW u, Good("block", t, i - 1, u)
        PROVE  Good("block", t, i, Step("block", t, u, seq[i]))
    <2>1. IsList(u)
      BY <1>9 DEF Good
    <2>2. one(u, seq[i]) \in {u, Append(u, seq[i])}
      BY DEF one
    <2> DEFINE x == seq[i]
               grown == Append(u, x)
    <2>4. IsList(grown)
      BY <2>1, AppendList
    <2> HIDE DEF x, grown
    <2>3. IsList(one(u, seq[i]))
      <3>1. one(u, seq[i]) \in {u, grown}
        BY <2>2 DEF x, grown
      <3> QED
        BY <2>1, <2>4, <3>1
    <2> QED
      BY <1>4, <2>3 DEF Good
  <1>10. Good("block", t, Len(seq), G[DOMAIN seq])
    BY <1>2, <1>7, <1>8, <1>9, FoldGood
  <1> QED
    BY <1>1, <1>10 DEF Good

SignAll(t, carrier, seq) == FoldLeft(LAMBDA u, i : Signs(u, i, carrier), t, seq)

LEMMA SignAllKeeps ==
  ASSUME NEW t, Signing(t), NEW carrier, NEW seq, IsList(seq)
  PROVE  Signing(SignAll(t, carrier, seq))
  <1> DEFINE Is(F) == F = [S \in SUBSET (DOMAIN seq) |->
                             IF S = {} THEN t ELSE Signs(F[S \ {Max(S)}], seq[Max(S)], carrier)]
             G == CHOOSE F : Is(F)
  <1>1. SignAll(t, carrier, seq) = G[DOMAIN seq]
    BY Zenon DEF SignAll, FoldLeft, MapThenFoldSet
  <1>2. PICK F : Folds(F, "sign", carrier, t, seq)
    BY FoldExists
  <1>3. \A u, x : Step("sign", carrier, u, x) = Signs(u, x, carrier)
    BY DEF Step
  <1>4. Is(F)
    BY <1>2, <1>3, Zenon DEF Folds
  <1>5. Is(G)
    BY <1>4, Zenon
  <1> HIDE DEF G
  <1>6. Folds(G, "sign", carrier, t, seq)
    BY <1>3, <1>5, Zenon DEF Folds
  <1>7. Good("sign", carrier, 0, t)
    BY DEF Good
  <1>8. ASSUME NEW i \in 1..Len(seq), NEW u, Good("sign", carrier, i - 1, u)
        PROVE  Good("sign", carrier, i, Step("sign", carrier, u, seq[i]))
    <2> DEFINE types == {"block", "signature"}
    <2>1. Signing(u) /\ "signature" \in types
      BY <1>8 DEF Good
    <2>2. Blocked(u, NativeFields) /\ Typed(u.events, types)
      BY <2>1 DEF Signing, Blocked
    <2> HIDE DEF types
    <2>3. /\ Blocked(Signs(u, seq[i], carrier), NativeFields)
          /\ Typed(Signs(u, seq[i], carrier).events, types)
      BY <2>1, <2>2, SignsIs, NativeFieldsAre
    <2>4. Signing(Signs(u, seq[i], carrier))
      BY <2>3 DEF Signing, Blocked, types
    <2> QED
      BY <1>3, <2>4 DEF Good
  <1>9. Good("sign", carrier, Len(seq), G[DOMAIN seq])
    BY <1>6, <1>7, <1>8, FoldGood
  <1> QED
    BY <1>1, <1>9 DEF Good

\* The end of the transport: an error, or a message that is stopped without one.
LEMMA NativeEndIs ==
  ASSUME NEW old, NativeGoes(old), NEW req
  PROVE  \/ Typed(NativeEnd(old, req).events, {"error"})
         \/ Committed(NativeEnd(old, req).events)
  <1> DEFINE t == [old EXCEPT !.events = <<>>]
             uses == Blocks(t.blocks, "tool")
             carrier == [text |-> <<>>, carrier |-> Sealed("messages", req.route, t.parts, Shown(t.blocks))]
             signed == IF Thinking(t) = <<>> THEN Redacts(t, carrier)
                       ELSE SignAll(t, carrier, Thinking(t))
             reason == CASE t.finish = "STOP" -> IF uses = <<>> THEN "end_turn" ELSE "tool_use"
                         [] t.finish = "MAX_TOKENS" -> "max_tokens"
                         [] t.finish = "SAFETY" -> "refusal"
                         [] OTHER -> "unknown"
             stopped == Stops(signed, reason, t.usage)
             types == {"block", "signature"}
  <1>1. Blocked(t, NativeFields) /\ t.events = <<>>
    BY DEF NativeGoes, NativeFields, Blocked
  <1>2. NativeEnd(old, req) \in {Rejects(t), [stopped EXCEPT !.ended = TRUE]}
    BY Zenon DEF NativeEnd, Thinking, SignAll, Only, FoldLeft, MapThenFoldSet
  <1>3. reason # "failed"
    OBVIOUS
  <1> HIDE DEF t, carrier, reason
  <1>4. Typed(Rejects(t).events, {"error"})
    BY <1>1, RejectsIs, NativeFieldsAre
  <1>5. Blocked(signed, NativeFields) /\ Typed(signed.events, types)
    <2>1. Typed(t.events, types) /\ "block" \in types
      BY <1>1, NoneTyped
    <2>2. Signing(t)
      BY <1>1, <2>1 DEF Signing, Blocked
    <2>3. Signing(SignAll(t, carrier, Thinking(t)))
      BY <1>1, <2>2, ThinkingIsList, SignAllKeeps DEF Blocked
    <2> HIDE DEF types
    <2> DEFINE block == Signed(Block("redacted", <<>>, "", NoId), carrier)
    <2>4. Redacts(t, carrier) = Begins(t, block)
      BY DEF Redacts
    <2> HIDE DEF block
    <2>5. BlockFields \subseteq NativeFields /\ Blocked(t, NativeFields)
      BY <1>1, NativeFieldsAre
    <2>6. Blocked(Begins(t, block), NativeFields) /\ Typed(Begins(t, block).events, types)
      BY <2>1, <2>5, BeginsIs
    <2>7. Blocked(Redacts(t, carrier), NativeFields) /\ Typed(Redacts(t, carrier).events, types)
      BY <2>4, <2>6
    <2> QED
      BY <2>3, <2>7 DEF Signing, Blocked, types
  <1> HIDE DEF signed
  <1>6. Committed(signed.events)
    BY <1>5, TypedCommits
  <1>7. Blocked(stopped, NativeFields) /\ Committed(stopped.events)
    BY <1>3, <1>5, <1>6, StopsIs, NativeFieldsAre
  <1> HIDE DEF stopped
  <1>8. Committed([stopped EXCEPT !.ended = TRUE].events)
    BY <1>7 DEF Blocked, NativeFields
  <1> QED
    BY <1>2, <1>4, <1>8

LEMMA NewNativeIs == NativeGoes(NewNative)
  <1>1. <<>> \in Seq({})
    OBVIOUS
  <1>2. IsQueue(NoCalls)
    BY <1>1 DEF NoCalls, IsQueue
  <1>3. Typed(<<>>, PlainEvents) /\ IsList(<<>>)
    BY NoneTyped DEF IsList
  <1> QED
    BY <1>2, <1>3 DEF NativeGoes, NewNative, NativeFields

---------------------------------------------------------------------------
(* The promise.                                                            *)
Fair(k, wire, r) ==
  LET types(some) == {i \in DOMAIN wire : wire[i].type \in some}
      searches == k.shape \in {"responses"} /\ k.request.search = "server"
  IN CASE k.shape = "responses" ->
            /\ r.status = "failed" /\ ~searches => types({"item_done"}) = {}
            /\ r.status = "failed" /\ searches /\ r.kept # <<>> => Last(r.kept).type = "server_found"
            /\ k.request.schema /\ r.status # "completed" =>
                 \A i \in types({"delta"}) :
                   /\ searches
                   /\ \E j \in types({"item_done"}) : i < j /\ wire[j].item.type = "server_found"
       [] k.shape = "chat" ->
            r.status = "failed" => \A i \in DOMAIN wire : wire[i].kind \notin {"finish", "usage"}
       [] OTHER ->
            r.status = "failed"
              => types({"message_stop", "message_delta", "signature", "stop"}) = {}

\* The property, by the profile, the wire and the reply.
LEMMA FairIs ==
  FailureCommitsNothing <=> (phase = "done" /\ P.stream => Fair(P, out.wire, reply))
  BY Zenon DEF FailureCommitsNothing, Fair, Types, IsHosted, Over, Streams

\* Lists of events that end a response.
LEMMA FailedFinal ==
  ASSUME NEW t, Failed(t)
  PROVE  Final(t.events) /\ Events(t.events)
  BY DEF Failed, Final, Events, IsList

LEMMA FinalEvents ==
  ASSUME NEW es, es = <<>> \/ Final(es)
  PROVE  Events(es)
  BY DEF Final, Events, IsList

LEMMA JoinAt ==
  ASSUME NEW es, NEW fs, IsList(es), IsList(fs), NEW i \in DOMAIN (es \o fs), i \notin DOMAIN es
  PROVE  i - Len(es) \in DOMAIN fs /\ (es \o fs)[i] = fs[i - Len(es)]
  BY DEF IsList

LEMMA JoinsEvents ==
  ASSUME NEW types, NEW kept, EventsIn(kept, types), NEW es, Events(es)
  PROVE  Events(kept \o es)
  <1>1. IsList(kept) /\ IsList(es)
    BY DEF EventsIn, Events
  <1>2. ASSUME NEW i \in DOMAIN (kept \o es) PROVE IsEvent((kept \o es)[i])
    <2>1. CASE i \in DOMAIN kept
      BY <1>1, <2>1, JoinList DEF EventsIn
    <2>2. CASE i \notin DOMAIN kept
      <3>1. i - Len(kept) \in DOMAIN es /\ (kept \o es)[i] = es[i - Len(kept)]
        BY <1>1, <2>2, JoinAt
      <3> QED
        BY <3>1 DEF Events
    <2> QED
      BY <2>1, <2>2
  <1> QED
    BY <1>1, <1>2, JoinList DEF Events

\* What has been told so far of a response that has not ended.
Quiet(es) == EventsIn(es, Feeding) /\ (P.request.schema => Textless(es))

\* What is told before the end, joined.
LEMMA JoinQuiet ==
  ASSUME NEW es, NEW fs, Quiet(es), Quiet(fs)
  PROVE  Quiet(es \o fs)
  <1>1. EventsIn(es \o fs, Feeding) /\ IsList(es) /\ IsList(fs)
    BY JoinEvents DEF Quiet, EventsIn
  <1>2. ASSUME P.request.schema, NEW i \in DOMAIN (es \o fs) PROVE (es \o fs)[i].type # "delta"
    <2>1. CASE i \in DOMAIN es
      BY <1>1, <1>2, <2>1, JoinList DEF Quiet, Textless
    <2>2. CASE i \notin DOMAIN es
      <3>1. i - Len(es) \in DOMAIN fs /\ (es \o fs)[i] = fs[i - Len(es)]
        BY <1>1, <2>2, JoinAt
      <3> QED
        BY <1>2, <3>1 DEF Quiet, Textless
    <2> QED
      BY <2>1, <2>2
  <1> QED
    BY <1>1, <1>2 DEF Quiet, Textless

\* Where an event of an extended wire comes from.
LEMMA ExtendedIs ==
  ASSUME NEW before, NEW es, IsList(before), IsList(es), NEW wire,
         Extended(wire, before, es, Len(es))
  PROVE  /\ IsList(wire) /\ Len(wire) = Len(before) + Len(es)
         /\ \A i \in DOMAIN wire : \/ i \in DOMAIN before /\ wire[i] = before[i] /\ i <= Len(before)
                                   \/ /\ i - Len(before) \in DOMAIN es /\ i > Len(before)
                                      /\ wire[i] = es[i - Len(before)]
  <1>1. /\ IsList(wire) /\ Len(wire) = Len(before) + Len(es)
        /\ \A k \in DOMAIN before : wire[k] = before[k]
        /\ \A k \in 1..Len(es) : wire[Len(before) + k] = es[k]
    BY DEF Extended
  <1>2. ASSUME NEW i \in DOMAIN wire, i \notin DOMAIN before
        PROVE  i - Len(before) \in 1..Len(es) /\ Len(before) + (i - Len(before)) = i /\ i > Len(before)
    BY <1>1, <1>2 DEF IsList
  <1>3. DOMAIN es = 1..Len(es) /\ DOMAIN before = 1..Len(before)
    BY DEF IsList
  <1>4. ASSUME NEW i \in DOMAIN wire
        PROVE  \/ i \in DOMAIN before /\ wire[i] = before[i] /\ i <= Len(before)
               \/ /\ i - Len(before) \in DOMAIN es /\ i > Len(before)
                  /\ wire[i] = es[i - Len(before)]
    <2>1. CASE i \in DOMAIN before
      BY <1>1, <1>3, <2>1
    <2>2. CASE i \notin DOMAIN before
      <3>1. wire[Len(before) + (i - Len(before))] = es[i - Len(before)]
        BY <1>1, <1>2, <2>2
      <3> QED
        BY <1>2, <1>3, <2>2, <3>1
    <2> QED
      BY <2>1, <2>2
  <1> QED
    BY <1>1, <1>4

\* A response that ends.
LEMMA QuietCloses ==
  ASSUME P.shape = "responses", ~IsHosted, NEW before, Quiet(before), NEW es, es = <<>> \/ Final(es),
         NEW wire, Extended(wire, before, es, Len(es))
  PROVE  Fair(P, wire, ItemsOf(wire))
  <1> DEFINE n == Len(before)
             m == Len(es)
             r == ItemsOf(wire)
  <1>1. IsList(before) /\ IsList(es) /\ n \in Nat /\ m \in Nat /\ DOMAIN before = 1..n
        /\ DOMAIN es = 1..m
    BY DEF Quiet, EventsIn, Final, IsList
  <1>2. /\ IsList(wire) /\ Len(wire) = n + m /\ DOMAIN wire = 1..n + m
        /\ \A i \in DOMAIN wire : \/ i \in DOMAIN before /\ wire[i] = before[i] /\ i <= n
                                  \/ i - n \in DOMAIN es /\ i > n /\ wire[i] = es[i - n]
    BY <1>1, ExtendedIs DEF IsList
  <1>3. \A i \in DOMAIN before : /\ before[i].type \in Feeding
                                 /\ P.request.schema => before[i].type # "delta"
    BY DEF Quiet, EventsIn, Textless
  <1>4. Feeding \cap Terminals = {} /\ "item_done" \notin Feeding /\ Midway \cap Terminals = {}
        /\ "item_done" \notin Terminals /\ "delta" \notin Terminals
    BY DEF Feeding, Terminals, Midway
  <1> HIDE DEF n, m, r
  <1>5. CASE es = <<>>
    <2>1. m = 0
      BY <1>5 DEF m
    <2>2. \A i \in DOMAIN wire : i \in DOMAIN before /\ wire[i] = before[i]
      BY <1>1, <1>2, <2>1
    <2>3. Running(wire) /\ (wire = <<>> \/ wire[Len(wire)].type \notin Terminals)
      <3>1. \A i \in DOMAIN wire : wire[i].type \notin Terminals
        BY <1>3, <1>4, <2>2
      <3>2. Len(wire) > 0 => Len(wire) \in DOMAIN wire
        BY <1>1, <1>2
      <3>3. Len(wire) = 0 => wire = <<>>
        BY <1>1, <1>2, <2>1 DEF IsList
      <3>4. Len(wire) \in Nat
        BY <1>1, <1>2
      <3> QED
        BY <1>2, <3>1, <3>2, <3>3, <3>4 DEF Running
    <2>4. r.status # "failed"
      BY <2>3, ItemsOfIs DEF r
    <2> QED
      BY <1>3, <2>2, <2>4 DEF Fair, r
  <1>6. CASE Final(es)
    <2>1. m >= 1 /\ n + m \in DOMAIN wire /\ wire # <<>>
      <3>1. m >= 1
        BY <1>6 DEF Final, m
      <3>2. n + m \in DOMAIN wire
        BY <1>1, <1>2, <3>1
      <3>3. Len(wire) # 0
        BY <1>1, <1>2, <3>1
      <3> QED
        BY <3>1, <3>2, <3>3
    <2>2. wire[n + m] = es[m]
      <3>1. n + m - n = m /\ n + m > n
        BY <1>1, <2>1
      <3> QED
        BY <1>1, <1>2, <2>1, <3>1
    <2>3. \/ es[m].type = "completed" /\ \A i \in DOMAIN es : i < m => es[i].type \in Midway
          \/ es[m].type \in {"incomplete", "failed"} /\ m = 1
      BY <1>6 DEF Final, m
    <2>4. Running(wire)
      <3>1. ASSUME NEW i \in DOMAIN wire, i < n + m PROVE wire[i].type \notin Terminals
        <4>1. CASE i \in DOMAIN before /\ wire[i] = before[i]
          BY <1>3, <1>4, <4>1
        <4>2. CASE i - n \in DOMAIN es /\ i > n /\ wire[i] = es[i - n]
          <5>1. i - n < m /\ m # 1
            BY <1>1, <1>2, <3>1, <4>2
          <5> QED
            BY <1>4, <2>3, <4>2, <5>1
        <4> QED
          BY <1>2, <4>1, <4>2
      <3> QED
        BY <1>2, <3>1 DEF Running
    <2>5. es[m].type \in Terminals
      BY <2>3 DEF Terminals
    <2>6. r.status = es[m].type
      BY <1>2, <2>1, <2>2, <2>4, <2>5, ItemsOfIs DEF r
    <2>7. CASE m = 1 /\ es[m].type \in {"incomplete", "failed"}
      <3>1. ASSUME NEW i \in DOMAIN wire
            PROVE  wire[i].type # "item_done" /\ (P.request.schema => wire[i].type # "delta")
        <4>1. CASE i \in DOMAIN before /\ wire[i] = before[i]
          BY <1>3, <1>4, <4>1
        <4>2. CASE i - n \in DOMAIN es /\ i > n /\ wire[i] = es[i - n]
          <5>1. i - n = m
            BY <1>1, <2>7, <4>2
          <5> QED
            BY <2>7, <4>2, <5>1
        <4> QED
          BY <1>2, <4>1, <4>2
      <3> QED
        BY <3>1 DEF Fair, IsHosted, r
    <2>8. CASE es[m].type = "completed"
      BY <2>6, <2>8 DEF Fair, r
    <2> QED
      BY <2>3, <2>7, <2>8
  <1> QED
    BY <1>5, <1>6

\* An extension in two parts.
LEMMA ExtendedTwice ==
  ASSUME NEW before, NEW kept, NEW last, IsList(before), IsList(kept), IsList(last), NEW wire,
         NEW all, all = kept \o last, Extended(wire, before, all, Len(all))
  PROVE  Extended(wire, before \o kept, last, Len(last))
  <1> DEFINE more == before \o kept
  <1>1. /\ IsList(all) /\ Len(all) = Len(kept) + Len(last)
        /\ \A i \in DOMAIN kept : all[i] = kept[i]
        /\ \A i \in DOMAIN last : all[Len(kept) + i] = last[i]
    BY JoinList
  <1>2. /\ IsList(more) /\ Len(more) = Len(before) + Len(kept)
        /\ \A i \in DOMAIN before : more[i] = before[i]
        /\ \A i \in DOMAIN kept : more[Len(before) + i] = kept[i]
    BY JoinList
  <1>3. /\ IsList(wire) /\ Len(wire) = Len(before) + Len(all)
        /\ \A k \in DOMAIN before : wire[k] = before[k]
        /\ \A k \in 1..Len(all) : wire[Len(before) + k] = all[k]
    BY DEF Extended
  <1> HIDE DEF more
  <1>4. /\ Len(before) \in Nat /\ DOMAIN before = 1..Len(before)
        /\ Len(kept) \in Nat /\ DOMAIN kept = 1..Len(kept)
        /\ Len(last) \in Nat /\ DOMAIN last = 1..Len(last)
        /\ DOMAIN more = 1..Len(before) + Len(kept)
    BY <1>2 DEF IsList
  <1>5. ASSUME NEW k \in DOMAIN more PROVE wire[k] = more[k]
    <2>1. CASE k \in DOMAIN before
      BY <1>2, <1>3, <2>1
    <2>2. CASE k \notin DOMAIN before
      <3> DEFINE i == k - Len(before)
      <3>1. i \in DOMAIN kept /\ i \in 1..Len(all) /\ Len(before) + i = k
        BY <1>1, <1>4, <2>2
      <3> QED
        BY <1>1, <1>2, <1>3, <3>1
    <2> QED
      BY <2>1, <2>2
  <1>6. ASSUME NEW k \in 1..Len(last) PROVE wire[Len(more) + k] = last[k]
    <2> DEFINE i == Len(kept) + k
    <2>1. i \in 1..Len(all) /\ Len(before) + i = Len(more) + k /\ k \in DOMAIN last
      BY <1>1, <1>2, <1>4
    <2>2. wire[Len(before) + i] = all[i] /\ all[i] = last[k]
      BY <1>1, <1>3, <2>1
    <2> QED
      BY <2>1, <2>2
  <1>7. Len(wire) = Len(more) + Len(last)
    BY <1>1, <1>2, <1>3, <1>4
  <1> QED
    BY <1>3, <1>5, <1>6, <1>7 DEF Extended, more

\* The events with which a converter ends.
ClosingEvents(events) ==
  \/ events = <<>> \/ Final(events)
  \/ \E kept, es : events = kept \o es /\ Quiet(kept) /\ Final(es)

\* Whatever closes the stream of any facade but the native one keeps the promise.
LEMMA ToldFair ==
  ASSUME Going(out), P.shape \in {"responses", "chat", "messages"}, ~IsHosted,
         P.shape = "responses" => Quiet(out.wire),
         NEW events, Events(events), P.shape = "responses" => ClosingEvents(events)
  PROVE  Fair(P, PassEof(Passed(events)).wire, Received(PassEof(Passed(events)).wire))
  <1> DEFINE a == [wire |-> out.wire, events |-> events]
             o == Passed(events)
             wire == PassEof(o).wire
  <1>1. Telling(a, Len(events), o) /\ a.wire = out.wire /\ a.events = events
    BY PassedIs
  <1> HIDE DEF a, o
  <1>2. CASE P.shape = "responses"
    <2>1. Extended(o.wire, out.wire, events, Len(events))
      BY <1>1, <1>2 DEF Telling
    <2>2. Going(o)
      BY <1>1, <1>2, <2>1 DEF Telling, Going, Extended
    <2>3. wire = o.wire /\ Received(wire) = ItemsOf(wire)
      BY <1>2, <2>2, PassEofIs DEF Received
    <2> HIDE DEF wire
    <2>4. CASE events = <<>> \/ Final(events)
      BY <1>2, <2>1, <2>3, <2>4, QuietCloses DEF wire, o
    <2>5. CASE \E kept, es : events = kept \o es /\ Quiet(kept) /\ Final(es)
      <3>1. PICK kept, es : events = kept \o es /\ Quiet(kept) /\ Final(es)
        BY <2>5
      <3>2. Quiet(out.wire) /\ IsList(out.wire) /\ IsList(kept) /\ IsList(es)
        BY <1>2, <3>1 DEF Quiet, EventsIn, Final
      <3>3. Quiet(out.wire \o kept)
        BY <3>1, <3>2, JoinQuiet
      <3>4. Extended(o.wire, out.wire \o kept, es, Len(es))
        BY <2>1, <3>1, <3>2, ExtendedTwice
      <3>5. Fair(P, o.wire, ItemsOf(o.wire))
        BY <1>2, <3>1, <3>3, <3>4, QuietCloses
      <3> QED
        BY <2>3, <3>5 DEF wire, o
    <2> QED
      BY <1>2, <2>4, <2>5 DEF ClosingEvents
  <1>3. CASE P.shape = "chat"
    <2>1. Going(o)
      <3>1. OutState(o) /\ ChatFine(o)
        BY <1>1, <1>3 DEF Telling
      <3> QED
        BY <1>3, <3>1 DEF Going, ChatFine, Chunks
    <2>2. ChatFine(PassEof(o))
      BY <1>3, <2>1, PassEofIs
    <2>3. Received(wire) = MessageOf(wire)
      BY <1>3 DEF Received
    <2>4. MessageOf(wire).status = "failed" =>
            \A i \in DOMAIN wire : wire[i].kind \notin {"finish", "usage"}
      BY <2>2, MessageFailed
    <2> HIDE DEF wire
    <2>5. Fair(P, wire, Received(wire))
      BY <1>3, <2>3, <2>4 DEF Fair
    <2> QED
      BY <2>5 DEF wire, o
  <1>4. CASE P.shape = "messages"
    <2>1. Going(o)
      <3>1. OutState(o) /\ MessagesGo(o)
        BY <1>1, <1>4 DEF Telling
      <3> QED
        BY <1>4, <3>1 DEF Going, MessagesGo, Typed
    <2>2. BlocksFine(wire)
      BY <1>4, <2>1, PassEofIs
    <2>3. Received(wire) = BlocksOf(wire)
      BY <1>4 DEF Received
    <2> HIDE DEF wire
    <2>4. BlocksOf(wire).status = "failed" =>
            \A i \in DOMAIN wire :
              wire[i].type \notin {"message_stop", "message_delta", "signature", "stop"}
      BY <2>2, BlocksFailed
    <2>5. Fair(P, wire, Received(wire))
      BY <1>4, <2>3, <2>4 DEF Fair
    <2> QED
      BY <2>5 DEF wire, o
  <1> QED
    BY <1>2, <1>3, <1>4

---------------------------------------------------------------------------
(* Hosted search.                                                          *)
TellsFound(e) == e.type = "item_done" /\ e.item.type = "server_found"
Searched(es) == Len(es) > 0 => TellsFound(es[Len(es)])

\* How a hosted search may end: completed, with nothing told of its last turn, or
\* cut off after a search.
Ends(es) ==
  LET n == Len(es)
  IN /\ Events(es) /\ n >= 1 /\ es[n].type \in Terminals
     /\ \A i \in DOMAIN es : i < n => es[i].type \in Midway
     /\ \/ es[n].type = "completed"
        \/ \A i \in DOMAIN es : i < n => /\ es[i].type \in Feeding
                                         /\ P.request.schema => es[i].type # "delta"
        \/ es[n].type = "incomplete" /\ n >= 2 /\ TellsFound(es[n - 1])

\* A hosted search that ends in one of these ways keeps the promise.
LEMMA HostedFair ==
  ASSUME P.shape = "responses", IsHosted, NEW before, EventsIn(before, Midway), Searched(before),
         NEW es, Ends(es), NEW wire, Extended(wire, before, es, Len(es))
  PROVE  Fair(P, wire, ItemsOf(wire))
  <1> DEFINE n == Len(before)
             m == Len(es)
             r == ItemsOf(wire)
             done == DoneOf(wire)
  <1>1. IsList(before) /\ IsList(es) /\ n \in Nat /\ m \in Nat /\ DOMAIN before = 1..n
        /\ DOMAIN es = 1..m /\ m >= 1
    BY DEF EventsIn, Ends, Events, IsList
  <1>2. /\ IsList(wire) /\ Len(wire) = n + m /\ DOMAIN wire = 1..n + m
        /\ \A i \in DOMAIN wire : \/ i \in DOMAIN before /\ wire[i] = before[i] /\ i <= n
                                  \/ i - n \in DOMAIN es /\ i > n /\ wire[i] = es[i - n]
    BY <1>1, ExtendedIs DEF IsList
  <1>3. /\ \A i \in DOMAIN before : before[i].type \in Midway
        /\ n > 0 => TellsFound(before[n])
    BY DEF EventsIn, Searched
  <1>4. /\ es[m].type \in Terminals
        /\ \A i \in DOMAIN es : i < m => es[i].type \in Midway
        /\ \/ es[m].type = "completed"
           \/ \A i \in DOMAIN es : i < m => /\ es[i].type \in Feeding
                                            /\ P.request.schema => es[i].type # "delta"
           \/ es[m].type = "incomplete" /\ m >= 2 /\ TellsFound(es[m - 1])
    BY DEF Ends
  <1>5. Midway \cap Terminals = {} /\ "item_done" \notin Terminals \union Feeding
        /\ "delta" \notin Terminals
    BY DEF Feeding, Terminals, Midway
  <1>6. Lasts(done, wire, n + m)
    BY <1>2, DoneOfIs
  <1> HIDE DEF n, m, r, done
  <1>7. n + m \in DOMAIN wire /\ wire[n + m] = es[m] /\ wire # <<>>
    <2>1. n + m \in 1..n + m /\ n + m > n /\ n + m - n = m /\ Len(wire) # 0
      BY <1>1, <1>2
    <2>2. wire # <<>>
      BY <2>1
    <2> QED
      BY <1>1, <1>2, <2>1, <2>2
  <1>8. ASSUME NEW i \in DOMAIN wire, i < n + m PROVE wire[i].type \in Midway
    <2>1. CASE i \in DOMAIN before /\ wire[i] = before[i]
      BY <1>3, <2>1
    <2>2. CASE i - n \in DOMAIN es /\ i > n /\ wire[i] = es[i - n]
      <3>1. i - n < m
        BY <1>1, <1>2, <1>8
      <3> QED
        BY <1>4, <2>2, <3>1
    <2> QED
      BY <1>2, <2>1, <2>2
  <1>9. Running(wire) /\ wire[Len(wire)].type \in Terminals
    BY <1>2, <1>4, <1>5, <1>7, <1>8 DEF Running
  <1>10. /\ r.status = es[m].type
         /\ r.status = "failed" => r.kept = [i \in DOMAIN done |-> done[i].item]
    BY <1>2, <1>7, <1>9, ItemsOfIs DEF r, done
  <1>11. CASE es[m].type = "completed"
    BY <1>10, <1>11 DEF Fair, IsHosted, r
  <1>12. CASE es[m].type = "incomplete" /\ m >= 2 /\ TellsFound(es[m - 1])
    <2>1. n + m - 1 \in DOMAIN wire /\ wire[n + m - 1] = es[m - 1]
      <3>1. n + m - 1 \in 1..n + m /\ n + m - 1 > n /\ n + m - 1 - n = m - 1
        BY <1>1, <1>12
      <3> QED
        BY <1>1, <1>2, <3>1
    <2>2. ASSUME NEW i \in DOMAIN wire, wire[i].type = "delta"
          PROVE  i < n + m - 1
      <3>1. i # n + m /\ i # n + m - 1
        BY <1>5, <1>7, <1>12, <2>1, <2>2 DEF TellsFound
      <3> QED
        BY <1>1, <1>2, <3>1
    <2>3. \A i \in DOMAIN wire : wire[i].type = "delta" =>
            \E j \in DOMAIN wire : i < j /\ TellsFound(wire[j])
      BY <1>12, <2>1, <2>2
    <2> QED
      BY <1>10, <1>12, <2>3 DEF Fair, IsHosted, r, TellsFound
  <1>13. CASE \A i \in DOMAIN es : i < m => /\ es[i].type \in Feeding
                                            /\ P.request.schema => es[i].type # "delta"
    <2>1. ASSUME NEW i \in DOMAIN wire, wire[i].type = "item_done" \/ (P.request.schema /\ wire[i].type = "delta")
          PROVE  i \in 1..n /\ wire[i] = before[i]
      <3>1. i # n + m
        BY <1>4, <1>5, <1>7, <2>1
      <3>2. CASE i - n \in DOMAIN es /\ i > n /\ wire[i] = es[i - n]
        <4>1. i - n < m
          BY <1>1, <1>2, <3>1
        <4> QED
          BY <1>5, <1>13, <2>1, <3>2, <4>1
      <3> QED
        BY <1>1, <1>2, <3>2
    <2>2. n > 0 => n \in DOMAIN wire /\ wire[n] = before[n] /\ TellsFound(wire[n])
      <3>1. n > 0 => n \in 1..n + m /\ n - n \notin 1..m
        BY <1>1
      <3> QED
        BY <1>1, <1>2, <1>3, <3>1
    <2>3. ASSUME P.request.schema, NEW i \in DOMAIN wire, wire[i].type = "delta"
          PROVE  \E j \in DOMAIN wire : i < j /\ TellsFound(wire[j])
      <3>1. i \in 1..n /\ n > 0
        BY <1>1, <2>1, <2>3
      <3>2. i # n
        BY <2>2, <2>3, <3>1 DEF TellsFound
      <3>3. i < n
        BY <1>1, <3>1, <3>2
      <3> QED
        BY <2>2, <3>1, <3>3
    <2>4. ASSUME r.status = "failed", r.kept # <<>> PROVE Last(r.kept).type = "server_found"
      <3>1. r.kept = [i \in DOMAIN done |-> done[i].item] /\ IsList(done)
        BY <1>6, <1>10, <2>4 DEF Lasts
      <3>2. Len(r.kept) = Len(done) /\ Len(done) \in Nat /\ DOMAIN done = 1..Len(done)
        BY <3>1 DEF IsList
      <3>3. Len(done) # 0
        BY <2>4, <3>1, <3>2
      <3>4. PICK j \in 1..n + m : /\ done[Len(done)] = wire[j] /\ wire[j].type = "item_done"
                                  /\ \A k \in j + 1..n + m : wire[k].type # "item_done"
        BY <1>6, <3>2, <3>3 DEF Lasts
      <3>5. j \in 1..n /\ n > 0
        BY <1>1, <1>2, <2>1, <3>4
      <3>6. j = n
        <4>1. j # n => n \in j + 1..n + m
          BY <1>1, <3>5
        <4> QED
          BY <2>2, <3>4, <3>5, <4>1 DEF TellsFound
      <3>7. Last(r.kept) = done[Len(done)].item
        BY <3>1, <3>2, <3>3 DEF Last
      <3> QED
        BY <2>2, <3>4, <3>5, <3>6, <3>7 DEF TellsFound
    <2> QED
      BY <2>3, <2>4 DEF Fair, IsHosted, r, TellsFound
  <1> QED
    BY <1>4, <1>11, <1>12, <1>13

\* Events of a turn take the places and the numbers of the response.
LEMMA ShiftedIs ==
  ASSUME NEW e, IsEvent(e), NEW n
  PROVE  /\ IsEvent(Shifted(e, n)) /\ Shifted(e, n).type = e.type /\ Shifted(e, n).item = e.item
  BY DEF IsEvent, EventFields, Shifted

LEMMA RenumberedIs ==
  ASSUME NEW es, Events(es), NEW n
  PROVE  /\ Events(Renumbered(es, n)) /\ Len(Renumbered(es, n)) = Len(es)
         /\ \A i \in DOMAIN es : /\ Renumbered(es, n)[i].type = es[i].type
                                 /\ Renumbered(es, n)[i].item = es[i].item
  <1>1. IsList(es) /\ \A i \in DOMAIN es : IsEvent(es[i])
    BY DEF Events
  <1> DEFINE fs == Renumbered(es, n)
  <1>2. fs = [i \in DOMAIN es |-> [es[i] EXCEPT !.seq = n + i - 1]]
    BY DEF Renumbered
  <1>3. ASSUME NEW i \in DOMAIN es
        PROVE  IsEvent(fs[i]) /\ fs[i].type = es[i].type /\ fs[i].item = es[i].item
    <2> DEFINE e == es[i]
               number == n + i - 1
    <2>1. fs[i] = [e EXCEPT !.seq = number] /\ IsEvent(e)
      BY <1>1, <1>2
    <2> HIDE DEF e, number, fs
    <2> QED
      BY <2>1, Numbering DEF e
  <1>4. IsList(fs) /\ Len(fs) = Len(es) /\ DOMAIN fs = DOMAIN es
    BY <1>1, <1>2 DEF IsList
  <1> HIDE DEF fs
  <1> QED
    BY <1>3, <1>4 DEF Events, fs

---------------------------------------------------------------------------
ToldOf(es) == Only(es, LAMBDA e : /\ e.type \notin {"completed", "incomplete", "failed"}
                                  /\ hosted.rounds = 0 \/ e.type # "created")

\* What a turn tells is selected from its events.
LEMMA ToldOfIs ==
  ASSUME NEW es, IsList(es)
  PROVE  From(ToldOf(es), es, Len(es))
  <1> DEFINE a == [first |-> hosted.rounds = 0, events |-> es]
             one(u, x) == IF /\ x.type \notin {"completed", "incomplete", "failed"}
                             /\ hosted.rounds = 0 \/ x.type # "created"
                          THEN Append(u, x) ELSE u
             Is(F) == F = [S \in SUBSET (DOMAIN es) |->
                             IF S = {} THEN <<>> ELSE one(F[S \ {Max(S)}], es[Max(S)])]
             G == CHOOSE F : Is(F)
  <1>1. ToldOf(es) = G[DOMAIN es]
    BY Zenon DEF ToldOf, Only, FoldLeft, MapThenFoldSet
  <1>2. PICK F : Folds(F, "told", a, <<>>, es)
    BY FoldExists
  <1>3. \A u, x : Step("told", a, u, x) = one(u, x)
    BY ZenonT(30) DEF Step, Terminals
  <1>4. \A u, x : one(u, x) \in {u, Append(u, x)} /\ (one(u, x) # u => x.type \notin Terminals)
    BY DEF Terminals
  <1>5. a.events = es
    OBVIOUS
  <1> HIDE DEF one, a
  <1>6. Is(F)
    BY <1>2, <1>3, Zenon DEF Folds
  <1>7. Is(G)
    BY <1>6, Zenon
  <1> HIDE DEF G
  <1>8. Folds(G, "told", a, <<>>, es)
    BY <1>3, <1>7, Zenon DEF Folds
  <1>9. Good("told", a, 0, <<>>)
    <2>1. From(<<>>, es, 0)
      BY DEF From, IsList
    <2> QED
      BY <1>5, <2>1 DEF Good
  <1>10. ASSUME NEW i \in 1..Len(es), NEW u, Good("told", a, i - 1, u)
         PROVE  Good("told", a, i, Step("told", a, u, es[i]))
    <2>1. From(u, es, i - 1) /\ i \in Nat
      BY <1>5, <1>10 DEF Good, IsList
    <2>2. IsList(u) /\ \A k \in DOMAIN u : u[k].type \notin Terminals /\ \E j \in 1..i : u[k] = es[j]
      BY <2>1 DEF From
    <2>3. From(u, es, i)
      BY <2>2 DEF From
    <2> DEFINE x == es[i]
               grown == Append(u, x)
    <2>4. /\ IsList(grown) /\ Len(grown) = Len(u) + 1 /\ grown[Len(u) + 1] = x
          /\ \A k \in DOMAIN u : grown[k] = u[k]
      BY <2>2, AppendList
    <2>5. i \in 1..i
      BY <2>1
    <2> HIDE DEF grown
    <2>6. x.type \notin Terminals => From(grown, es, i)
      <3>1. \A k \in DOMAIN grown : k \in DOMAIN u \/ k = Len(u) + 1
        BY <2>2, <2>4 DEF IsList
      <3> QED
        BY <2>2, <2>4, <2>5, <3>1 DEF From
    <2>7. one(u, x) = u \/ (one(u, x) = grown /\ x.type \notin Terminals)
      BY <1>4 DEF grown
    <2>8. From(one(u, x), es, i)
      BY <2>3, <2>6, <2>7
    <2> QED
      BY <1>3, <1>5, <2>8 DEF Good
  <1>11. Good("told", a, Len(es), G[DOMAIN es])
    BY <1>8, <1>9, <1>10, FoldGood
  <1> QED
    BY <1>1, <1>5, <1>11 DEF Good

SearchesOf(output) == Only(output, LAMBDA i : i.type = "server_search")

\* The searches that a turn asks for.
LEMMA SearchesAreList ==
  ASSUME NEW output, IsList(output)
  PROVE  IsList(SearchesOf(output))
  <1> DEFINE one(u, x) == IF x.type = "server_search" THEN Append(u, x) ELSE u
             Is(F) == F = [S \in SUBSET (DOMAIN output) |->
                             IF S = {} THEN <<>> ELSE one(F[S \ {Max(S)}], output[Max(S)])]
             G == CHOOSE F : Is(F)
  <1>1. SearchesOf(output) = G[DOMAIN output]
    BY Zenon DEF SearchesOf, Only, FoldLeft, MapThenFoldSet
  <1>2. PICK F : Folds(F, "search", 0, <<>>, output)
    BY FoldExists
  <1>3. \A u, x : Step("search", 0, u, x) = one(u, x)
    BY DEF Step
  <1>4. \A u, x : one(u, x) \in {u, Append(u, x)}
    OBVIOUS
  <1> HIDE DEF one
  <1>5. Is(F)
    BY <1>2, <1>3, Zenon DEF Folds
  <1>6. Is(G)
    BY <1>5, Zenon
  <1> HIDE DEF G
  <1>7. Folds(G, "search", 0, <<>>, output)
    BY <1>3, <1>6, Zenon DEF Folds
  <1>8. Good("search", 0, 0, <<>>)
    BY DEF Good, IsList
  <1>9. ASSUME NEW i \in 1..Len(output), NEW u, Good("search", 0, i - 1, u)
        PROVE  Good("search", 0, i, Step("search", 0, u, output[i]))
    <2> DEFINE x == output[i]
               grown == Append(u, x)
    <2>1. IsList(u)
      BY <1>9 DEF Good
    <2>2. IsList(grown)
      BY <2>1, AppendList
    <2> HIDE DEF grown
    <2>3. one(u, x) \in {u, grown}
      BY <1>4 DEF grown
    <2> HIDE DEF x
    <2>4. IsList(one(u, x))
      BY <2>1, <2>2, <2>3
    <2> QED
      BY <1>3, <2>4 DEF Good, x
  <1>10. Good("search", 0, Len(output), G[DOMAIN output])
    BY <1>7, <1>8, <1>9, FoldGood
  <1> QED
    BY <1>1, <1>10 DEF Good

HostedFields == {"request", "items", "rounds", "usage", "limit", "status", "next"}
SearchState(h) ==
  /\ DOMAIN h = HostedFields /\ IsList(h.items)
  /\ "schema" \in DOMAIN h.request /\ h.request.schema = P.request.schema

\* What the client is shown after turn r: its items and n that searches found.
Advances(h, r, a, n) ==
  /\ SearchState(a) /\ n \in Nat /\ a.next \in BOOLEAN
  /\ Len(a.items) = Len(h.items) + Len(r.output) + n
  /\ \A k \in 1..n : a.items[Len(h.items) + Len(r.output) + k].type = "server_found"
  /\ a.next => r.status = "completed" /\ n > 0
  /\ ~a.next => \/ a.status = "error"
                \/ a.status = r.status /\ (r.status # "completed" => n = 0)
                \/ a.status = "incomplete" /\ n > 0

FoundOf(r, named) ==
  IF r.status # "completed" THEN <<>>
  ELSE [k \in DOMAIN SearchesOf(r.output) |-> Found(named)]

\* What they find: nothing, unless the turn was completed.
LEMMA FoundOfIs ==
  ASSUME NEW r, IsList(r.output), NEW named
  PROVE  /\ IsList(FoundOf(r, named)) /\ (r.status # "completed" => Len(FoundOf(r, named)) = 0)
         /\ \A k \in DOMAIN FoundOf(r, named) : FoundOf(r, named)[k].type = "server_found"
         /\ FoundOf(r, named) # <<>> => Len(FoundOf(r, named)) > 0
  <1> DEFINE searches == SearchesOf(r.output)
             found == FoundOf(r, named)
  <1>1. IsList(searches)
    BY SearchesAreList
  <1> HIDE DEF searches
  <1>2. CASE r.status # "completed"
    BY <1>2 DEF IsList, FoundOf
  <1>3. CASE r.status = "completed"
    <2>1. found = [k \in DOMAIN searches |-> Found(named)]
      BY <1>3 DEF FoundOf, searches
    <2>2. Found(named).type = "server_found"
      BY DEF Found, Item
    <2>3. IsList(found) /\ DOMAIN found = DOMAIN searches /\ Len(found) = Len(searches)
      BY <1>1, <2>1 DEF IsList
    <2>4. Len(searches) = 0 => found = <<>>
      BY <1>1, <2>1 DEF IsList
    <2> HIDE DEF found
    <2> QED
      BY <1>1, <1>3, <2>1, <2>2, <2>3, <2>4 DEF IsList, found
  <1> QED
    BY <1>2, <1>3

Concat(w, x, y) == w = x \o y

\* Three lists joined.
LEMMA JoinsThree ==
  ASSUME NEW x, NEW y, NEW z, IsList(x), IsList(y), IsList(z), NEW v, Concat(v, y, z),
         NEW w, Concat(w, x, v)
  PROVE  /\ IsList(w) /\ Len(w) = Len(x) + Len(y) + Len(z)
         /\ \A k \in 1..Len(z) : w[Len(x) + Len(y) + k] = z[k]
  <1>1. /\ IsList(v) /\ Len(v) = Len(y) + Len(z)
        /\ \A i \in DOMAIN z : v[Len(y) + i] = z[i]
    BY DEF IsList, Concat
  <1>2. /\ IsList(w) /\ Len(w) = Len(x) + Len(v)
        /\ \A i \in DOMAIN v : w[Len(x) + i] = v[i]
    BY <1>1 DEF IsList, Concat
  <1>3. /\ Len(x) \in Nat /\ Len(y) \in Nat /\ Len(z) \in Nat
        /\ DOMAIN z = 1..Len(z) /\ DOMAIN v = 1..Len(v)
    BY <1>1 DEF IsList
  <1>4. ASSUME NEW k \in 1..Len(z) PROVE w[Len(x) + Len(y) + k] = z[k]
    <2>1. Len(y) + k \in DOMAIN v /\ Len(x) + (Len(y) + k) = Len(x) + Len(y) + k /\ k \in DOMAIN z
      BY <1>1, <1>3
    <2> QED
      BY <1>1, <1>2, <2>1
  <1>5. Len(w) = Len(x) + Len(y) + Len(z)
    BY <1>1, <1>2, <1>3
  <1> QED
    BY <1>2, <1>4, <1>5

\* What Advance makes of the search, by what it then is.
Grown(h, r, all) ==
  [h EXCEPT !.items = @ \o all, !.rounds = @ + 1, !.usage = @ + r.usage, !.status = r.status,
            !.next = FALSE]
Onward(h, grown, all) ==
  [grown EXCEPT !.next = TRUE,
                !.request.items = @ \o all,
                !.request.limit = IF h.limit = 0 THEN 0 ELSE h.limit - grown.usage,
                !.request.choice = IF @ = "search" THEN "auto" ELSE @]

\* What is left of a search that named nothing.
Lost(h) == [h EXCEPT !.status = "error", !.next = FALSE]

\* Advance makes one of four things of a search.
LEMMA AdvanceOne ==
  ASSUME NEW h, NEW r, NEW named, NEW most
  PROVE  LET found == FoundOf(r, named)
             all == r.output \o found
             grown == Grown(h, r, all)
         IN \/ Advance(h, r, named, most) = Lost(h)
            \/ Advance(h, r, named, most) = grown
            \/ /\ found # <<>>
               /\ \/ \E x \in {"error", "incomplete"} :
                       Advance(h, r, named, most) = [grown EXCEPT !.status = x]
                  \/ r.status = "completed" /\ Advance(h, r, named, most) = Onward(h, grown, all)
  <1> DEFINE found == FoundOf(r, named)
             searches == SearchesOf(r.output)
             own == \E i \in DOMAIN r.output : r.output[i].type \in {"call", "client_search"}
             all == r.output \o found
             grown == Grown(h, r, all)
             more == Onward(h, grown, all)
             failed == [grown EXCEPT !.status = "error"]
             cut == [grown EXCEPT !.status = "incomplete"]
             none == Lost(h)
             c0 == found # <<>> /\ \E k \in DOMAIN searches : Pathless(searches[k])
             c1 == found = <<>> \/ own
             c2 == h.limit > 0 /\ grown.usage = 0
             c3 == h.limit > 0 /\ grown.usage >= h.limit
             c4 == grown.rounds >= most
             a == Advance(h, r, named, most)
  <1>1. a = IF c0 THEN none ELSE IF c1 THEN grown ELSE IF c2 THEN failed ELSE IF c3 THEN cut
            ELSE IF c4 THEN failed ELSE more
    BY Zenon DEF Advance, SearchesOf, FoundOf, Grown, Onward, Lost, Only, FoldLeft, MapThenFoldSet
  <1>2. found # <<>> => r.status = "completed"
    BY DEF FoundOf
  <1>3. /\ c0 \in BOOLEAN /\ c1 \in BOOLEAN /\ c2 \in BOOLEAN /\ c3 \in BOOLEAN /\ c4 \in BOOLEAN
        /\ ~c1 => found # <<>>
    OBVIOUS
  <1>4. a = none \/ a = grown \/ (~c1 /\ a \in {failed, cut, more})
    <2> HIDE DEF found, grown, more, failed, cut, none, c0, c1, c2, c3, c4, a
    <2> QED
      BY <1>1, <1>3
  <1> SUFFICES a = none \/ a = grown \/ (found # <<>> /\ (\/ a = failed \/ a = cut
                                                          \/ r.status = "completed" /\ a = more))
    OBVIOUS
  <1> HIDE DEF found, grown, more, failed, cut, none, c0, c1, c2, c3, c4, a
  <1> QED
    BY <1>2, <1>3, <1>4

\* What it then shows the client.
LEMMA GrownIs ==
  ASSUME NEW h, SearchState(h), NEW r, NEW all, NEW items, Concat(items, h.items, all),
         IsList(items), NEW x
  PROVE  /\ SearchState(Grown(h, r, all)) /\ Grown(h, r, all).items = items
         /\ Grown(h, r, all).next = FALSE /\ Grown(h, r, all).status = r.status
         /\ SearchState([Grown(h, r, all) EXCEPT !.status = x])
         /\ [Grown(h, r, all) EXCEPT !.status = x].items = items
         /\ [Grown(h, r, all) EXCEPT !.status = x].next = FALSE
         /\ [Grown(h, r, all) EXCEPT !.status = x].status = x
         /\ SearchState(Onward(h, Grown(h, r, all), all))
         /\ Onward(h, Grown(h, r, all), all).items = items
         /\ Onward(h, Grown(h, r, all), all).next = TRUE
  <1> DEFINE grown == Grown(h, r, all)
             changed == [grown EXCEPT !.status = x]
             onward == Onward(h, grown, all)
             limit == IF h.limit = 0 THEN 0 ELSE h.limit - grown.usage
             request == [grown.request EXCEPT !.items = @ \o all, !.limit = limit,
                                              !.choice = IF @ = "search" THEN "auto" ELSE @]
  <1>1. /\ DOMAIN grown = HostedFields /\ grown.items = items /\ grown.next = FALSE
        /\ grown.status = r.status /\ grown.request = h.request
    BY DEF SearchState, HostedFields, Grown, Concat
  <1>3. "schema" \in DOMAIN h.request /\ h.request.schema = P.request.schema
    BY DEF SearchState
  <1>4. SearchState(grown)
    <2> HIDE DEF grown
    <2> QED
      BY <1>1, <1>3 DEF SearchState
  <1>5. /\ SearchState(changed) /\ changed.items = items /\ changed.next = FALSE
        /\ changed.status = x
    <2> HIDE DEF grown
    <2> QED
      BY <1>1, <1>3 DEF SearchState, HostedFields
  <1>6. SearchState(onward) /\ onward.items = items /\ onward.next = TRUE
    <2> HIDE DEF grown, limit
    <2>1. "schema" \in DOMAIN request /\ request.schema = P.request.schema
      BY <1>1, <1>3
    <2>2. onward = [grown EXCEPT !.next = TRUE, !.request = request]
      BY <1>1 DEF HostedFields, limit, Onward
    <2> HIDE DEF request, onward
    <2> QED
      BY <1>1, <2>1, <2>2 DEF SearchState, HostedFields
  <1> HIDE DEF grown, changed, onward
  <1> QED
    BY <1>1, <1>4, <1>5, <1>6 DEF grown, changed, onward

\* All the ways to advance, as Advances has them.
LEMMA AdvanceShown ==
  ASSUME NEW h, SearchState(h), NEW r, IsList(r.output), NEW found, IsList(found),
         \A k \in DOMAIN found : found[k].type = "server_found",
         r.status # "completed" => Len(found) = 0, found # <<>> => Len(found) > 0,
         NEW all, Concat(all, r.output, found), NEW items, Concat(items, h.items, all),
         NEW a,
         \/ a = Grown(h, r, all)
         \/ /\ found # <<>>
            /\ \/ \E x \in {"error", "incomplete"} : a = [Grown(h, r, all) EXCEPT !.status = x]
               \/ r.status = "completed" /\ a = Onward(h, Grown(h, r, all), all)
  PROVE  Advances(h, r, a, Len(found))
  <1>1. IsList(h.items)
    BY DEF SearchState
  <1>2. /\ IsList(items) /\ Len(items) = Len(h.items) + Len(r.output) + Len(found)
        /\ \A k \in 1..Len(found) : items[Len(h.items) + Len(r.output) + k] = found[k]
    <2> DEFINE x == h.items
               y == r.output
    <2>1. IsList(x) /\ IsList(y) /\ Concat(all, y, found) /\ Concat(items, x, all)
      BY <1>1
    <2> HIDE DEF x, y
    <2>2. /\ IsList(items) /\ Len(items) = Len(x) + Len(y) + Len(found)
          /\ \A k \in 1..Len(found) : items[Len(x) + Len(y) + k] = found[k]
      BY <2>1, JoinsThree
    <2> QED
      BY <2>2 DEF x, y
  <1>3. /\ Len(found) \in Nat
        /\ \A k \in 1..Len(found) : items[Len(h.items) + Len(r.output) + k].type = "server_found"
    BY <1>2 DEF IsList
  <1>4. ASSUME NEW x
        PROVE  /\ SearchState(Grown(h, r, all)) /\ Grown(h, r, all).items = items
               /\ Grown(h, r, all).next = FALSE /\ Grown(h, r, all).status = r.status
               /\ SearchState([Grown(h, r, all) EXCEPT !.status = x])
               /\ [Grown(h, r, all) EXCEPT !.status = x].items = items
               /\ [Grown(h, r, all) EXCEPT !.status = x].next = FALSE
               /\ [Grown(h, r, all) EXCEPT !.status = x].status = x
               /\ SearchState(Onward(h, Grown(h, r, all), all))
               /\ Onward(h, Grown(h, r, all), all).items = items
               /\ Onward(h, Grown(h, r, all), all).next = TRUE
    BY <1>2, GrownIs
  <1>5. CASE a = Grown(h, r, all)
    <2>1. /\ SearchState(a) /\ a.items = items /\ a.next = FALSE /\ a.status = r.status
      BY <1>4, <1>5
    <2> QED
      BY <1>2, <1>3, <2>1 DEF Advances
  <1>6. ASSUME found # <<>>, NEW x \in {"error", "incomplete"},
               a = [Grown(h, r, all) EXCEPT !.status = x]
        PROVE  Advances(h, r, a, Len(found))
    <2>1. /\ SearchState(a) /\ a.items = items /\ a.next = FALSE /\ a.status = x
      BY <1>4, <1>6
    <2> QED
      BY <1>2, <1>3, <1>6, <2>1 DEF Advances
  <1>7. CASE found # <<>> /\ r.status = "completed" /\ a = Onward(h, Grown(h, r, all), all)
    <2>1. /\ SearchState(a) /\ a.items = items /\ a.next = TRUE
      BY <1>4, <1>7
    <2> QED
      BY <1>2, <1>3, <1>7, <2>1 DEF Advances
  <1> QED
    BY <1>5, <1>6, <1>7

\* Advance, by what the client is shown; a search without paths leaves what there was.
LEMMA AdvanceIs ==
  ASSUME NEW h, SearchState(h), NEW r, IsList(r.output), NEW named, NEW most
  PROVE  LET a == Advance(h, r, named, most)
         IN IsList(a.items) /\ (a.status = "error" \/ \E n : Advances(h, r, a, n))
  <1> DEFINE found == FoundOf(r, named)
             all == r.output \o found
             items == h.items \o all
             a == Advance(h, r, named, most)
  <1>1. /\ IsList(found) /\ \A k \in DOMAIN found : found[k].type = "server_found"
        /\ r.status # "completed" => Len(found) = 0
        /\ found # <<>> => Len(found) > 0
    BY FoundOfIs
  <1>2. Concat(all, r.output, found) /\ Concat(items, h.items, all)
    BY DEF Concat
  <1>3. \/ a = Lost(h)
        \/ a = Grown(h, r, all)
        \/ /\ found # <<>>
           /\ \/ \E x \in {"error", "incomplete"} : a = [Grown(h, r, all) EXCEPT !.status = x]
              \/ r.status = "completed" /\ a = Onward(h, Grown(h, r, all), all)
    BY AdvanceOne DEF found, all
  <1> SUFFICES IsList(a.items) /\ (a.status = "error" \/ \E n : Advances(h, r, a, n))
    OBVIOUS
  <1> HIDE DEF found, all, items, a
  <1>4. CASE a = Lost(h)
    BY <1>4 DEF Lost, SearchState, HostedFields
  <1>5. CASE a # Lost(h)
    <2>1. Advances(h, r, a, Len(found))
      BY <1>1, <1>2, <1>3, <1>5, AdvanceShown
    <2> QED
      BY <2>1 DEF Advances, SearchState
  <1> QED
    BY <1>4, <1>5

\* Two lists joined.
LEMMA ConcatIs ==
  ASSUME NEW w, NEW x, NEW y, IsList(x), IsList(y), Concat(w, x, y)
  PROVE  /\ IsList(w) /\ Len(w) = Len(x) + Len(y)
         /\ \A i \in DOMAIN x : w[i] = x[i]
         /\ \A i \in DOMAIN y : w[Len(x) + i] = y[i]
         /\ \A i \in DOMAIN w : i \notin DOMAIN x =>
              i - Len(x) \in DOMAIN y /\ w[i] = y[i - Len(x)]
  BY JoinList, JoinAt DEF Concat

LEMMA ConcatExtends ==
  ASSUME NEW w, NEW x, NEW y, IsList(x), IsList(y), Concat(w, x, y)
  PROVE  Extended(w, x, y, Len(y))
  BY ConcatIs DEF Extended, IsList

LEMMA ConcatEvents ==
  ASSUME NEW types, NEW w, NEW x, NEW y, EventsIn(x, types), EventsIn(y, types), Concat(w, x, y)
  PROVE  EventsIn(w, types)
  BY JoinEvents DEF Concat

\* The events of a turn that was answered: what was told before it ended, and its end.
TurnEvents(events) ==
  \E kept, es : Extended(events, kept, es, Len(es)) /\ Quiet(kept) /\ Final(es)

\* Nothing told is quiet.
LEMMA QuietNone == Quiet(<<>>)
  BY DEF Quiet, EventsIn, IsList, Textless

\* A turn that ends while it is fed, and one that does not.
LEMMA FedTurn ==
  ASSUME NEW c, IsList(c.parts), NEW req, req.schema = P.request.schema,
         NEW fed, fed = Feed(Fresh, c, req)
  PROVE  /\ fed.ended /\ fed.ok => TurnEvents(fed.events)
         /\ ~fed.ended => Conv(fed) /\ Quiet(fed.events)
  <1>1. \/ Failed(fed)
        \/ Conv(fed) /\ (req.schema /\ fed.ok => Textless(fed.events))
    BY FeedIs, FreshIs
  <1>2. CASE Failed(fed)
    <2>1. Final(fed.events) /\ IsList(fed.events) /\ fed.ended = TRUE
      BY <1>2, FailedFinal DEF Final, Failed
    <2>2. Extended(fed.events, <<>>, fed.events, Len(fed.events))
      BY <2>1 DEF Extended, Final, IsList
    <2> QED
      BY <2>1, <2>2, QuietNone DEF TurnEvents
  <1>3. CASE Conv(fed) /\ (req.schema /\ fed.ok => Textless(fed.events))
    <2>1. fed.ended => ~fed.ok
      BY <1>3 DEF Conv
    <2>2. ~fed.ended => fed.ok
      BY <1>3 DEF Conv
    <2>3. ~fed.ended => Quiet(fed.events)
      BY <1>3, <2>2 DEF Conv, Quiet
    <2> QED
      BY <1>3, <2>1, <2>3
  <1> QED
    BY <1>1, <1>2, <1>3

\* A turn that is finished.
LEMMA EndedTurn ==
  ASSUME NEW fed, Conv(fed), Quiet(fed.events), NEW req, NEW end, end = Finish(fed, req),
         NEW turned, turned = [end EXCEPT !.events = fed.events \o @], turned.ok
  PROVE  TurnEvents(turned.events)
  <1>1. DOMAIN end = FreshFields /\ (end.ok => Final(end.events))
    BY FinishIs
  <1>2. turned.ok = end.ok /\ turned.events = fed.events \o end.events
    BY <1>1 DEF FreshFields
  <1>3. Concat(turned.events, fed.events, end.events) /\ IsList(fed.events) /\ IsList(end.events)
    BY <1>1, <1>2 DEF Concat, Quiet, EventsIn, Final
  <1>4. Extended(turned.events, fed.events, end.events, Len(end.events))
    <2> DEFINE w == turned.events
               x == fed.events
               y == end.events
    <2>1. IsList(x) /\ IsList(y) /\ Concat(w, x, y)
      BY <1>3
    <2> HIDE DEF w, x, y
    <2>2. Extended(w, x, y, Len(y))
      BY <2>1, ConcatExtends
    <2> QED
      BY <2>2 DEF w, x, y
  <1> QED
    BY <1>1, <1>2, <1>4 DEF TurnEvents

\* What a turn tells beside its end.
Telltale(r, e) ==
  /\ IsEvent(e) /\ e.type \in Midway
  /\ r.status # "completed" => e.type \in Feeding /\ (P.request.schema => e.type # "delta")

\* What a turn tells beside its end, if it was not completed: no item done, no strict text.
LEMMA TurnIs ==
  ASSUME NEW events, TurnEvents(events), NEW r, r = TurnAnswer(Last(events))
  PROVE  /\ IsList(events) /\ r.status \in Terminals /\ IsList(r.output)
         /\ r.output = Last(events).output
         /\ \A i \in DOMAIN events : events[i].type \notin Terminals => Telltale(r, events[i])
  <1>1. PICK kept, es : Extended(events, kept, es, Len(es)) /\ Quiet(kept) /\ Final(es)
    BY DEF TurnEvents
  <1> DEFINE n == Len(kept)
             m == Len(es)
             e == Last(events)
  <1>2. IsList(kept) /\ IsList(es) /\ m >= 1
    BY <1>1 DEF Quiet, EventsIn, Final
  <1>3. /\ IsList(events) /\ Len(events) = n + m /\ events[n + m] = es[m]
        /\ \A i \in DOMAIN events : \/ i \in DOMAIN kept /\ events[i] = kept[i]
                                    \/ i - n \in DOMAIN es /\ events[i] = es[i - n]
    BY <1>1, <1>2, ExtendedIs DEF Extended, IsList
  <1>4. n \in Nat /\ m \in Nat /\ m \in DOMAIN es /\ DOMAIN es = 1..m
    BY <1>2 DEF IsList
  <1>5. e = es[m]
    BY <1>3, <1>4 DEF Last
  <1>6. /\ IsEvent(es[m])
        /\ \A i \in DOMAIN es : IsEvent(es[i])
        /\ \/ es[m].type = "completed" /\ \A i \in DOMAIN es : i < m => es[i].type \in Midway
           \/ es[m].type \in {"incomplete", "failed"} /\ m = 1
    BY <1>1, <1>4 DEF Final
  <1>7. \A i \in DOMAIN kept : /\ IsEvent(kept[i]) /\ kept[i].type \in Feeding
                               /\ P.request.schema => kept[i].type # "delta"
    BY <1>1 DEF Quiet, EventsIn, Textless
  <1>8. r.status = e.type /\ r.output = e.output
    BY DEF TurnAnswer
  <1>9. Feeding \subseteq Midway
    BY DEF Midway
  <1> HIDE DEF n, m, e
  <1>10. ASSUME NEW i \in DOMAIN events, events[i].type \notin Terminals
         PROVE  Telltale(r, events[i])
    <2>1. CASE i \in DOMAIN kept /\ events[i] = kept[i]
      BY <1>7, <1>9, <2>1 DEF Telltale
    <2>2. CASE i - n \in DOMAIN es /\ events[i] = es[i - n]
      <3>1. i - n \in DOMAIN es /\ events[i] = es[i - n]
        BY <2>2
      <3>2. i - n # m
        BY <1>6, <1>10, <3>1 DEF Terminals
      <3>3. i - n < m
        BY <1>4, <3>1, <3>2
      <3>4. es[m].type = "completed"
        BY <1>4, <1>6, <3>1, <3>3
      <3> QED
        BY <1>5, <1>6, <1>8, <3>1, <3>3, <3>4 DEF Telltale
    <2> QED
      BY <1>3, <2>1, <2>2
  <1>11. r.status \in Terminals /\ IsList(r.output)
    BY <1>5, <1>6, <1>8 DEF Terminals, IsEvent
  <1> QED
    BY <1>3, <1>8, <1>10, <1>11 DEF e

\* The results of its searches.
Results(extra, n) == EventsIn(extra, Midway) /\ Searched(extra) /\ Len(extra) = 2 * n
Finds(found, n) == DOMAIN found = 1..n /\ \A k \in 1..n : found[k].type = "server_found"

LEMMA ExtraIs ==
  ASSUME NEW n \in Nat, NEW found, Finds(found, n), NEW base, NEW extra,
         extra = [k \in 1..2 * n |->
                   LET i == (k + 1) \div 2
                   IN Done(IF k % 2 = 1 THEN "added" ELSE "item_done", base + i - 1, found[i])]
  PROVE  Results(extra, n)
  <1>0. DOMAIN found = 1..n /\ \A k \in 1..n : found[k].type = "server_found"
    BY DEF Finds
  <1>1. IsList(extra) /\ Len(extra) = 2 * n /\ DOMAIN extra = 1..2 * n
    BY DEF IsList
  <1>2. ASSUME NEW k \in 1..2 * n
        PROVE  /\ IsEvent(extra[k]) /\ extra[k].type \in {"added", "item_done"}
               /\ extra[k].type = (IF k % 2 = 1 THEN "added" ELSE "item_done")
               /\ extra[k].item = found[(k + 1) \div 2]
    <2> DEFINE type == IF k % 2 = 1 THEN "added" ELSE "item_done"
               index == base + (k + 1) \div 2 - 1
               item == found[(k + 1) \div 2]
    <2>1. extra[k] = Done(type, index, item)
      OBVIOUS
    <2>2. type \in {"added", "item_done"}
      OBVIOUS
    <2> HIDE DEF type, index, item
    <2>3. /\ IsEvent(extra[k]) /\ extra[k].type = type /\ extra[k].item = item
      BY <2>1, EventsAre
    <2> QED
      BY <2>2, <2>3 DEF type, item
  <1>3. {"added", "item_done"} \subseteq Midway
    BY DEF Midway, Feeding
  <1>4. EventsIn(extra, Midway)
    BY <1>1, <1>2, <1>3 DEF EventsIn
  <1>5. n > 0 => /\ 2 * n \in 1..2 * n /\ (2 * n) % 2 = 0 /\ (2 * n + 1) \div 2 = n /\ n \in 1..n
    OBVIOUS
  <1>6. n > 0 => TellsFound(extra[2 * n])
    <2> SUFFICES ASSUME n > 0 PROVE TellsFound(extra[2 * n])
      OBVIOUS
    <2> DEFINE k == 2 * n
    <2>1. k \in 1..2 * n /\ k % 2 # 1 /\ (k + 1) \div 2 = n /\ n \in 1..n
      BY <1>5
    <2> HIDE DEF k
    <2>2. extra[k].type = "item_done" /\ extra[k].item = found[n]
      BY <1>2, <2>1
    <2>3. TellsFound(extra[k])
      BY <1>0, <2>1, <2>2 DEF TellsFound
    <2> QED
      BY <2>3 DEF k
  <1>7. Len(extra) > 0 => n > 0
    BY <1>1
  <1>8. Searched(extra)
    <2> HIDE DEF TellsFound
    <2> QED
      BY <1>1, <1>6, <1>7 DEF Searched
  <1> QED
    BY <1>1, <1>4, <1>8 DEF Results

\* What is told of a turn, before the end of the response.
TurnShown(r, n, body) ==
  /\ EventsIn(body, Midway)
  /\ n > 0 => Searched(body) /\ Len(body) > 0
  /\ n = 0 => \A i \in DOMAIN body : Telltale(r, body[i])

\* What is told of a turn, before the end of the response: if it has found something, that is last.
LEMMA BodyIs ==
  ASSUME NEW r, NEW told, IsList(told), \A k \in DOMAIN told : Telltale(r, told[k]),
         NEW offset, NEW shifted, shifted = [i \in DOMAIN told |-> Shifted(told[i], offset)],
         NEW n \in Nat, NEW extra, Results(extra, n),
         NEW body, Concat(body, shifted, extra)
  PROVE  TurnShown(r, n, body)
  <1>1. IsList(shifted) /\ DOMAIN shifted = DOMAIN told
    BY DEF IsList
  <1>2. ASSUME NEW k \in DOMAIN shifted PROVE Telltale(r, shifted[k]) /\ IsEvent(shifted[k])
    <2>1. Telltale(r, told[k]) /\ shifted[k] = Shifted(told[k], offset)
      BY <1>1, <1>2
    <2>2. IsEvent(told[k])
      BY <2>1 DEF Telltale
    <2>3. IsEvent(shifted[k]) /\ shifted[k].type = told[k].type
      BY <2>1, <2>2, ShiftedIs
    <2> QED
      BY <2>1, <2>3 DEF Telltale
  <1>3. EventsIn(shifted, Midway)
    BY <1>1, <1>2 DEF EventsIn, Telltale
  <1>4. IsList(extra) /\ EventsIn(extra, Midway) /\ Searched(extra) /\ Len(extra) = 2 * n
    BY DEF EventsIn, Results
  <1>5. EventsIn(body, Midway)
    BY <1>3, <1>4, ConcatEvents
  <1>10. Extended(body, shifted, extra, Len(extra))
    BY <1>1, <1>4, ConcatExtends
  <1>6. /\ IsList(body) /\ Len(body) = Len(shifted) + Len(extra)
        /\ \A i \in DOMAIN shifted : body[i] = shifted[i]
        /\ \A i \in DOMAIN extra : body[Len(shifted) + i] = extra[i]
    BY <1>1, <1>4, <1>10 DEF Extended, IsList
  <1>7. Len(shifted) \in Nat /\ DOMAIN extra = 1..2 * n
    BY <1>1, <1>4 DEF IsList
  <1>8. n > 0 => Searched(body) /\ Len(body) > 0
    <2> SUFFICES ASSUME n > 0 PROVE Searched(body) /\ Len(body) > 0
      OBVIOUS
    <2>1. 2 * n \in DOMAIN extra /\ Len(body) > 0 /\ 2 * n > 0
      BY <1>6, <1>7
    <2>2. body[Len(body)] = extra[Len(extra)]
      BY <1>4, <1>6, <2>1
    <2>3. TellsFound(extra[Len(extra)])
      BY <1>4, <2>1 DEF Searched
    <2> HIDE DEF TellsFound
    <2> QED
      BY <2>1, <2>2, <2>3 DEF Searched
  <1>9. ASSUME n = 0, NEW i \in DOMAIN body PROVE Telltale(r, body[i])
    <2>1. DOMAIN extra = {}
      BY <1>7, <1>9
    <2>2. i \in DOMAIN shifted /\ body[i] = shifted[i]
      <3>1. Len(body) = Len(shifted)
        BY <1>4, <1>6, <1>7, <1>9
      <3>2. DOMAIN body = 1..Len(body) /\ DOMAIN shifted = 1..Len(shifted)
        BY <1>1, <1>6 DEF IsList
      <3> QED
        BY <1>6, <1>9, <3>1, <3>2
    <2> QED
      BY <1>2, <2>2
  <1> QED
    BY <1>5, <1>8, <1>9 DEF TurnShown

\* The end of the response after it.
LEMMA EndsIs ==
  ASSUME NEW body, EventsIn(body, Midway), NEW t, IsEvent(t), t.type \in Terminals,
         \/ t.type = "completed"
         \/ \A i \in DOMAIN body : /\ body[i].type \in Feeding
                                   /\ P.request.schema => body[i].type # "delta"
         \/ t.type = "incomplete" /\ Searched(body) /\ Len(body) > 0,
         NEW end, end = <<t>>, NEW stream, Concat(stream, body, end)
  PROVE  Ends(stream)
  <1>1. IsList(body) /\ IsList(end) /\ Len(end) = 1 /\ DOMAIN end = {1} /\ end[1] = t
    BY DEF EventsIn, IsList
  <1>11. Extended(stream, body, end, Len(end))
    BY <1>1, ConcatExtends
  <1> DEFINE n == Len(body)
  <1>2. /\ IsList(stream) /\ Len(stream) = n + Len(end)
        /\ \A i \in DOMAIN body : stream[i] = body[i]
        /\ \A i \in DOMAIN end : stream[n + i] = end[i]
    BY <1>1, <1>11 DEF Extended
  <1>3. n \in Nat /\ DOMAIN body = 1..n /\ DOMAIN stream = 1..n + 1 /\ Len(stream) = n + 1
    BY <1>1, <1>2 DEF IsList
  <1>4. stream[n + 1] = t
    BY <1>1, <1>2
  <1> HIDE DEF n
  <1>5. \A i \in DOMAIN stream : i = n + 1 \/ (i \in DOMAIN body /\ stream[i] = body[i])
    BY <1>2, <1>3 DEF n
  <1>6. \A i \in DOMAIN stream : i < n + 1 => i \in DOMAIN body /\ stream[i] = body[i]
    BY <1>3, <1>5
  <1>7. \A i \in DOMAIN body : IsEvent(body[i]) /\ body[i].type \in Midway
    BY DEF EventsIn
  <1>8. Events(stream)
    BY <1>2, <1>4, <1>5, <1>7 DEF Events
  <1>9. Searched(body) /\ Len(body) > 0 => n + 1 >= 2 /\ TellsFound(stream[n + 1 - 1])
    <2> SUFFICES ASSUME Searched(body), Len(body) > 0
                 PROVE  n + 1 >= 2 /\ TellsFound(stream[n + 1 - 1])
      OBVIOUS
    <2>1. n \in DOMAIN body /\ n + 1 - 1 = n /\ n + 1 >= 2
      BY <1>3 DEF n
    <2>2. TellsFound(body[n]) /\ stream[n] = body[n]
      BY <1>2, <2>1 DEF Searched, n
    <2> QED
      BY <2>1, <2>2
  <1>10. n + 1 >= 1
    BY <1>3
  <1> QED
    BY <1>3, <1>4, <1>6, <1>7, <1>8, <1>9, <1>10 DEF Ends

\* A turn after which the search goes on.
LEMMA NothingAfter ==
  ASSUME NEW body, EventsIn(body, Midway), NEW stream, Concat(stream, body, <<>>)
  PROVE  EventsIn(stream, Midway) /\ Len(stream) = Len(body) /\ (Searched(body) => Searched(stream))
  <1>1. IsList(body) /\ IsList(<<>>) /\ EventsIn(<<>>, Midway)
    BY DEF EventsIn, IsList
  <1>2. EventsIn(stream, Midway)
    BY <1>1, ConcatEvents
  <1>6. Extended(stream, body, <<>>, Len(<<>>))
    BY <1>1, ConcatExtends
  <1>3. /\ Len(stream) = Len(body) + Len(<<>>) /\ \A i \in DOMAIN body : stream[i] = body[i]
    BY <1>6 DEF Extended
  <1>4. Len(stream) = Len(body)
    BY <1>1, <1>3 DEF IsList
  <1>5. Len(body) > 0 => Len(body) \in DOMAIN body
    BY <1>1 DEF IsList
  <1> QED
    BY <1>2, <1>3, <1>4, <1>5 DEF Searched

\* TurnTold ends the response as it may, or goes on after a search.
LEMMA TurnToldIs ==
  ASSUME NEW events, TurnEvents(events), NEW r, r = TurnAnswer(Last(events)),
         IsList(hosted.items), NEW h, NEW n, Advances(hosted, r, h, n), h.status # "error",
         NEW stream, stream = TurnTold(events, h)
  PROVE  /\ h.next => EventsIn(stream, Midway) /\ Searched(stream)
         /\ ~h.next => Ends(stream)
  <1> DEFINE offset == Len(hosted.items)
             told == ToldOf(events)
             first == Len(Last(events).output)
             found == [k \in 1..Len(h.items) - offset - first |-> h.items[offset + first + k]]
             extra == [k \in 1..2 * Len(found) |->
                        LET i == (k + 1) \div 2
                        IN Done(IF k % 2 = 1 THEN "added" ELSE "item_done", offset + first + i - 1,
                                found[i])]
             shifted == [i \in DOMAIN told |-> Shifted(told[i], offset)]
             body == shifted \o extra
             t == Terminal(h.status, h.items, h.usage)
             end == IF h.next THEN <<>> ELSE <<t>>
  <1>1. stream = body \o end
    BY Zenon DEF TurnTold, ToldOf
  <1>2. /\ IsList(events) /\ r.status \in Terminals /\ IsList(r.output)
        /\ r.output = Last(events).output
        /\ \A i \in DOMAIN events : events[i].type \notin Terminals => Telltale(r, events[i])
    BY TurnIs
  <1>3. From(told, events, Len(events))
    BY <1>2, ToldOfIs
  <1>4. IsList(told) /\ \A k \in DOMAIN told : Telltale(r, told[k])
    <2> HIDE DEF told
    <2>1. DOMAIN events = 1..Len(events)
      BY <1>2 DEF IsList
    <2> QED
      BY <1>2, <1>3, <2>1 DEF From
  <1>5. /\ SearchState(h) /\ n \in Nat /\ h.next \in BOOLEAN
        /\ Len(h.items) = offset + first + n
        /\ \A k \in 1..n : h.items[offset + first + k].type = "server_found"
        /\ h.next => r.status = "completed" /\ n > 0
        /\ ~h.next => \/ h.status = r.status /\ (r.status # "completed" => n = 0)
                      \/ h.status = "incomplete" /\ n > 0
    BY <1>2 DEF Advances
  <1>6. offset \in Nat /\ first \in Nat
    BY <1>2 DEF IsList
  <1>7. Len(h.items) - offset - first = n
    <2> HIDE DEF offset, first
    <2> QED
      BY <1>5, <1>6
  <1>8. DOMAIN found = 1..n /\ Len(found) = n /\ \A k \in 1..n : found[k] = h.items[offset + first + k]
    <2> HIDE DEF offset, first
    <2>1. found = [k \in 1..n |-> h.items[offset + first + k]]
      BY <1>7
    <2> HIDE DEF found
    <2> QED
      BY <1>5, <2>1
  <1>9. Results(extra, n)
    <2> DEFINE base == offset + first
    <2>1. Finds(found, n)
      BY <1>5, <1>8 DEF Finds
    <2> HIDE DEF found, offset, first
    <2>2. extra = [k \in 1..2 * n |->
                     LET i == (k + 1) \div 2
                     IN Done(IF k % 2 = 1 THEN "added" ELSE "item_done", base + i - 1, found[i])]
      BY <1>8
    <2> HIDE DEF extra, base
    <2> QED
      BY <1>5, <1>8, <2>1, <2>2, ExtraIs
  <1>10. Concat(body, shifted, extra) /\ Concat(stream, body, end)
    BY <1>1 DEF Concat
  <1>11. shifted = [i \in DOMAIN told |-> Shifted(told[i], offset)]
    OBVIOUS
  <1>12. end = IF h.next THEN <<>> ELSE <<t>>
    OBVIOUS
  <1>13. IsEvent(t) /\ t.type = h.status
    <2>1. IsList(h.items)
      BY <1>5 DEF SearchState
    <2> QED
      BY <2>1, TerminalIs
  <1> HIDE DEF told, first, found, extra, shifted, body, t, end, offset
  <1>17. TurnShown(r, n, body)
    BY <1>4, <1>5, <1>9, <1>10, <1>11, BodyIs
  <1>14. /\ EventsIn(body, Midway)
         /\ n > 0 => Searched(body) /\ Len(body) > 0
         /\ n = 0 => \A i \in DOMAIN body : Telltale(r, body[i])
    BY <1>17 DEF TurnShown
  <1>15. CASE h.next
    <2>1. Concat(stream, body, <<>>) /\ Searched(body)
      BY <1>5, <1>10, <1>12, <1>14, <1>15
    <2> QED
      BY <1>14, <1>15, <2>1, NothingAfter
  <1>16. CASE ~h.next
    <2>1. t.type \in Terminals
      BY <1>2, <1>5, <1>13, <1>16 DEF Terminals
    <2>2. \/ t.type = "completed"
          \/ \A i \in DOMAIN body : /\ body[i].type \in Feeding
                                    /\ P.request.schema => body[i].type # "delta"
          \/ t.type = "incomplete" /\ Searched(body) /\ Len(body) > 0
      BY <1>5, <1>13, <1>14, <1>16 DEF Telltale
    <2>3. end = <<t>>
      BY <1>12, <1>16
    <2>4. Ends(stream)
      BY <1>10, <1>13, <1>14, <2>1, <2>2, <2>3, EndsIs
    <2> QED
      BY <1>16, <2>4
  <1> QED
    BY <1>5, <1>15, <1>16

\* Numbers do not matter to the promise.
LEMMA RenumberedKeeps ==
  ASSUME NEW es, Events(es), NEW n, NEW fs, fs = Renumbered(es, n)
  PROVE  /\ Events(fs) /\ Len(fs) = Len(es)
         /\ Ends(es) => Ends(fs)
         /\ Searched(es) => Searched(fs)
         /\ EventsIn(es, Midway) => EventsIn(fs, Midway)
  <1>1. /\ Events(fs) /\ Len(fs) = Len(es)
        /\ \A i \in DOMAIN es : fs[i].type = es[i].type /\ fs[i].item = es[i].item
    BY RenumberedIs
  <1>2. DOMAIN fs = DOMAIN es /\ DOMAIN es = 1..Len(es) /\ Len(es) \in Nat
    BY <1>1 DEF Events, IsList
  <1>3. \A i \in DOMAIN es : TellsFound(es[i]) => TellsFound(fs[i])
    BY <1>1 DEF TellsFound
  <1>4. ASSUME Ends(es) PROVE Ends(fs)
    <2> DEFINE m == Len(es)
    <2>1. /\ m >= 1 /\ es[m].type \in Terminals
          /\ \A i \in DOMAIN es : i < m => es[i].type \in Midway
          /\ \/ es[m].type = "completed"
             \/ \A i \in DOMAIN es : i < m => /\ es[i].type \in Feeding
                                              /\ P.request.schema => es[i].type # "delta"
             \/ es[m].type = "incomplete" /\ m >= 2 /\ TellsFound(es[m - 1])
      BY <1>4 DEF Ends
    <2>2. m \in DOMAIN es /\ (m >= 2 => m - 1 \in DOMAIN es) /\ m = Len(fs)
      BY <1>1, <1>2, <2>1
    <2> HIDE DEF m, TellsFound
    <2>3. /\ fs[m].type \in Terminals
          /\ \A i \in DOMAIN fs : i < m => fs[i].type \in Midway
          /\ \/ fs[m].type = "completed"
             \/ \A i \in DOMAIN fs : i < m => /\ fs[i].type \in Feeding
                                              /\ P.request.schema => fs[i].type # "delta"
             \/ fs[m].type = "incomplete" /\ m >= 2 /\ TellsFound(fs[m - 1])
      BY <1>1, <1>2, <1>3, <2>1, <2>2
    <2> QED
      BY <1>1, <2>1, <2>2, <2>3 DEF Ends
  <1>5. Searched(es) => Searched(fs)
    <2>1. Len(es) > 0 => Len(es) \in DOMAIN es
      BY <1>2
    <2> HIDE DEF TellsFound
    <2> QED
      BY <1>1, <1>3, <2>1 DEF Searched
  <1>6. EventsIn(es, Midway) => EventsIn(fs, Midway)
    BY <1>1, <1>2 DEF EventsIn, Events
  <1> QED
    BY <1>1, <1>4, <1>5, <1>6

HostedFit(o, h, req) ==
  /\ DOMAIN o = OutFields /\ EventsIn(o.wire, Midway) /\ Searched(o.wire)
  /\ SearchState(h) /\ req.schema = P.request.schema

HostedTold(stream, told) ==
  /\ DOMAIN told = OutFields
  /\ Ends(stream) => Fair(P, told.wire, ItemsOf(told.wire))
  /\ EventsIn(stream, Midway) /\ Searched(stream)
       => EventsIn(told.wire, Midway) /\ Searched(told.wire)

\* The wire of a hosted search after one more turn.
LEMMA HostedTells ==
  ASSUME P.shape = "responses", IsHosted, NEW o, DOMAIN o = OutFields, EventsIn(o.wire, Midway),
         Searched(o.wire), NEW stream, NEW told,
         told = [o EXCEPT !.wire = @ \o Renumbered(stream, Len(@))]
  PROVE  HostedTold(stream, told)
  <1> DEFINE before == o.wire
             es == Renumbered(stream, Len(before))
             wire == told.wire
  <1>1. Concat(wire, before, es) /\ DOMAIN told = OutFields
    BY DEF OutFields, Concat
  <1>2. IsList(before) /\ EventsIn(before, Midway) /\ Searched(before)
    BY DEF EventsIn
  <1>3. es = Renumbered(stream, Len(before))
    OBVIOUS
  <1> HIDE DEF before, es, wire
  <1>4. ASSUME Ends(stream) PROVE Fair(P, wire, ItemsOf(wire))
    <2>1. Events(stream)
      BY <1>4 DEF Ends
    <2>2. Ends(es) /\ Events(es)
      BY <1>3, <1>4, <2>1, RenumberedKeeps
    <2>3. IsList(es)
      BY <2>2 DEF Events
    <2>4. Extended(wire, before, es, Len(es))
      BY <1>1, <1>2, <2>3, ConcatExtends
    <2> QED
      BY <1>2, <2>2, <2>4, HostedFair
  <1>5. ASSUME EventsIn(stream, Midway), Searched(stream)
        PROVE  EventsIn(wire, Midway) /\ Searched(wire)
    <2>1. Events(stream)
      BY <1>5 DEF Events, EventsIn
    <2>2. EventsIn(es, Midway) /\ Searched(es)
      BY <1>3, <1>5, <2>1, RenumberedKeeps
    <2>3. IsList(es)
      BY <2>2 DEF EventsIn
    <2>4. EventsIn(wire, Midway)
      BY <1>1, <1>2, <2>2, ConcatEvents
    <2>5. Extended(wire, before, es, Len(es))
      BY <1>1, <1>2, <2>3, ConcatExtends
    <2>6. /\ Len(wire) = Len(before) + Len(es)
          /\ \A k \in DOMAIN before : wire[k] = before[k]
          /\ \A k \in 1..Len(es) : wire[Len(before) + k] = es[k]
      BY <2>5 DEF Extended
    <2>7. /\ Len(before) \in Nat /\ Len(es) \in Nat
          /\ Len(es) > 0 => Len(es) \in 1..Len(es)
          /\ Len(before) > 0 => Len(before) \in DOMAIN before
      BY <1>2, <2>3 DEF IsList
    <2>8. Len(wire) > 0 => TellsFound(wire[Len(wire)])
      <3>1. CASE Len(es) > 0
        <4>1. TellsFound(es[Len(es)]) /\ wire[Len(wire)] = es[Len(es)]
          BY <2>2, <2>6, <2>7, <3>1 DEF Searched
        <4> HIDE DEF TellsFound
        <4> QED
          BY <4>1
      <3>2. CASE Len(es) = 0 /\ Len(before) > 0
        <4>1. TellsFound(before[Len(before)]) /\ Len(wire) = Len(before)
          BY <1>2, <2>6, <2>7, <3>2 DEF Searched
        <4>2. wire[Len(wire)] = before[Len(before)]
          BY <2>6, <2>7, <3>2, <4>1
        <4> HIDE DEF TellsFound
        <4> QED
          BY <4>1, <4>2
      <3> QED
        BY <2>6, <2>7, <3>1, <3>2
    <2> QED
      BY <2>4, <2>8 DEF Searched
  <1> QED
    BY <1>1, <1>4, <1>5 DEF wire, HostedTold

\* A turn that broke.
LEMMA FailedEnds ==
  ASSUME NEW output, IsList(output), NEW x, NEW stream,
         stream = <<Terminal("failed", output, x)>>
  PROVE  Ends(stream)
  <1> DEFINE t == Terminal("failed", output, x)
  <1>1. IsEvent(t) /\ t.type = "failed"
    BY TerminalIs
  <1> HIDE DEF t
  <1>2. stream = <<t>>
    BY DEF t
  <1>3. Len(stream) = 1 /\ DOMAIN stream = {1} /\ stream[1] = t
    BY <1>2
  <1>4. \A i \in DOMAIN stream : ~(i < 1)
    BY <1>3
  <1>5. IsList(stream)
    BY <1>3 DEF IsList
  <1>6. Events(stream)
    BY <1>1, <1>3, <1>5 DEF Events
  <1> QED
    BY <1>1, <1>3, <1>4, <1>6 DEF Ends, Terminals

\* The schema of a request stays with what it is converted to.
LEMMA ConvertKeepsSchema ==
  ASSUME NEW r, NEW id, NEW to
  PROVE  ConvertRequest(r, id, to).schema = r.schema
  BY DEF ConvertRequest, Request

\* One native turn of a hosted search.
TurnSaid(fed, req) ==
  IF fed.ended THEN fed ELSE [Finish(fed, req) EXCEPT !.events = fed.events \o @]
TurnMade(turned, named) ==
  IF ~turned.ok THEN [hosted EXCEPT !.status = "error", !.next = FALSE]
  ELSE Advance(hosted, TurnAnswer(Last(turned.events)), named, Rounds)

\* SearchTurn, by its parts.
LEMMA TurnSaidIs ==
  ASSUME NEW c, IsList(c.parts), NEW req, req.schema = P.request.schema, NEW turned,
         turned = TurnSaid(Feed(Fresh, c, req), req), turned.ok
  PROVE  TurnEvents(turned.events)
  <1> DEFINE fed == Feed(Fresh, c, req)
             end == Finish(fed, req)
  <1>1. fed = Feed(Fresh, c, req)
    OBVIOUS
  <1>2. /\ fed.ended => turned = fed
        /\ ~fed.ended => turned = [end EXCEPT !.events = fed.events \o @]
    BY DEF TurnSaid
  <1>3. end = Finish(fed, req)
    OBVIOUS
  <1> HIDE DEF fed, end
  <1>4. /\ fed.ended /\ fed.ok => TurnEvents(fed.events)
        /\ ~fed.ended => Conv(fed) /\ Quiet(fed.events)
    BY <1>1, FedTurn
  <1>5. CASE fed.ended
    <2>1. turned = fed
      BY <1>2, <1>5
    <2> QED
      BY <1>4, <1>5, <2>1
  <1>6. CASE ~fed.ended
    BY <1>2, <1>3, <1>4, <1>6, EndedTurn, ZenonT(30)
  <1> QED
    BY <1>5, <1>6

\* What a search has once a turn is over.
LEMMA TurnItems ==
  ASSUME SearchState(hosted), NEW c, IsList(c.parts), NEW req,
         req.schema = P.request.schema, NEW turned, turned = TurnSaid(Feed(Fresh, c, req), req),
         NEW named, NEW h, h = TurnMade(turned, named)
  PROVE  IsList(h.items)
  <1>1. CASE ~turned.ok
    <2>1. h = [hosted EXCEPT !.status = "error", !.next = FALSE]
      BY <1>1 DEF TurnMade
    <2> QED
      BY <2>1 DEF SearchState, HostedFields
  <1>2. CASE turned.ok
    <2> DEFINE r == TurnAnswer(Last(turned.events))
    <2>1. h = Advance(hosted, r, named, Rounds) /\ r = TurnAnswer(Last(turned.events))
      BY <1>2 DEF TurnMade
    <2>2. TurnEvents(turned.events)
      BY <1>2, TurnSaidIs
    <2> HIDE DEF r
    <2>3. IsList(r.output)
      BY <2>1, <2>2, TurnIs
    <2> QED
      BY <2>1, <2>3, AdvanceIs
  <1> QED
    BY <1>1, <1>2

LEMMA TurnMadeIs ==
  ASSUME SearchState(hosted), NEW c, IsList(c.parts), NEW req,
         req.schema = P.request.schema, NEW turned, turned = TurnSaid(Feed(Fresh, c, req), req),
         NEW named, NEW h, h = TurnMade(turned, named), h.status # "error",
         NEW stream, stream = TurnTold(turned.events, h)
  PROVE  /\ SearchState(h) /\ h.next \in BOOLEAN
         /\ h.next => EventsIn(stream, Midway) /\ Searched(stream)
         /\ ~h.next => Ends(stream)
  <1>1. turned.ok
    <2> SUFFICES ASSUME ~turned.ok PROVE FALSE
      OBVIOUS
    <2>1. h = [hosted EXCEPT !.status = "error", !.next = FALSE]
      BY DEF TurnMade
    <2>2. h.status = "error"
      BY <2>1 DEF SearchState, HostedFields
    <2> QED
      BY <2>2
  <1> DEFINE r == TurnAnswer(Last(turned.events))
  <1>2. h = Advance(hosted, r, named, Rounds)
    BY <1>1 DEF TurnMade
  <1>3. TurnEvents(turned.events)
    BY <1>1, TurnSaidIs
  <1>4. r = TurnAnswer(Last(turned.events))
    OBVIOUS
  <1> HIDE DEF r
  <1>5. IsList(r.output)
    BY <1>3, <1>4, TurnIs
  <1>6. PICK n : Advances(hosted, r, h, n)
    BY <1>2, <1>5, AdvanceIs
  <1>7. SearchState(h) /\ h.next \in BOOLEAN
    BY <1>6 DEF Advances
  <1>8. /\ h.next => EventsIn(stream, Midway) /\ Searched(stream)
        /\ ~h.next => Ends(stream)
    <2>1. IsList(hosted.items)
      BY DEF SearchState
    <2> QED
      BY <1>3, <1>4, <1>6, <2>1, TurnToldIs
  <1> QED
    BY <1>7, <1>8

TurnBreaks(h, next) == h.status = "error" \/ ~next.ok
StreamOf(turned, h, next) ==
  IF TurnBreaks(h, next) THEN <<Terminal("failed", h.items, h.usage)>> ELSE TurnTold(turned.events, h)
NextOf(h) == IF h.next THEN ConvertRequest(h.request, 100 * turn + h.rounds, route) ELSE q
TurnShows(turned, h, next) ==
  /\ hosted' = IF TurnBreaks(h, next) THEN [h EXCEPT !.status = "error"] ELSE h
  /\ q' = IF TurnBreaks(h, next) THEN q ELSE next
  /\ phase' = IF ~TurnBreaks(h, next) /\ h.next THEN "open" ELSE "done"
  /\ out' = IF Streams THEN [out EXCEPT !.wire = @ \o Renumbered(StreamOf(turned, h, next), Len(@))]
            ELSE out
  /\ reply' = IF phase' = "open" THEN reply
              ELSE IF Streams THEN Received(out'.wire)
              ELSE IF TurnBreaks(h, next) THEN Whole("error", <<>>, 0)
              ELSE Whole(h.status, h.items, h.usage)

TurnDoes(c, fed, turned, h, next) ==
  LET broken == h.status = "error" \/ ~next.ok
      stream == IF broken THEN <<Terminal("failed", h.items, h.usage)>>
                ELSE TurnTold(turned.events, h)
  IN /\ hosted' = IF broken THEN [h EXCEPT !.status = "error"] ELSE h
     /\ s' = fed
     /\ used' = IF broken THEN used ELSE [used EXCEPT !.past = @ + c.usage]
     /\ q' = IF broken THEN q ELSE next
     /\ sent' = q'.contents
     /\ native' = IF broken THEN native ELSE native \o c.parts
     /\ phase' = IF ~broken /\ h.next THEN "open" ELSE "done"
     /\ out' = IF Streams THEN [out EXCEPT !.wire = @ \o Renumbered(stream, Len(@))] ELSE out
     /\ reply' = IF phase' = "open" THEN reply
                 ELSE IF Streams THEN Received(out'.wire)
                 ELSE IF broken THEN Whole("error", <<>>, 0)
                 ELSE Whole(h.status, h.items, h.usage)

\* SearchTurn is made of these.
LEMMA SearchTurnIs ==
  ASSUME NEW c, SearchTurn(c)
  PROVE  \E named, turned, h, next :
           /\ turned = TurnSaid(Feed(Fresh, c, q), q) /\ h = TurnMade(turned, named)
           /\ next = NextOf(h) /\ TurnShows(turned, h, next)
  <1>1. \E fed \in {Feed(Fresh, c, q)} :
        \E named \in SUBSET (q.tools \ {"search"}) :
        \E turned \in {TurnSaid(fed, q)} :
        \E h \in {TurnMade(turned, named)} :
        \E next \in {NextOf(h)} : TurnDoes(c, fed, turned, h, next)
    BY Zenon DEF SearchTurn, TurnSaid, TurnMade, NextOf, TurnDoes
  <1>2. ASSUME NEW fed, NEW turned, NEW h, NEW next, TurnDoes(c, fed, turned, h, next)
        PROVE  TurnShows(turned, h, next)
    BY <1>2, Zenon DEF TurnDoes, TurnShows, TurnBreaks, StreamOf
  <1> QED
    BY <1>1, <1>2

\* A turn of a hosted search keeps the promise.
LEMMA SearchTurnKeeps ==
  ASSUME P.stream, P.shape = "responses", IsHosted, HostedFit(out, hosted, q),
         NEW c, IsList(c.parts), SearchTurn(c)
  PROVE  /\ phase' \in {"open", "done"}
         /\ phase' = "open" => HostedFit(out', hosted', q')
         /\ phase' = "done" => Fair(P, out'.wire, reply')
  <1>2. PICK named, turned, h, next :
          /\ turned = TurnSaid(Feed(Fresh, c, q), q) /\ h = TurnMade(turned, named)
          /\ next = NextOf(h) /\ TurnShows(turned, h, next)
    BY SearchTurnIs
  <1> DEFINE broken == TurnBreaks(h, next)
             stream == StreamOf(turned, h, next)
             told == [out EXCEPT !.wire = @ \o Renumbered(stream, Len(@))]
  <1>3. /\ hosted' = (IF broken THEN [h EXCEPT !.status = "error"] ELSE h)
        /\ q' = (IF broken THEN q ELSE next)
        /\ phase' = (IF ~broken /\ h.next THEN "open" ELSE "done")
        /\ out' = told
        /\ phase' # "open" => reply' = ItemsOf(out'.wire)
    <2>1. Streams
      BY DEF Streams
    <2>2. Received(out'.wire) = ItemsOf(out'.wire)
      BY DEF Received
    <2>3. /\ hosted' = (IF broken THEN [h EXCEPT !.status = "error"] ELSE h)
          /\ q' = (IF broken THEN q ELSE next)
          /\ phase' = (IF ~broken /\ h.next THEN "open" ELSE "done")
          /\ out' = IF Streams THEN told ELSE out
      BY <1>2, Zenon DEF TurnShows
    <2>5. phase' # "open" => reply' = ItemsOf(out'.wire)
      <3> DEFINE x == Received(out'.wire)
                 y == IF broken THEN Whole("error", <<>>, 0) ELSE Whole(h.status, h.items, h.usage)
      <3>1. reply' = IF phase' = "open" THEN reply ELSE IF Streams THEN x ELSE y
        BY <1>2, Zenon DEF TurnShows
      <3> HIDE DEF x, y
      <3>2. phase' # "open" => reply' = x
        BY <2>1, <3>1
      <3> QED
        BY <2>2, <3>2 DEF x
    <2> HIDE DEF told, broken
    <2> QED
      BY <2>1, <2>3, <2>5
  <1>5. /\ DOMAIN out = OutFields /\ EventsIn(out.wire, Midway) /\ Searched(out.wire)
        /\ SearchState(hosted) /\ q.schema = P.request.schema
    BY DEF HostedFit
  <1>6. /\ broken => stream = <<Terminal("failed", h.items, h.usage)>>
        /\ ~broken => stream = TurnTold(turned.events, h) /\ h.status # "error"
    BY DEF TurnBreaks, StreamOf
  <1>7. told = [out EXCEPT !.wire = @ \o Renumbered(stream, Len(@))]
    OBVIOUS
  <1>11. h.next => next = ConvertRequest(h.request, 100 * turn + h.rounds, route)
    BY <1>2 DEF NextOf
  <1> HIDE DEF broken, stream, told
  <1>8. /\ DOMAIN out' = OutFields
        /\ Ends(stream) => Fair(P, out'.wire, ItemsOf(out'.wire))
        /\ EventsIn(stream, Midway) /\ Searched(stream)
             => EventsIn(out'.wire, Midway) /\ Searched(out'.wire)
    <2>1. HostedTold(stream, told)
      BY <1>5, <1>7, HostedTells
    <2>2. out' = told
      BY <1>3
    <2> QED
      BY <2>1, <2>2 DEF HostedTold
  <1>9. CASE broken
    <2>1. IsList(h.items)
      BY <1>2, <1>5, TurnItems
    <2>3. Ends(stream)
      BY <1>6, <1>9, <2>1, FailedEnds
    <2>2. phase' = "done" /\ reply' = ItemsOf(out'.wire)
      BY <1>3, <1>9
    <2> QED
      BY <1>8, <2>2, <2>3
  <1>10. CASE ~broken
    <2>1. /\ SearchState(h) /\ h.next \in BOOLEAN
          /\ h.next => EventsIn(stream, Midway) /\ Searched(stream)
          /\ ~h.next => Ends(stream)
      BY <1>2, <1>5, <1>6, <1>10, TurnMadeIs
    <2>2. CASE h.next
      <3>1. next.schema = h.request.schema
        BY <1>11, <2>2, ConvertKeepsSchema
      <3>2. h.request.schema = P.request.schema
        BY <2>1 DEF SearchState
      <3>3. hosted' = h /\ q' = next /\ phase' = "open"
        BY <1>3, <1>10, <2>2
      <3>4. HostedFit(out', hosted', q')
        BY <1>8, <2>1, <2>2, <3>1, <3>2, <3>3 DEF HostedFit
      <3> QED
        BY <3>3, <3>4
    <2>3. CASE ~h.next
      <3>1. phase' = "done" /\ reply' = ItemsOf(out'.wire)
        BY <1>3, <1>10, <2>3
      <3> QED
        BY <1>8, <2>1, <2>3, <3>1
    <2> QED
      BY <2>2, <2>3
  <1> QED
    BY <1>9, <1>10

---------------------------------------------------------------------------
(* The actions.                                                            *)
\* A stream that has not ended.
TellsFit == /\ Conv(s) /\ EventsIn(pending, Feeding) /\ Going(out)
            /\ P.shape = "responses" =>
                 Quiet(out.wire) /\ Quiet(pending) /\ q.schema = P.request.schema
NativeFit ==
  phase = "open" /\ NativeGoes(s) /\ DOMAIN out = OutFields /\ Typed(out.wire, PlainEvents)
Fit ==
  P.stream /\ phase \in {"open", "retry"} =>
    /\ P.shape = "native" => NativeFit
    /\ IsHosted => phase = "open" /\ HostedFit(out, hosted, q)
    /\ P.shape # "native" /\ ~IsHosted => TellsFit

Facades == {"responses", "chat", "messages"}

\* Closes keeps the promise.
LEMMA ClosesFair ==
  ASSUME P.shape \in Facades, ~IsHosted, Going(out), P.shape = "responses" => Quiet(out.wire),
         NEW events, Events(events), P.shape = "responses" => ClosingEvents(events), Closes(events)
  PROVE  phase' = "done" /\ Fair(P, out'.wire, reply')
  <1>1. Fair(P, PassEof(Passed(events)).wire, Received(PassEof(Passed(events)).wire))
    BY ToldFair DEF Facades
  <1>2. out' = PassEof(Passed(events)) /\ reply' = Received(out'.wire) /\ phase' = "done"
    BY DEF Closes
  <1> QED
    BY <1>1, <1>2

\* A wire that stays quiet.
LEMMA ExtendedQuiet ==
  ASSUME NEW before, Quiet(before), NEW es, Quiet(es), NEW wire, Extended(wire, before, es, Len(es))
  PROVE  Quiet(wire)
  <1>1. IsList(before) /\ IsList(es)
    BY DEF Quiet, EventsIn
  <1>2. /\ IsList(wire)
        /\ \A i \in DOMAIN wire : \/ i \in DOMAIN before /\ wire[i] = before[i]
                                  \/ i - Len(before) \in DOMAIN es /\ wire[i] = es[i - Len(before)]
    BY <1>1, ExtendedIs
  <1>3. /\ \A i \in DOMAIN before : /\ IsEvent(before[i]) /\ before[i].type \in Feeding
                                    /\ P.request.schema => before[i].type # "delta"
        /\ \A i \in DOMAIN es : /\ IsEvent(es[i]) /\ es[i].type \in Feeding
                                /\ P.request.schema => es[i].type # "delta"
    BY DEF Quiet, EventsIn, Textless
  <1>4. \A i \in DOMAIN wire : /\ IsEvent(wire[i]) /\ wire[i].type \in Feeding
                               /\ P.request.schema => wire[i].type # "delta"
    BY <1>2, <1>3
  <1> QED
    BY <1>2, <1>4 DEF Quiet, EventsIn, Textless

LEMMA FeedingEvents ==
  ASSUME NEW es, EventsIn(es, Feeding)
  PROVE  Events(es)
  BY DEF EventsIn, Events

\* Passed leaves the stream as it was, with more on it.
LEMMA PassedGoes ==
  ASSUME P.shape \in Facades, Going(out), P.shape = "responses" => Quiet(out.wire),
         NEW events, EventsIn(events, Feeding), P.shape = "responses" => Quiet(events)
  PROVE  Going(Passed(events)) /\ (P.shape = "responses" => Quiet(Passed(events).wire))
  <1> DEFINE a == [wire |-> out.wire, events |-> events]
             o == Passed(events)
  <1>1. Telling(a, Len(events), o) /\ a.wire = out.wire /\ a.events = events
    BY FeedingEvents, PassedIs
  <1> HIDE DEF a, o
  <1>2. CASE P.shape = "responses"
    <2>1. Extended(o.wire, out.wire, events, Len(events)) /\ OutState(o)
      BY <1>1, <1>2 DEF Telling
    <2>2. Quiet(o.wire)
      BY <1>2, <2>1, ExtendedQuiet
    <2>3. Going(o)
      BY <1>2, <2>1 DEF Going, Extended
    <2> QED
      BY <1>2, <2>2, <2>3 DEF o
  <1>3. CASE P.shape = "chat"
    <2>1. OutState(o) /\ ChatFine(o)
      BY <1>1, <1>3 DEF Telling
    <2>2. Going(o)
      BY <1>3, <2>1 DEF Going, ChatFine, Chunks
    <2> QED
      BY <1>3, <2>2 DEF o
  <1>4. CASE P.shape = "messages"
    <2>1. OutState(o) /\ MessagesGo(o)
      BY <1>1, <1>4 DEF Telling
    <2>2. Going(o)
      BY <1>4, <2>1 DEF Going, MessagesGo, Typed
    <2> QED
      BY <1>4, <2>2 DEF o
  <1> QED
    BY <1>2, <1>3, <1>4 DEF Facades

LEMMA JoinLast ==
  ASSUME NEW kept, Quiet(kept), NEW es, Final(es)
  PROVE  ClosingEvents(kept \o es)
  BY DEF ClosingEvents

\* A native event in a stream keeps the promise or the state it needs.
LEMMA EventKeeps ==
  ASSUME P.shape \in Facades, ~IsHosted, TellsFit, phase = "open", NEW c, IsList(c.parts),
         NEW more \in BOOLEAN, Event1(c, more), UNCHANGED <<profile, q>>
  PROVE  \/ phase' = "done" /\ Fair(P, out'.wire, reply')
         \/ phase' = "open" /\ TellsFit'
  <1>1. PICK fed : /\ fed = Feed(s, c, q)
                   /\ IF ~fed.ok
                      THEN s' = Fail(fed, q) /\ Closes(s'.events)
                      ELSE /\ s' = fed
                           /\ IF fed.ended THEN Closes(pending \o fed.events)
                              ELSE IF more
                              THEN pending' = pending \o fed.events /\ UNCHANGED <<out, reply, phase>>
                              ELSE /\ out' = Passed(pending \o fed.events)
                                   /\ pending' = <<>> /\ UNCHANGED <<reply, phase>>
    BY DEF Event1
  <1>2. /\ Conv(s) /\ EventsIn(pending, Feeding) /\ Going(out)
        /\ P.shape = "responses" =>
             Quiet(out.wire) /\ Quiet(pending) /\ q.schema = P.request.schema
    BY DEF TellsFit
  <1>3. \/ Failed(fed)
        \/ Conv(fed) /\ (q.schema /\ fed.ok => Textless(fed.events))
    BY <1>1, <1>2, FeedIs
  <1>4. CASE Failed(fed)
    <2>1. Final(fed.events) /\ Events(fed.events) /\ fed.ok /\ fed.ended
      BY <1>4, FailedFinal DEF Failed
    <2>2. Closes(pending \o fed.events)
      BY <1>1, <2>1
    <2>3. Events(pending \o fed.events)
      BY <1>2, <2>1, JoinsEvents
    <2>4. P.shape = "responses" => ClosingEvents(pending \o fed.events)
      BY <1>2, <2>1, JoinLast
    <2> QED
      BY <1>2, <2>2, <2>3, <2>4, ClosesFair
  <1>5. CASE Conv(fed) /\ ~fed.ok
    <2>1. Failed(s') /\ Closes(s'.events)
      BY <1>1, <1>5, FailIs DEF Conv
    <2>2. Final(s'.events) /\ Events(s'.events)
      BY <2>1, FailedFinal
    <2>3. ClosingEvents(s'.events)
      BY <2>2 DEF ClosingEvents
    <2> QED
      BY <1>2, <2>1, <2>2, <2>3, ClosesFair
  <1>6. CASE Conv(fed) /\ fed.ok
    <2>1. ~fed.ended /\ EventsIn(fed.events, Feeding)
      BY <1>6 DEF Conv
    <2>2. EventsIn(pending \o fed.events, Feeding)
      BY <1>2, <2>1, JoinEvents
    <2>3. P.shape = "responses" => Quiet(fed.events)
      <3>1. CASE Failed(fed)
        BY <2>1, <3>1 DEF Failed
      <3>2. CASE q.schema /\ fed.ok => Textless(fed.events)
        BY <1>2, <1>6, <2>1, <3>2 DEF Quiet
      <3> QED
        BY <1>3, <3>1, <3>2
    <2>4. P.shape = "responses" => Quiet(pending \o fed.events)
      BY <1>2, <2>3, JoinQuiet
    <2> DEFINE all == pending \o fed.events
    <2>5. EventsIn(all, Feeding) /\ (P.shape = "responses" => Quiet(all))
      BY <2>2, <2>4
    <2>6. /\ s' = fed
          /\ IF more THEN pending' = all /\ UNCHANGED <<out, reply, phase>>
             ELSE out' = Passed(all) /\ pending' = <<>> /\ UNCHANGED <<reply, phase>>
      BY <1>1, <1>6, <2>1
    <2> HIDE DEF all
    <2>7. P' = P
      BY DEF P
    <2>8. CASE more
      <3>1. /\ Conv(s)' /\ EventsIn(pending, Feeding)' /\ Going(out)'
            /\ P.shape = "responses" => Quiet(out'.wire) /\ Quiet(pending')
        BY <1>2, <1>6, <2>5, <2>6, <2>7, <2>8 DEF Going, OutState, ChatFine, MessagesGo
      <3> QED
        BY <1>2, <2>6, <2>7, <2>8, <3>1 DEF TellsFit, Quiet, Textless
    <2>9. CASE ~more
      <3>1. Going(Passed(all)) /\ (P.shape = "responses" => Quiet(Passed(all).wire))
        BY <1>2, <2>5, PassedGoes
      <3>2. Quiet(<<>>) /\ EventsIn(<<>>, Feeding)
        BY QuietNone DEF Quiet
      <3> QED
        BY <1>2, <1>6, <2>6, <2>7, <2>9, <3>1, <3>2
           DEF TellsFit, Going, Quiet, Textless, OutState, ChatFine, MessagesGo
    <2> QED
      BY <2>8, <2>9
  <1> QED
    BY <1>3, <1>4, <1>5, <1>6 DEF Conv

\* The same, straight onto Gemini.
LEMMA WiderTyped ==
  ASSUME NEW types, NEW more, types \subseteq more, NEW es, Typed(es, types)
  PROVE  Typed(es, more)
  BY DEF Typed

LEMMA NativeFair ==
  ASSUME P.shape = "native", NEW wire, BlocksFine(wire)
  PROVE  Fair(P, wire, Received(wire))
  <1>1. Received(wire) = BlocksOf(wire)
    BY DEF Received
  <1> QED
    BY <1>1, BlocksFailed DEF Fair

LEMMA NativeTells ==
  ASSUME NEW wire, Typed(wire, PlainEvents), NEW es,
         Typed(es, {"error"}) \/ Committed(es)
  PROVE  BlocksFine(wire \o es)
  <1>1. CASE Typed(es, {"error"})
    <2>1. Typed(wire, PlainEvents \union {"error"}) /\ Typed(es, PlainEvents \union {"error"})
      BY <1>1, WiderTyped
    <2>2. Typed(wire \o es, PlainEvents \union {"error"})
      BY <2>1, JoinTyped
    <2> QED
      BY <2>2 DEF BlocksFine
  <1>2. CASE Committed(es)
    <2>1. Committed(wire)
      BY TypedCommits DEF PlainEvents
    <2>2. Committed(wire \o es)
      BY <1>2, <2>1, JoinCommits
    <2> QED
      BY <2>2 DEF BlocksFine
  <1> QED
    BY <1>1, <1>2

LEMMA NativeShows ==
  ASSUME P.shape = "native", NativeFit, NEW es, Typed(es, {"error"}) \/ Committed(es),
         out' = [out EXCEPT !.wire = @ \o es], reply' = Received(out'.wire)
  PROVE  Fair(P, out'.wire, reply')
  <1> DEFINE wire == out.wire \o es
  <1>1. out'.wire = wire
    BY DEF NativeFit, OutFields
  <1>2. BlocksFine(wire)
    BY NativeTells DEF NativeFit
  <1> HIDE DEF wire
  <1>3. Fair(P, wire, Received(wire))
    BY <1>2, NativeFair
  <1> QED
    BY <1>1, <1>3

LEMMA NativeEventKeeps ==
  ASSUME P.shape = "native", NativeFit, NEW c, IsList(c.parts), NativeEvent(c), UNCHANGED profile
  PROVE  \/ phase' = "done" /\ Fair(P, out'.wire, reply')
         \/ phase' = "open" /\ NativeFit'
  <1>1. PICK fed : /\ fed = NativeFeed(s, c, q)
                   /\ s' = fed /\ out' = [out EXCEPT !.wire = @ \o fed.events]
                   /\ IF fed.ended THEN phase' = "done" /\ reply' = Received(out'.wire)
                      ELSE UNCHANGED <<phase, reply>>
    BY DEF NativeEvent
  <1>2. NativeGoes(s) /\ phase = "open" /\ DOMAIN out = OutFields /\ Typed(out.wire, PlainEvents)
    BY DEF NativeFit
  <1>3. NativeGoes(fed) \/ (fed.ended = TRUE /\ Typed(fed.events, {"error"}))
    BY <1>1, <1>2, NativeFeedIs
  <1>4. CASE NativeGoes(fed)
    <2>1. ~fed.ended /\ Typed(fed.events, PlainEvents)
      BY <1>4 DEF NativeGoes
    <2> DEFINE wire == out.wire \o fed.events
    <2>2. Typed(wire, PlainEvents)
      BY <1>2, <2>1, JoinTyped
    <2>3. out'.wire = wire /\ DOMAIN out' = OutFields
      BY <1>1, <1>2 DEF OutFields
    <2> HIDE DEF wire
    <2>4. NativeFit'
      BY <1>1, <1>2, <1>4, <2>1, <2>2, <2>3 DEF NativeFit
    <2> QED
      BY <1>1, <1>2, <2>1, <2>4
  <1>5. CASE fed.ended = TRUE /\ Typed(fed.events, {"error"})
    <2>1. phase' = "done" /\ reply' = Received(out'.wire)
      BY <1>1, <1>5
    <2> QED
      BY <1>1, <1>5, <2>1, NativeShows
  <1> QED
    BY <1>3, <1>4, <1>5

---------------------------------------------------------------------------
\* A stream that begins.
LEMMA NewOutIs ==
  /\ Going(NewOut) /\ DOMAIN NewOut = OutFields /\ NewOut.wire = <<>>
  <1>1. DOMAIN NewOut = OutFields /\ NewOut.wire = <<>> /\ NewOut.chat = NewChat
        /\ NewOut.messages = NewMessages
    BY DEF NewOut, OutFields
  <1>2. DOMAIN NewChat = ChatFields /\ NewChat.ended = FALSE
    BY DEF NewChat, ChatFields
  <1>3. DOMAIN NewMessages = MessageFields /\ NewMessages.ended = FALSE
        /\ NewMessages.blocks = <<>> /\ NewMessages.finish = "none"
    BY DEF NewMessages, MessageFields
  <1>4. IsList(<<>>) /\ Typed(<<>>, PlainEvents) /\ Chunks(<<>>, PlainChunks)
    BY NoneTyped, NoChunk DEF IsList
  <1>5. ChatState(NewChat) /\ MessageState(NewMessages)
    BY <1>2, <1>3, <1>4 DEF ChatState, MessageState
  <1> QED
    BY <1>1, <1>2, <1>3, <1>4, <1>5 DEF Going, OutState, ChatFine, MessagesGo

ProfileFit == profile \in DOMAIN Profiles

\* What is assumed of the constants.
LEMMA ProfileIs ==
  ASSUME ProfileFit
  PROVE  /\ P.shape \in Shapes /\ "items" \in DOMAIN P.request /\ "schema" \in DOMAIN P.request
         /\ \A c \in Alphabet : "parts" \in DOMAIN c /\ IsList(c.parts)
  BY ConversationConstants DEF ProfileFit, P, Alphabet, IsList

LEMMA NumberedIs ==
  ASSUME NEW c, "parts" \in DOMAIN c, IsList(c.parts)
  PROVE  IsList(Numbered(c).parts)
  <1> DEFINE one(i) == [c.parts[i] EXCEPT !.text = [k \in DOMAIN @ |-> 10 * (frames + 1) + i],
                                          !.id = IF @ = <<0>> THEN <<10 * (frames + 1) + i>> ELSE @]
  <1>1. Numbered(c).parts = [i \in DOMAIN c.parts |-> one(i)]
    BY DEF Numbered
  <1> HIDE DEF one
  <1> QED
    BY <1>1 DEF IsList

---------------------------------------------------------------------------
\* A hosted search that begins.
LEMMA HostedFresh ==
  ASSUME ProfileFit, NEW x
  PROVE  SearchState(Hosted([P.request EXCEPT !.items = x]))
  <1> DEFINE r == [P.request EXCEPT !.items = x]
  <1>1. "schema" \in DOMAIN r /\ r.schema = P.request.schema
    BY ProfileIs
  <1> HIDE DEF r
  <1>2. /\ DOMAIN Hosted(r) = HostedFields /\ Hosted(r).items = <<>> /\ Hosted(r).request = r
    BY DEF Hosted, HostedFields
  <1>3. SearchState(Hosted(r))
    <2>1. IsList(<<>>)
      BY DEF IsList
    <2> QED
      BY <1>1, <1>2, <2>1 DEF SearchState
  <1> QED
    BY <1>3 DEF r

LEMMA ConvertsSchema ==
  ASSUME ProfileFit, P.shape = "responses", NEW x, NEW id, NEW to
  PROVE  Converts(x, id, to).schema = P.request.schema
  <1> DEFINE r == [P.request EXCEPT !.items = x]
             converted == ConvertRequest(r, id, to)
             items == [ok |-> TRUE, request |-> r]
  <1>1. r.schema = P.request.schema
    BY ProfileIs
  <1>2. Converts(x, id, to) =
          [ConvertRequest(r, id, to) EXCEPT !.by = P.by, !.ok = @ \/ P.by # "gemini"]
    BY DEF Converts
  <1>3. converted.schema = r.schema
    BY ConvertKeepsSchema
  <1>4. "schema" \in DOMAIN converted
    BY DEF ConvertRequest, Request
  <1> HIDE DEF converted
  <1>5. [converted EXCEPT !.by = P.by, !.ok = @ \/ P.by # "gemini"].schema = converted.schema
    BY <1>4
  <1> QED
    BY <1>1, <1>2, <1>3, <1>5 DEF converted

\* A request begins a stream that has not ended.
LEMMA AsksKeeps ==
  ASSUME ProfileFit, Asks
  PROVE  Fit' /\ phase' # "done"
  <1>1. /\ q' = Converts(history, turn + 1, route)
        /\ phase' \in {"refused", "open", "stopped"}
        /\ s' = IF P.shape = "native" THEN NewNative ELSE Fresh
        /\ pending' = <<>> /\ out' = NewOut
        /\ hosted' = Hosted([P.request EXCEPT !.items = IF P.shape = "responses" THEN history ELSE <<>>])
        /\ profile' = profile
    BY DEF Asks
  <1>2. P' = P /\ IsHosted' = IsHosted
    BY <1>1 DEF P, IsHosted
  <1>3. P.shape = "responses" => q'.schema = P.request.schema
    BY <1>1, ConvertsSchema
  <1>4. Quiet(<<>>) /\ EventsIn(<<>>, Feeding) /\ EventsIn(<<>>, Midway) /\ Searched(<<>>)
        /\ Typed(<<>>, PlainEvents)
    BY QuietNone, NoneTyped DEF Quiet, EventsIn, Searched
  <1>5. Going(NewOut) /\ DOMAIN NewOut = OutFields /\ NewOut.wire = <<>>
    BY NewOutIs
  <1>6. P.shape = "native" => NativeGoes(s')
    BY <1>1, NewNativeIs
  <1>7. P.shape # "native" => Conv(s')
    BY <1>1, FreshIs
  <1>8. SearchState(hosted')
    BY <1>1, HostedFresh
  <1>9. IsHosted => P.shape = "responses"
    BY DEF IsHosted
  <1>10. phase' \in {"open", "retry"} => phase' = "open"
    BY <1>1
  <1>11. ASSUME phase' \in {"open", "retry"}, P.shape = "native" PROVE NativeFit'
    BY <1>1, <1>4, <1>5, <1>6, <1>10, <1>11 DEF NativeFit
  <1>12. ASSUME IsHosted PROVE HostedFit(out, hosted, q)'
    BY <1>1, <1>2, <1>3, <1>4, <1>5, <1>8, <1>9, <1>12 DEF HostedFit, SearchState
  <1>13. ASSUME P.shape # "native" PROVE TellsFit'
    BY <1>1, <1>2, <1>3, <1>4, <1>5, <1>7, <1>13
       DEF TellsFit, Quiet, Textless, Going, OutState, ChatFine, MessagesGo
  <1>14. Fit'
    BY <1>2, <1>10, <1>11, <1>12, <1>13 DEF Fit
  <1> QED
    BY <1>1, <1>14

\* A turn that is over, or goes on.
Settles ==
  \/ phase' = "done" /\ Fair(P, out'.wire, reply')
  \/ phase' \in {"open", "retry"} /\ Fit'

\* The state that is needed, by the facade.
LEMMA StaysFit ==
  ASSUME UNCHANGED profile
  PROVE  /\ phase' \in {"open", "retry"} /\ P.shape \in Facades /\ ~IsHosted /\ TellsFit' => Fit'
         /\ P.shape = "native" /\ NativeFit' => Fit'
         /\ IsHosted /\ phase' = "open" /\ HostedFit(out', hosted', q') => Fit'
  <1>1. P' = P /\ IsHosted' = IsHosted
    BY DEF P, IsHosted
  <1>2. IsHosted => P.shape # "native"
    BY DEF IsHosted
  <1>3. P.shape \in Facades => P.shape # "native"
    BY DEF Facades
  <1>4. IsHosted /\ HostedFit(out', hosted', q') => HostedFit(out, hosted, q)'
    BY <1>1 DEF HostedFit, SearchState
  <1>5. NativeFit' => phase' = "open"
    BY DEF NativeFit
  <1>6. ASSUME P.shape = "native", NativeFit' PROVE Fit'
    <2>1. ~IsHosted'
      BY <1>1, <1>2, <1>6
    <2>2. P'.shape = "native"
      BY <1>1, <1>6
    <2> QED
      BY <1>6, <2>1, <2>2 DEF Fit
  <1>7. ASSUME IsHosted, phase' = "open", HostedFit(out', hosted', q') PROVE Fit'
    <2>1. IsHosted' /\ P'.shape # "native"
      BY <1>1, <1>2, <1>7
    <2>2. HostedFit(out, hosted, q)'
      BY <1>4, <1>7
    <2> QED
      BY <1>7, <2>1, <2>2 DEF Fit
  <1>8. ASSUME P.shape \in Facades, ~IsHosted, TellsFit' PROVE Fit'
    <2>1. ~IsHosted' /\ P'.shape # "native"
      BY <1>1, <1>3, <1>8
    <2> QED
      BY <1>8, <2>1 DEF Fit
  <1> QED
    BY <1>6, <1>7, <1>8

LEMMA FacadeIs ==
  ASSUME ProfileFit, P.shape # "native"
  PROVE  P.shape \in Facades
  BY ProfileIs DEF Shapes, Facades

\* Each action ends the turn as promised, or leaves it as it has to be.
LEMMA ArrivesSettles ==
  ASSUME ProfileFit, Fit, Arrives
  PROVE  Settles
  <1>1. phase = "open" /\ P.stream /\ ~IsHosted /\ profile' = profile /\ q' = q
    BY DEF Arrives, Streams
  <1>2. PICK c0 \in Alphabet, more \in BOOLEAN :
          IF P.shape = "native" THEN ~more /\ NativeEvent(Numbered(c0)) ELSE Event1(Numbered(c0), more)
    BY DEF Arrives
  <1>3. IsList(Numbered(c0).parts)
    BY ProfileIs, NumberedIs
  <1>4. CASE P.shape = "native"
    <2>1. NativeFit /\ NativeEvent(Numbered(c0))
      BY <1>1, <1>2, <1>4 DEF Fit
    <2>2. \/ phase' = "done" /\ Fair(P, out'.wire, reply')
          \/ phase' = "open" /\ NativeFit'
      BY <1>1, <1>3, <1>4, <2>1, NativeEventKeeps
    <2> QED
      BY <1>1, <1>4, <2>2, StaysFit DEF Settles
  <1>5. CASE P.shape # "native"
    <2>1. TellsFit /\ Event1(Numbered(c0), more) /\ P.shape \in Facades
      BY <1>1, <1>2, <1>5, FacadeIs DEF Fit
    <2>2. \/ phase' = "done" /\ Fair(P, out'.wire, reply')
          \/ phase' = "open" /\ TellsFit'
      BY <1>1, <1>3, <2>1, EventKeeps
    <2> QED
      BY <1>1, <2>1, <2>2, StaysFit DEF Settles
  <1> QED
    BY <1>4, <1>5

\* The stream ends with the converter's last word.
LEMMA FinalCloses ==
  ASSUME P.shape \in Facades, ~IsHosted, TellsFit, NEW es, es = <<>> \/ Final(es), Closes(es)
  PROVE  phase' = "done" /\ Fair(P, out'.wire, reply')
  <1>1. Events(es) /\ ClosingEvents(es)
    BY FinalEvents DEF ClosingEvents
  <1> QED
    BY <1>1, ClosesFair DEF TellsFit

LEMMA FailCloses ==
  ASSUME P.shape \in Facades, ~IsHosted, TellsFit, NEW t, DOMAIN t = FreshFields, NEW req,
         Closes(Fail(t, req).events)
  PROVE  phase' = "done" /\ Fair(P, out'.wire, reply')
  <1>1. Final(Fail(t, req).events)
    BY FailIs, FailedFinal
  <1> QED
    BY <1>1, FinalCloses

LEMMA TellsKept ==
  ASSUME TellsFit, UNCHANGED <<profile, out, pending, q>>, Conv(s')
  PROVE  TellsFit'
  BY DEF TellsFit, P, Quiet, Textless, Going, OutState, ChatFine, MessagesGo

LEMMA EofSettles ==
  ASSUME ProfileFit, Fit, Eof
  PROVE  Settles
  <1>1. phase = "open" /\ P.stream /\ ~IsHosted /\ profile' = profile /\ q' = q
    BY DEF Eof, Streams
  <1>2. CASE P.shape = "native"
    <2>1. NativeFit
      BY <1>1, <1>2 DEF Fit
    <2> DEFINE es == NativeEnd(s, q).events
    <2>2. /\ out' = [out EXCEPT !.wire = @ \o es]
          /\ phase' = "done" /\ reply' = Received(out'.wire)
      BY <1>2 DEF Eof
    <2>3. Typed(es, {"error"}) \/ Committed(es)
      BY <2>1, NativeEndIs DEF NativeFit
    <2> HIDE DEF es
    <2> QED
      BY <1>2, <2>1, <2>2, <2>3, NativeShows DEF Settles
  <1>3. CASE P.shape # "native"
    <2>1. TellsFit /\ P.shape \in Facades /\ Conv(s) /\ DOMAIN s = FreshFields
      BY <1>1, <1>3, FacadeIs DEF Fit, TellsFit, Conv
    <2>2. CASE q.by = "gemini" /\ Recoverable(s, q)
      <3>1. s' = Recovering(s) /\ phase' = "retry" /\ UNCHANGED <<out, pending>>
        BY <1>3, <2>2 DEF Eof
      <3>2. Conv(s')
        BY <2>1, <3>1, RecoveringKeeps
      <3>3. TellsFit'
        BY <1>1, <2>1, <3>1, <3>2, TellsKept
      <3> QED
        BY <1>1, <2>1, <3>1, <3>3, StaysFit DEF Settles
    <2>3. CASE ~(q.by = "gemini" /\ Recoverable(s, q))
      <3>1. PICK finished : /\ finished = Finish(s, q)
                            /\ s' = IF finished.ok THEN finished ELSE Fail(finished, q)
                            /\ Closes(s'.events)
        BY <1>3, <2>3 DEF Eof
      <3>2. DOMAIN finished = FreshFields /\ (finished.ok => Final(finished.events))
        BY <2>1, <3>1, FinishIs
      <3>3. CASE finished.ok
        <4>1. s' = finished /\ Final(s'.events) /\ Closes(s'.events)
          BY <3>1, <3>2, <3>3
        <4> QED
          BY <1>1, <2>1, <4>1, FinalCloses DEF Settles
      <3>4. CASE ~finished.ok
        <4>1. s' = Fail(finished, q) /\ Closes(s'.events)
          BY <3>1, <3>4
        <4>2. Closes(Fail(finished, q).events)
          BY <4>1
        <4> QED
          BY <1>1, <2>1, <3>2, <4>2, FailCloses DEF Settles
      <3> QED
        BY <3>3, <3>4
    <2> QED
      BY <2>2, <2>3
  <1> QED
    BY <1>2, <1>3

LEMMA ResumesSettles ==
  ASSUME ProfileFit, Fit, Resumes
  PROVE  Settles
  <1>1. phase = "retry" /\ P.stream /\ profile' = profile /\ q' = q
    BY DEF Resumes, Streams
  <1>2. P.shape # "native" /\ ~IsHosted
    BY <1>1 DEF Fit, NativeFit
  <1>3. TellsFit /\ P.shape \in Facades /\ Conv(s) /\ DOMAIN s = FreshFields
    BY <1>1, <1>2, FacadeIs DEF Fit, TellsFit, Conv
  <1>4. CASE phase' = "open" /\ UNCHANGED <<s, out, reply, pending>>
    <2>1. TellsFit'
      BY <1>1, <1>3, <1>4, TellsKept
    <2> QED
      BY <1>1, <1>2, <1>3, <1>4, <2>1, StaysFit DEF Settles
  <1>5. CASE s' = Fail(s, q) /\ Closes(s'.events)
    <2>1. Closes(Fail(s, q).events)
      BY <1>5
    <2> QED
      BY <1>2, <1>3, <2>1, FailCloses DEF Settles
  <1> QED
    BY <1>4, <1>5 DEF Resumes

LEMMA InterruptedSettles ==
  ASSUME ProfileFit, Fit, Interrupted
  PROVE  Settles
  <1>1. phase = "open" /\ P.stream /\ ~IsHosted /\ profile' = profile /\ q' = q
    BY DEF Interrupted, Streams
  <1>2. CASE P.shape = "native"
    <2>1. NativeFit
      BY <1>1, <1>2 DEF Fit
    <2> DEFINE es == Rejects(s).events
    <2>2. /\ out' = [out EXCEPT !.wire = @ \o es]
          /\ phase' = "done" /\ reply' = Received(out'.wire)
      BY <1>2 DEF Interrupted
    <2>3. Typed(es, {"error"})
      BY <2>1, NativeRejects DEF NativeFit
    <2> HIDE DEF es
    <2> QED
      BY <1>2, <2>1, <2>2, <2>3, NativeShows DEF Settles
  <1>3. CASE P.shape # "native"
    <2>1. TellsFit /\ P.shape \in Facades /\ DOMAIN s = FreshFields
      BY <1>1, <1>3, FacadeIs DEF Fit, TellsFit, Conv
    <2>2. s' = Fail(s, q) /\ Closes(IF q.by = "gemini" THEN s'.events ELSE <<>>)
      BY <1>3 DEF Interrupted
    <2>3. CASE q.by = "gemini"
      <3>1. Closes(Fail(s, q).events)
        BY <2>2, <2>3
      <3> QED
        BY <1>1, <2>1, <3>1, FailCloses DEF Settles
    <2>4. CASE q.by # "gemini"
      <3>1. Closes(<<>>)
        BY <2>2, <2>4
      <3> QED
        BY <1>1, <2>1, <3>1, FinalCloses DEF Settles
    <2> QED
      BY <2>3, <2>4
  <1> QED
    BY <1>2, <1>3

LEMMA SearchesSettles ==
  ASSUME ProfileFit, Fit, P.stream, Searches
  PROVE  Settles
  <1>1. phase = "open" /\ IsHosted /\ profile' = profile
    BY DEF Searches
  <1>2. PICK c \in Alphabet : SearchTurn(Numbered(c))
    BY DEF Searches
  <1>3. IsList(Numbered(c).parts)
    BY ProfileIs, NumberedIs
  <1>4. HostedFit(out, hosted, q) /\ P.shape = "responses"
    BY <1>1 DEF Fit, IsHosted
  <1>5. /\ phase' \in {"open", "done"}
        /\ phase' = "open" => HostedFit(out', hosted', q')
        /\ phase' = "done" => Fair(P, out'.wire, reply')
    BY <1>1, <1>2, <1>3, <1>4, SearchTurnKeeps
  <1> QED
    BY <1>1, <1>5, StaysFit DEF Settles

---------------------------------------------------------------------------
ConversationInvariant == ProfileFit /\ Fit /\ FailureCommitsNothing

\* The invariant holds at first and is kept.
LEMMA InvariantInit == Init => ConversationInvariant
  BY FairIs DEF Init, ConversationInvariant, ProfileFit, Fit

LEMMA SettlesKeeps ==
  ASSUME ProfileFit, UNCHANGED profile, Settles
  PROVE  ConversationInvariant'
  <1>1. P' = P /\ ProfileFit'
    BY DEF P, ProfileFit
  <1>2. FailureCommitsNothing' <=> (phase' = "done" /\ P'.stream => Fair(P', out'.wire, reply'))
    BY FairIs, Zenon DEF FailureCommitsNothing, Fair, Types, IsHosted, Over, Streams
  <1>3. phase' = "done" => Fit'
    BY DEF Fit
  <1> QED
    BY <1>1, <1>2, <1>3 DEF Settles, ConversationInvariant

LEMMA InvariantNext == ConversationInvariant /\ [Next]_vars => ConversationInvariant'
  <1> SUFFICES ASSUME ConversationInvariant, [Next]_vars PROVE ConversationInvariant'
    OBVIOUS
  <1>1. ProfileFit /\ Fit /\ FailureCommitsNothing
    BY DEF ConversationInvariant
  <1>2. FailureCommitsNothing' <=> (phase' = "done" /\ P'.stream => Fair(P', out'.wire, reply'))
    BY Zenon DEF FailureCommitsNothing, Fair, Types, IsHosted, Over, Streams
  <1>3. CASE Asks
    <2>1. profile' = profile
      BY <1>3 DEF Asks
    <2> QED
      BY <1>1, <1>2, <1>3, <2>1, AsksKeeps DEF ConversationInvariant, ProfileFit
  <1>4. CASE Arrives
    <2>1. profile' = profile
      BY <1>4 DEF Arrives
    <2> QED
      BY <1>1, <1>4, <2>1, ArrivesSettles, SettlesKeeps
  <1>5. CASE Eof
    <2>1. profile' = profile
      BY <1>5 DEF Eof
    <2> QED
      BY <1>1, <1>5, <2>1, EofSettles, SettlesKeeps
  <1>6. CASE Resumes
    <2>1. profile' = profile
      BY <1>6 DEF Resumes
    <2> QED
      BY <1>1, <1>6, <2>1, ResumesSettles, SettlesKeeps
  <1>7. CASE Interrupted
    <2>1. profile' = profile
      BY <1>7 DEF Interrupted
    <2> QED
      BY <1>1, <1>7, <2>1, InterruptedSettles, SettlesKeeps
  <1>8. ASSUME UNCHANGED profile, ~P.stream PROVE ConversationInvariant'
    <2>1. ~P'.stream /\ ProfileFit'
      BY <1>1, <1>8 DEF P, ProfileFit
    <2> QED
      BY <1>2, <2>1 DEF ConversationInvariant, Fit
  <1>9. CASE Answers
    BY <1>8, <1>9 DEF Answers, Streams
  <1>10. CASE Reasks
    BY <1>8, <1>10 DEF Reasks, Streams
  <1>11. CASE Searches
    <2>1. profile' = profile
      BY <1>11 DEF Searches
    <2> QED
      BY <1>1, <1>8, <1>11, <2>1, SearchesSettles, SettlesKeeps
  <1>12. ASSUME NEW m \in Manners, Continues(m) PROVE ConversationInvariant'
    <2>1. phase' = "ask" /\ profile' = profile
      BY <1>12 DEF Continues
    <2> QED
      BY <1>1, <1>2, <2>1 DEF ConversationInvariant, Fit, ProfileFit
  <1>13. CASE UNCHANGED vars
    <2>1. UNCHANGED <<profile, phase, s, out, pending, q, hosted, reply>>
      BY <1>13 DEF vars
    <2>2. P' = P /\ IsHosted' = IsHosted
      BY <2>1 DEF P, IsHosted
    <2>3. Fit'
      BY <1>1, <2>1, <2>2 DEF Fit, NativeFit, TellsFit, HostedFit, SearchState, Quiet, Textless,
                              Going, OutState, ChatFine, MessagesGo
    <2>4. FailureCommitsNothing'
      BY <1>1, <1>2, <2>1, <2>2, FairIs
    <2> QED
      BY <1>1, <2>1, <2>3, <2>4 DEF ConversationInvariant, ProfileFit
  <1> QED
    BY <1>3, <1>4, <1>5, <1>6, <1>7, <1>9, <1>10, <1>11, <1>12, <1>13 DEF Next

\* The invariant holds in every state: the converter, the facades and the wire are as the next event needs them.
THEOREM ConversationKeeps == Spec => []ConversationInvariant
  <1> QED
    BY InvariantInit, InvariantNext, PTL DEF Spec

\* A turn that failed leaves the client nothing it could take for a result, in any shape, for any
\* requests, native events and numbers of turns: the error paths of gemini.rs, chat.rs, messages.rs
\* and of the hosted search.
THEOREM FailuresCommitNothing == Spec => []FailureCommitsNothing
  <1>1. ConversationInvariant => FailureCommitsNothing
    BY DEF ConversationInvariant
  <1> QED
    BY <1>1, ConversationKeeps, PTL
==============================================================================
