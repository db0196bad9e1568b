-------------------------- MODULE ResponseStream --------------------------
(***************************************************************************)
(* The converter of gemini/stream.rs as a record s and the functions that  *)
(* take it one native event further: Feed, Finish, Fail and the recovery   *)
(* of a truncated tool call.  s.events are the events of the last call,    *)
(* s.ok is false once a call has refused.                                  *)
(***************************************************************************)
EXTENDS GeminiTurn

Fresh == [parts |-> <<>>, finish |-> "none", blocked |-> FALSE, usage |-> 0,
          started |-> FALSE, ended |-> FALSE, ok |-> TRUE,
          count |-> 0, active |-> <<0, 0>>, done |-> {},
          calls |-> NoCalls, summary |-> <<>>,
          sequence |-> 0, wire |-> 0, deferred |-> <<>>, events |-> <<>>,
          attempts |-> 0, spent |-> 0]

Event(type, index) == [type |-> type, index |-> index, seq |-> 0, delta |-> <<>>,
                       item |-> Nothing, output |-> <<>>, usage |-> 0]
Delta(type, index, x) == [Event(type, index) EXCEPT !.delta = x]
Done(type, index, item) == [Event(type, index) EXCEPT !.item = item]
Terminal(status, output, usage) ==
  [Event(status, 0) EXCEPT !.output = output, !.usage = usage]

Emit(s, e) == [s EXCEPT !.events = Append(@, [e EXCEPT !.seq = s.sequence]),
                        !.sequence = @ + 1]
Bad(s) == [s EXCEPT !.ok = FALSE, !.ended = TRUE, !.events = <<>>]

\* With a strict schema the numbers are given out as events leave.
Wired(s, q) ==
  IF ~q.schema THEN s
  ELSE [s EXCEPT !.events = [i \in DOMAIN @ |-> [@[i] EXCEPT !.seq = s.wire + i - 1]],
                 !.wire = @ + Len(s.events)]

---------------------------------------------------------------------------
CloseActive(s, q) ==
  LET index == s.active[1]
  IN IF index = 0 THEN s
     ELSE [Emit(s, Delta("text_done", index, s.parts[s.active[2]].text))
             EXCEPT !.active = <<0, 0>>, !.done = @ \union {index}]

Thinks(s, p) ==
  Emit([s EXCEPT !.summary = @ \o p.text], Delta("summary_delta", 0, p.text))

\* Visible text: the first fragment of a part opens an item.
Writes(s, p, merge) ==
  LET opens == ~merge \/ s.active[1] = 0
      index == IF opens THEN s.count + 1 ELSE s.active[1]
      opened == IF opens
                THEN [Emit(s, Event("added", index)) EXCEPT !.count = index,
                                                            !.active = <<index, Len(s.parts)>>]
                ELSE s
  IN IF p.text = <<>> THEN s ELSE Emit(opened, Delta("delta", index, p.text))

\* Any other part becomes an item at once; it is done when the turn is.
Shows(s, q) ==
  LET index == s.count + 1
      item == OutputItem(Last(s.parts), index, q)
      shown == Emit(s, Done("added", index, item))
  IN IF item.type \in {"nothing", "broken"} THEN Bad(s)
     ELSE [CASE item.type = "message" ->
                  Emit(Emit(shown, Delta("delta", index, item.text)),
                       Delta("text_done", index, item.text))
             [] item.type = "call" -> Emit(shown, Delta("args_delta", index, item.text))
             [] OTHER -> shown
           EXCEPT !.count = index, !.done = @ \union {index}]

FeedPart(s, p, q) ==
  LET at == Len(s.parts)
      merge == /\ p.kind = "text" /\ at > 0
               /\ s.parts[at].kind = "text" /\ s.parts[at].thought = p.thought
               /\ s.parts[at].sig = "none"
      closed == IF p.thought \/ merge \/ p.kind = "mark" THEN s ELSE CloseActive(s, q)
      kept == CASE p.kind = "mark" -> [closed EXCEPT !.parts[at].sig = p.sig]
                [] merge -> [closed EXCEPT !.parts[at].text = @ \o p.text,
                                           !.parts[at].sig = p.sig]
                [] OTHER -> [closed EXCEPT !.parts = Append(@, p)]
  IN CASE ~s.ok -> s
       [] p.kind = "mark" /\ at = 0 -> Bad(s)
       [] p.kind = "mark" /\ s.parts[at].sig # "none" -> Bad(s)
       [] p.kind = "mark" -> kept
       [] p.thought -> Thinks(kept, p)
       [] p.kind = "text" -> Writes(kept, p, merge)
       [] OTHER -> Shows(kept, q)

FeedDrained(s, held, q) ==
  IF ~held.ok THEN Bad(s)
  ELSE FoldLeft(LAMBDA t, x : FeedPart(t, x, q), [s EXCEPT !.calls = held.calls], held.parts)
FeedHeld(s, p, q) == IF s.ok THEN FeedDrained(s, Held(s.calls, p), q) ELSE s

\* Reasoning and lifecycle events stay live under a strict schema; the rest
\* waits until the whole text has been checked.
Live(e) == e.type \in {"created", "summary_delta"} \/ (e.type = "added" /\ e.index = 0)
Deferred(s, q) ==
  IF ~q.schema THEN s
  ELSE Wired([s EXCEPT !.events = Only(@, Live),
                       !.deferred = @ \o Only(s.events, LAMBDA e : ~Live(e))], q)

\* Mutant: what has been held back is told before the failure.
FailReleasing(s, q) ==
  Wired(Emit([s EXCEPT !.ended = TRUE, !.ok = TRUE, !.deferred = <<>>, !.events = s.deferred],
             Terminal("failed", <<>>, s.spent + s.usage)), q)

\* The failure ends the stream and reports what all attempts have used.
Fail(s, q) ==
  Wired(Emit([s EXCEPT !.ended = TRUE, !.ok = TRUE, !.deferred = <<>>, !.events = <<>>],
             Terminal("failed", <<>>, s.spent + s.usage)), q)

Noted(fed, c, q) ==
  IF ~fed.ok THEN fed
  ELSE Deferred([fed EXCEPT !.finish = IF c.finish = "none" THEN @ ELSE c.finish,
                            !.blocked = @ \/ c.blocked,
                            !.usage = IF c.usage = 0 THEN @ ELSE c.usage], q)

\* One native event c; c.usage = 0 when it carries none.
Feed(old, c, q) ==
  LET s == [old EXCEPT !.events = <<>>]
      begun == IF s.started THEN s
               ELSE Emit(Emit([s EXCEPT !.started = TRUE], Event("created", 0)),
                         Event("added", 0))
  IN CASE c.error -> Fail(s, q)
       [] c.invalid -> Bad(s)
       [] OTHER -> Noted(FoldLeft(LAMBDA t, p : FeedHeld(t, p, q), begun, c.parts), c, q)

---------------------------------------------------------------------------
(* A tool call cut off by the output limit: one more native request,       *)
(* answered into the same stream.                                          *)
Recoverable(s, q) ==
  /\ ~s.ended /\ s.attempts < 2
  /\ q.tools # {} /\ ~q.suppress /\ ~q.schema /\ ~s.blocked
  /\ s.finish = "MALFORMED" \/ (s.finish = "MAX_TOKENS" /\ ~q.max)
  /\ Calls(s.parts) = <<>>

\* Mutant: the second request is answered into a converter of its own.
RecoveringAnew(s) == [Fresh EXCEPT !.attempts = s.attempts + 1, !.spent = s.spent + s.usage]

Recovering(s) ==
  LET n == Len(s.parts)
      unsigned == n > 0 /\ s.parts[n].kind = "text" /\ ~s.parts[n].thought
                        /\ s.parts[n].sig = "none"
  IN [s EXCEPT !.attempts = @ + 1, !.calls = NoCalls,
               !.spent = @ + s.usage, !.usage = 0, !.finish = "none",
               !.parts = IF unsigned THEN [@ EXCEPT ![n].sig = "imported"] ELSE @,
               !.events = <<>>]

Notice == Text(<<0>>)
RetryContents(s, q) ==
  LET said == SelectSeq(s.parts, LAMBDA p : /\ p.kind = "text" /\ ~p.thought
                                            /\ p.text # <<>>)
  IN q.contents
       \o (IF said = <<>> THEN <<>>
           ELSE <<[role |-> "model", parts |-> [i \in DOMAIN said |-> Text(said[i].text)]]>>)
       \o <<[role |-> "user", parts |-> <<Notice>>]>>

\* A turn put together from several attempts is no native turn: its carrier
\* holds imported signatures only, and no thoughts.
Patched(parts) ==
  LET kept == SelectSeq(parts, LAMBDA p : /\ ~p.thought /\ p.kind # "mark"
                                          /\ ~(p.kind = "text" /\ p.text = <<>>))
      clean == [i \in DOMAIN kept |->
                  [kept[i] EXCEPT !.sig = IF kept[i].kind = "call" THEN "imported" ELSE "none"]]
  IN IF kept = <<>> THEN <<Text(<<>>)>> ELSE clean

---------------------------------------------------------------------------
ItemDone(s, output, index) ==
  LET item == output[index + 1]
      told == IF item.type = "call" THEN Emit(s, Delta("args_done", index, item.text)) ELSE s
  IN Emit(told, Done("item_done", index, item))

\* What the client is told at the end; output is what the items are by now.
Closing(s, closed, reply, output, q) ==
  LET released == IF q.schema
                  THEN [closed EXCEPT !.events = s.deferred \o @, !.deferred = <<>>] ELSE closed
      summed == IF s.summary = <<>> THEN released
                ELSE Emit(released, Delta("summary_done", 0, s.summary))
      items == FoldLeft(LAMBDA t, i : IF i \in closed.done THEN ItemDone(t, output, i) ELSE t,
                        Emit(summed, Done("item_done", 0, output[1])),
                        [i \in 1..closed.count |-> i])
  IN IF reply.status = "completed"
     THEN Emit(items, Terminal("completed", output, reply.usage))
     ELSE Emit([s EXCEPT !.deferred = <<>>], Terminal(reply.status, reply.output, reply.usage))

\* The end of the transport: the reply is converted as a whole, and what it
\* says of the items replaces what was shown while they arrived.
Finished(old, s, reply, q) ==
  LET first == IF s.attempts = 0 THEN reply.output[1]
               ELSE Reasoning(s.summary,
                      Sealed(q.by, q.route, Patched(s.parts), Tail(reply.output)))
  IN CASE s.calls.active # <<>> -> Bad(old)
       [] ~reply.ok -> Bad([s EXCEPT !.spent = IF old.spent = 0 THEN 0 ELSE s.usage])
       [] OTHER -> Wired(Closing(s, CloseActive(s, q), reply, <<first>> \o Tail(reply.output), q), q)

Finish(old, q) ==
  LET s == [old EXCEPT !.events = <<>>, !.ended = TRUE,
                       !.usage = old.spent + old.usage, !.spent = 0]
  IN Finished(old, s, Converted(s, q), q)
===========================================================================
