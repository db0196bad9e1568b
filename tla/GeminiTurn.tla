---------------------------- MODULE GeminiTurn ----------------------------
(***************************************************************************)
(* One Gemini generation seen as Responses events: what the proxy makes of *)
(* the parts of a GenerateContent stream (gemini/stream.rs, partial.rs,    *)
(* response.rs, validate.rs, replay.rs).  Text is a sequence of fragment   *)
(* numbers, so a lost, doubled or swapped fragment shows; a signature is   *)
(* "own" or "second" (Gemini's), "imported" (the documented placeholder)   *)
(* or "none".  A tool goes by the name it is declared with, and a call may *)
(* use another one.                                                        *)
(***************************************************************************)
EXTENDS Integers, Sequences, SequencesExt

CONSTANT Aliases    \* <<name, tool>>: names of a tool that are not its own

\* What of a sequence passes a test, in its order.
Only(seq, Test(_)) == FoldLeft(LAMBDA t, x : IF Test(x) THEN Append(t, x) ELSE t, <<>>, seq)

NoId == <<>>        \* an absent call id; native ids are <<n>>, made-up ones longer
Skipped == <<0>>    \* the text put in place of a call made though tools were off
Plain(kind) == [kind |-> kind, thought |-> FALSE, text |-> <<>>, sig |-> "none",
                tool |-> "", id |-> NoId]
Text(x) == [Plain("text") EXCEPT !.text = x]
Call(x, tool, id, sig) ==
  [Plain("call") EXCEPT !.text = x, !.tool = tool, !.id = id, !.sig = sig]

\* What a client keeps of a turn; its carrier is opaque to everyone but the
\* proxy that sealed it, and opens under the same key and model only.
NoCarrier == [by |-> "none"]
Sealed(by, route, parts, items) ==
  [by |-> by, route |-> route, parts |-> parts, items |-> items]
\* Mutant: the key and the model are not looked at.
OpensAnywhere(c, by, route) == c.by = by
Opens(c, by, route) == c.by = by /\ c.route = route
Item(type, x, tool, id) == [type |-> type, text |-> x, tool |-> tool, id |-> id,
                            sig |-> "none", carrier |-> NoCarrier, loads |-> {}]
Reasoning(summary, c) == [Item("reasoning", summary, "", NoId) EXCEPT !.carrier = c]
CallTypes == {"call", "client_search", "server_search"}

---------------------------------------------------------------------------
(* Calls whose arguments arrive in pieces: a slot in the queue keeps the   *)
(* call's place among the parts until its last piece is there.             *)
NoCalls == [queue |-> <<>>, active |-> <<>>, serial |-> 0]
Waiting == Plain("waiting")

\* Mutant: whatever is complete leaves, ahead of a call that is not.
DrainedEarly(pc) ==
  [ok |-> TRUE, parts |-> LET ready == SelectSeq(pc.queue, LAMBDA slot : slot.part # Waiting)
                          IN [i \in DOMAIN ready |-> ready[i].part],
   calls |-> [pc EXCEPT !.queue = SelectSeq(@, LAMBDA slot : slot.part = Waiting)]]

Drained(pc) ==
  LET first == SelectInSeq(pc.queue, LAMBDA slot : slot.part = Waiting)
      n == IF first = 0 THEN Len(pc.queue) ELSE first - 1
  IN [ok |-> TRUE, parts |-> [i \in 1..n |-> pc.queue[i].part],
      calls |-> [pc EXCEPT !.queue = SubSeq(@, n + 1, Len(@))]]

Refuses(pc) == [ok |-> FALSE, parts |-> <<>>, calls |-> pc]

Opened(pc, p) ==
  IF p.kind # "open" THEN pc
  ELSE [queue |-> Append(pc.queue, [serial |-> pc.serial + 1, part |-> Waiting]),
        active |-> Append(pc.active, [serial |-> pc.serial + 1,
                                      part |-> Call(<<>>, p.tool, p.id, p.sig)]),
        serial |-> pc.serial + 1]

\* "open" starts a call, "more" continues it, "last" completes it; a piece
\* without an id belongs to the call that was opened last.  A call is signed once.
Held(pc, p) ==
  LET known == p.id # NoId /\ \E i \in DOMAIN pc.active : pc.active[i].part.id = p.id
      opened == Opened(pc, p)
      at == IF p.id = NoId THEN Len(opened.active)
            ELSE SelectInSeq(opened.active, LAMBDA a : a.part.id = p.id)
      before == opened.active[at].part
      grown == [before EXCEPT !.text = @ \o p.text,
                              !.sig = IF p.sig = "none" THEN @ ELSE p.sig]
      filled == [opened EXCEPT
        !.active = RemoveAt(@, at),
        !.queue = [i \in DOMAIN @ |-> IF @[i].serial = opened.active[at].serial
                                      THEN [@[i] EXCEPT !.part = grown] ELSE @[i]]]
  IN CASE p.kind \notin {"open", "more", "last"} ->
            Drained([pc EXCEPT !.queue = Append(@, [serial |-> 0, part |-> p])])
       [] (p.kind = "open" /\ known) \/ (at = 0) -> Refuses(pc)
       [] before.sig # "none" /\ p.sig \notin {"none", before.sig} -> Refuses(pc)
       [] p.kind = "last" -> Drained(filled)
       [] OTHER -> Drained([opened EXCEPT !.active[at].part = grown])

---------------------------------------------------------------------------
(* The visible item of a native part, for the request q it answers.        *)
Nothing == Item("nothing", <<>>, "", NoId)
Broken == Item("broken", <<>>, "", NoId)

\* resolve_tool: the tool of that name, or the only one that goes by it too.
Resolved(name, tools) ==
  LET others == {t \in tools : <<name, t>> \in Aliases}
  IN IF name \notin tools /\ \E t \in others : others = {t} THEN CHOOSE t \in others : TRUE
     ELSE name

\* Of a tool with a strict schema (q.exact) arguments that it refuses are <<>>.
OutputItem(p, index, q) ==
  LET id == IF p.id = NoId THEN <<q.id, index>> ELSE p.id
      tool == Resolved(p.tool, q.tools)
  IN CASE p.kind = "mark" \/ (p.kind = "text" /\ (p.thought \/ p.text = <<>>)) -> Nothing
       [] p.kind = "text" -> Item("message", p.text, "", NoId)
       [] p.kind = "other" -> [Item("native", p.text, "", NoId) EXCEPT !.sig = p.sig]
       [] tool \notin q.tools ->
            IF q.suppress THEN Item("message", Skipped, "", NoId) ELSE Broken
       [] tool \in q.exact /\ p.text = <<>> -> Broken
       [] tool \in q.deferred -> Broken
       [] tool # "search" -> Item("call", p.text, tool, id)
       [] q.search = "client" -> Item("client_search", p.text, "search", id)
       [] OTHER -> Item("server_search", p.text, "search", NoId)

OutputItems(parts, q) ==
  FoldLeft(LAMBDA out, p : LET item == OutputItem(p, Len(out) + 1, q)
                           IN IF item = Nothing THEN out ELSE Append(out, item),
           <<>>, parts)

Thoughts(parts) ==
  FlattenSeq([i \in DOMAIN parts |-> IF parts[i].thought THEN parts[i].text ELSE <<>>])
Said(parts) ==
  FlattenSeq([i \in DOMAIN parts |->
                IF parts[i].kind = "text" /\ ~parts[i].thought THEN parts[i].text ELSE <<>>])
Calls(parts) == SelectSeq(parts, LAMBDA p : p.kind = "call")

\* A strict schema wants text, and text only; that the text is JSON it
\* accepts is taken to mean that there is some.
SchemaHolds(parts) ==
  /\ Said(parts) # <<>>
  /\ \A i \in DOMAIN parts : parts[i].kind \in {"text", "mark"}

\* convert_response: status and output of a native reply n, or a refusal.
Converted(n, q) ==
  LET items == OutputItems(n.parts, q)
      status == CASE n.blocked -> "failed"
                  [] n.finish = "STOP" ->
                       IF q.schema /\ Calls(n.parts) = <<>> /\ ~SchemaHolds(n.parts)
                       THEN "failed" ELSE "completed"
                  [] n.finish = "MAX_TOKENS" -> "incomplete"
                  [] OTHER -> "failed"
  IN [ok |-> Broken \notin ToSet(items), status |-> status, usage |-> n.usage,
      output |-> <<Reasoning(Thoughts(n.parts),
                             Sealed(q.by, q.route, n.parts, items))>> \o items]
===========================================================================
