----------------------------- MODULE ChatShape -----------------------------
(***************************************************************************)
(* The Chat Completions facade over Responses (proxy/chat): the stream of  *)
(* Responses events folded into chunks, a whole reply flattened into one   *)
(* message, and a chat history made into Responses items again.            *)
(***************************************************************************)
EXTENDS GeminiRequest

CONSTANT MaxItems    \* bound: output items of one reply

NoDetails == [text |-> <<>>, carrier |-> NoCarrier]
Message(role) == [role |-> role, text |-> <<>>, calls |-> <<>>, details |-> NoDetails,
                  id |-> NoId]

\* response::message: the items of a reply flattened into one message.
Flattened(items) ==
  LET texts == SelectSeq(items, LAMBDA i : i.type = "message")
      calls == SelectSeq(items, LAMBDA i : i.type = "call")
      thoughts == SelectSeq(items, LAMBDA i : i.type = "reasoning")
  IN [Message("assistant") EXCEPT
        !.text = FlattenSeq([i \in DOMAIN texts |-> texts[i].text]),
        !.calls = [i \in DOMAIN calls |-> [id |-> calls[i].id, tool |-> calls[i].tool,
                                           text |-> calls[i].text]],
        !.details = IF thoughts = <<>> THEN NoDetails
                    ELSE [text |-> thoughts[1].text, carrier |-> thoughts[1].carrier]]
Flattens(items) == \A i \in DOMAIN items : items[i].type \in {"message", "call", "reasoning"}

---------------------------------------------------------------------------
\* The chat stream's state; c.chunks are the chunks of the last event.
NewChat == [started |-> FALSE, ended |-> FALSE, ok |-> TRUE, chunks |-> <<>>,
            texts |-> [i \in 0..MaxItems |-> <<>>], tools |-> <<>>, sealed |-> FALSE]
Chunk(kind) == [kind |-> kind, text |-> <<>>, number |-> 0, tool |-> "", id |-> NoId,
                carrier |-> NoCarrier, usage |-> 0]
Sends(c, chunk) == [c EXCEPT !.chunks = Append(@, chunk)]
Changed(c) == [c EXCEPT !.ok = FALSE]

\* A full text may only extend what has been streamed of it.
Rest(prior, x, full) == IF full THEN SubSeq(x, Len(prior) + 1, Len(x)) ELSE x
Grows(c, kind, index, x, full) ==
  LET rest == Rest(c.texts[index], x, full)
  IN CASE full /\ ~IsPrefix(c.texts[index], x) -> Changed(c)
       [] rest = <<>> -> c
       [] OTHER -> [Sends(c, [Chunk(kind) EXCEPT !.text = rest])
                      EXCEPT !.texts[index] = @ \o rest]

Number(c, index) == SelectInSeq(c.tools, LAMBDA t : t.index = index)
Named(c, index, item) ==
  IF Number(c, index) # 0 THEN c
  ELSE [Sends(c, [Chunk("tool") EXCEPT !.number = Len(c.tools) + 1, !.tool = item.tool,
                                       !.id = item.id])
          EXCEPT !.tools = Append(@, [index |-> index, text |-> <<>>])]
Argues(c, index, x, full) ==
  LET k == Number(c, index)
      rest == Rest(c.tools[k].text, x, full)
  IN CASE k = 0 -> Changed(c)
       [] full /\ ~IsPrefix(c.tools[k].text, x) -> Changed(c)
       [] rest = <<>> -> c
       [] OTHER -> [Sends(c, [Chunk("args") EXCEPT !.number = k, !.text = rest])
                      EXCEPT !.tools[k].text = @ \o rest]

SealedOnce(c, item) ==
  IF c.sealed \/ item.carrier = NoCarrier THEN c
  ELSE [Sends(c, [Chunk("details") EXCEPT !.carrier = item.carrier]) EXCEPT !.sealed = TRUE]

ChatItem(c, index, item, full, x) ==
  CASE item.type = "call" ->
         IF full THEN Argues(Named(c, index, item), index, item.text, TRUE)
         ELSE Named(c, index, item)
    [] item.type = "message" /\ full -> Grows(c, "text", index, item.text, TRUE)
    [] item.type = "reasoning" /\ full /\ ~x.exclude ->
         SealedOnce(Grows(c, "reasoning", index, item.text, TRUE), item)
    [] item.type \in {"message", "reasoning", "nothing"} -> c
    [] OTHER -> IF item.type = "native" /\ ~full THEN c ELSE Changed(c)

\* The terminal event repeats the whole output; only what is new is sent.
ChatEnds(c, e, x) ==
  LET items == FoldLeftDomain(LAMBDA d, i : IF d.ok THEN ChatItem(d, i - 1, e.output[i], TRUE, x)
                                            ELSE d, c, e.output)
      reason == CASE e.type = "incomplete" -> "length"
                  [] \E i \in DOMAIN e.output : e.output[i].type = "call" -> "tool_calls"
                  [] OTHER -> "stop"
      finished == Sends(items, [Chunk("finish") EXCEPT !.tool = reason])
  IN [IF x.usage THEN Sends(finished, [Chunk("usage") EXCEPT !.usage = e.usage]) ELSE finished
        EXCEPT !.ended = TRUE]

\* x is the request's: whether reasoning is to be left out, and the usage told.
ChatEvent(old, e, x) ==
  LET c == [old EXCEPT !.chunks = IF old.started THEN <<>> ELSE <<Chunk("role")>>,
                       !.started = TRUE]
      next == CASE e.type = "failed" ->
                     [old EXCEPT !.chunks = <<Chunk("error")>>, !.ended = TRUE]
                [] e.type \in {"added", "item_done"} ->
                     ChatItem(c, e.index, e.item, e.type = "item_done", x)
                [] e.type = "delta" -> Grows(c, "text", e.index, e.delta, FALSE)
                [] e.type = "summary_delta" ->
                     IF x.exclude THEN c ELSE Grows(c, "reasoning", 0, e.delta, FALSE)
                [] e.type = "args_delta" -> Argues(c, e.index, e.delta, FALSE)
                [] e.type \in {"completed", "incomplete"} -> ChatEnds(c, e, x)
                [] OTHER -> c
  IN IF old.ended THEN [old EXCEPT !.chunks = <<>>]
     ELSE IF next.ok THEN next
     ELSE [next EXCEPT !.chunks = <<Chunk("error")>>, !.ended = TRUE]

\* The end of the inner stream is a failure unless a terminal event came.
ChatEof(c) == IF c.ended THEN [c EXCEPT !.chunks = <<>>]
              ELSE [c EXCEPT !.chunks = <<Chunk("error")>>, !.ended = TRUE]

---------------------------------------------------------------------------
\* The history: what an assistant message shows, and with its details the
\* items Gemini signed, if they flatten to the same message.
Visible(m) ==
  (IF m.text = <<>> THEN <<>> ELSE <<Item("message", m.text, "", NoId)>>)
    \o [i \in DOMAIN m.calls |-> Item("call", m.calls[i].text, m.calls[i].tool, m.calls[i].id)]

AssistantItems(m, provider, route) ==
  LET c == m.details.carrier
      thought == Reasoning(m.details.text, c)
      expected == Flattened(c.items)
  IN CASE m.details = NoDetails -> [ok |-> TRUE, items |-> Visible(m)]
       [] c.by # "gemini" -> [ok |-> TRUE, items |-> <<thought>> \o Visible(m)]
       [] provider # "gemini" \/ ~Opens(c, "gemini", route) -> [ok |-> FALSE, items |-> <<>>]
       [] OTHER -> [ok |-> Flattens(c.items) /\ expected.text = m.text
                           /\ expected.calls = m.calls,
                    items |-> <<thought>> \o c.items]

MessageItems(m, provider, route) ==
  CASE m.role = "assistant" -> AssistantItems(m, provider, route)
    [] m.role = "tool" -> [ok |-> TRUE, items |-> <<Item("output", m.text, "", m.id)>>]
    [] OTHER -> [ok |-> TRUE, items |-> <<Item(m.role, m.text, "", NoId)>>]

\* The Responses request of a chat request r with the history `messages`;
\* the provider is the one the requested model is routed to.
ChatRequest(r, messages, provider, route) ==
  LET read == [i \in DOMAIN messages |-> MessageItems(messages[i], provider, route)]
  IN [ok |-> messages # <<>> /\ \A i \in DOMAIN read : read[i].ok,
      request |-> [r EXCEPT !.items = FlattenSeq([i \in DOMAIN read |-> read[i].items])]]
===========================================================================
