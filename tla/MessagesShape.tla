--------------------------- MODULE MessagesShape ---------------------------
(***************************************************************************)
(* The Anthropic Messages facade, both of its ways (proxy/messages): over  *)
(* the Chat Completions facade for an OpenAI model, and straight onto      *)
(* GenerateContent for a Gemini model.  A message is [role, blocks]; a     *)
(* block's details are its signature or data.                              *)
(***************************************************************************)
EXTENDS ChatShape

Block(kind, x, tool, id) ==
  [kind |-> kind, text |-> x, tool |-> tool, id |-> id, details |-> NoDetails]
Signed(block, d) == [block EXCEPT !.details = d]
Blocks(blocks, kind) == SelectSeq(blocks, LAMBDA b : b.kind = kind)

MessageEvent(type, index) == [type |-> type, index |-> index, block |-> Block("none", <<>>, "", NoId),
                              text |-> <<>>, details |-> NoDetails, reason |-> "", usage |-> 0]
Refused == MessageEvent("error", 0)

\* The stream so far: m.blocks as the client has them, m.events of one event.
Puts(m, e) == [m EXCEPT !.events = Append(@, e)]
Begins(m, block) ==
  [Puts(m, [MessageEvent("block", Len(m.blocks) + 1) EXCEPT !.block = block])
     EXCEPT !.blocks = Append(@, block)]
Extends(m, index, x) ==
  [Puts(m, [MessageEvent("delta", index) EXCEPT !.text = x])
     EXCEPT !.blocks[index].text = @ \o x]
Signs(m, index, d) ==
  [Puts(m, [MessageEvent("signature", index) EXCEPT !.details = d])
     EXCEPT !.blocks[index].details = d]
Redacts(m, d) == Begins(m, Signed(Block("redacted", <<>>, "", NoId), d))
Stops(m, reason, usage) ==
  LET stopped == [m EXCEPT !.events = @ \o [i \in DOMAIN m.blocks |-> MessageEvent("stop", i)]]
  IN Puts(Puts(stopped, [MessageEvent("message_delta", 0) EXCEPT !.reason = reason,
                                                                 !.usage = usage]),
          MessageEvent("message_stop", 0))
Rejects(m) == [m EXCEPT !.events = <<Refused>>, !.ended = TRUE]

---------------------------------------------------------------------------
(* Over chat: one thinking block, one text block and one block per call,   *)
(* in the order in which they first appear.                                *)
NewMessages == [started |-> FALSE, ended |-> FALSE, blocks |-> <<>>, events |-> <<>>,
                thinking |-> 0, text |-> 0, tools |-> <<>>, thought |-> <<>>,
                details |-> NoDetails, finish |-> "none", usage |-> 0]

Stop == [stop |-> "end_turn", tool_calls |-> "tool_use", length |-> "max_tokens"]

Opening(m, slot, kind) ==
  IF m[slot] # 0 THEN m
  ELSE [Begins(m, Block(kind, <<>>, "", NoId)) EXCEPT ![slot] = Len(m.blocks) + 1]

MessageChunk(old, k) ==
  LET begun == [old EXCEPT !.started = TRUE,
                           !.events = IF old.started THEN <<>> ELSE <<MessageEvent("start", 0)>>]
  IN CASE old.ended -> [old EXCEPT !.events = <<>>]
       [] k.kind = "error" -> Rejects(old)
       [] k.kind = "reasoning" ->
            LET m == Opening(begun, "thinking", "thinking")
            IN [Extends(m, m.thinking, k.text) EXCEPT !.details.text = @ \o k.text]
       [] k.kind = "details" -> [begun EXCEPT !.details.carrier = k.carrier]
       [] k.kind = "text" ->
            LET m == Opening(begun, "text", "text") IN Extends(m, m.text, k.text)
       [] k.kind = "tool" ->
            [Begins(begun, Block("tool", <<>>, k.tool, k.id))
               EXCEPT !.tools = Append(@, Len(begun.blocks) + 1)]
       [] k.kind = "args" -> Extends(begun, begun.tools[k.number], k.text)
       [] k.kind = "finish" -> [begun EXCEPT !.finish = Stop[k.tool]]
       [] k.kind = "usage" -> [begun EXCEPT !.usage = k.usage]
       [] OTHER -> begun

\* The end of the chat stream; the thinking block's signature carries the
\* reasoning details, whose text must be the text that was streamed.
MessageEof(old) ==
  LET m == [old EXCEPT !.events = <<>>]
      signed == CASE m.thinking # 0 -> Signs(m, m.thinking, m.details)
                  [] m.details # NoDetails -> Redacts(m, m.details)
                  [] OTHER -> m
  IN CASE old.ended -> m
       [] m.finish = "none" -> Rejects(m)
       [] m.thinking # 0 /\ m.details.text # m.blocks[m.thinking].text -> Rejects(m)
       [] OTHER -> [Stops(signed, m.finish, m.usage) EXCEPT !.ended = TRUE]

\* A whole chat message as blocks.
MessageBlocks(message) ==
  LET d == message.details
      thought == CASE d = NoDetails -> <<>>
                   [] d.text = <<>> -> <<Signed(Block("redacted", <<>>, "", NoId), d)>>
                   [] OTHER -> <<Signed(Block("thinking", d.text, "", NoId), d)>>
  IN thought
       \o (IF message.text = <<>> THEN <<>> ELSE <<Block("text", message.text, "", NoId)>>)
       \o [i \in DOMAIN message.calls |->
             Block("tool", message.calls[i].text, message.calls[i].tool, message.calls[i].id)]

\* The history as chat messages: a result is a message of its own, and what
\* was said before it comes first.
ToChat(message) ==
  LET words == Blocks(message.blocks, "text")
      calls == Blocks(message.blocks, "tool")
      thoughts == SelectSeq(message.blocks, LAMBDA b : b.kind \in {"thinking", "redacted"})
      flush(out) == IF out.said = <<>> THEN out.messages
                    ELSE Append(out.messages, [Message("user") EXCEPT !.text = out.said])
      add(out, b) ==
        IF b.kind = "result"
        THEN [messages |-> Append(flush(out), [Message("tool") EXCEPT !.text = b.text, !.id = b.id]),
              said |-> <<>>]
        ELSE [out EXCEPT !.said = @ \o b.text]
  IN IF message.role = "assistant"
     THEN <<[Message("assistant") EXCEPT
               !.text = FlattenSeq([i \in DOMAIN words |-> words[i].text]),
               !.calls = [i \in DOMAIN calls |-> [id |-> calls[i].id, tool |-> calls[i].tool,
                                                  text |-> calls[i].text]],
               !.details = IF thoughts = <<>> THEN NoDetails ELSE thoughts[1].details]>>
     ELSE flush(FoldLeft(add, [messages |-> <<>>, said |-> <<>>], message.blocks))

FaithfulThoughts(message) ==
  \A i \in DOMAIN message.blocks :
    message.blocks[i].kind = "thinking" => message.blocks[i].details.text = message.blocks[i].text

MessagesRequest(r, messages, provider, route) ==
  LET read == ChatRequest(r, FlattenSeq([i \in DOMAIN messages |-> ToChat(messages[i])]),
                          provider, route)
  IN [read EXCEPT !.ok = @ /\ \A i \in DOMAIN messages : FaithfulThoughts(messages[i])]

---------------------------------------------------------------------------
(* Straight onto Gemini: the request.                                      *)
Shown(blocks) == LET kept == SelectSeq(blocks, LAMBDA b : b.kind # "redacted")
                 IN [i \in DOMAIN kept |-> Signed(kept[i], NoDetails)]

Carriers(blocks) ==
  LET kept == SelectSeq(blocks, LAMBDA b : \/ b.kind = "redacted"
                                           \/ b.kind = "thinking" /\ b.details # NoDetails)
  IN [i \in DOMAIN kept |-> kept[i].details.carrier]

\* A part joins the last content of its role, but a user's words and tool
\* results do not share one.
Joined(contents, role, part) ==
  LET n == Len(contents)
      joins == /\ n > 0 /\ contents[n].role = role
               /\ role = "model" \/ (Last(contents[n].parts).kind = "response")
                                      = (part.kind = "response")
  IN IF joins THEN [contents EXCEPT ![n].parts = Append(@, part)]
     ELSE Append(contents, [role |-> role, parts |-> <<part>>])

\* One carrier restores the whole turn, if what is shown of it is unchanged.
Restored(st, blocks, route) ==
  LET c == Carriers(blocks)[1]
      tools == Blocks(blocks, "tool")
      native == Calls(c.parts)
  IN IF \/ \E i \in DOMAIN Carriers(blocks) : Carriers(blocks)[i] # c
        \/ ~Opens(c, "messages", route) \/ c.items # Shown(blocks)
        \/ Len(native) # Len(tools)
     THEN [st EXCEPT !.ok = FALSE]
     ELSE [st EXCEPT
       !.contents = Append(@, [role |-> "model", parts |-> c.parts]),
       !.calls = [id \in {tools[k].id : k \in DOMAIN tools} |->
                    native[CHOOSE k \in DOMAIN tools : tools[k].id = id]] @@ @]

ReadBlock(st, role, b) ==
  LET native == IF role = "assistant" THEN "model" ELSE "user"
      call == Call(b.text, b.tool, b.id, "imported")
  IN CASE b.kind = "text" -> [st EXCEPT !.contents = Joined(@, native, Text(b.text))]
       [] b.kind = "tool" /\ b.id \notin DOMAIN st.calls ->
            [st EXCEPT !.contents = Joined(@, native, call), !.calls = b.id :> call @@ @]
       [] b.kind = "result" /\ b.id \in DOMAIN st.calls ->
            [st EXCEPT !.contents = Joined(@, native, Response(st.calls[b.id].tool,
                                                               st.calls[b.id].id))]
       [] OTHER -> [st EXCEPT !.ok = FALSE]

ReadMessage(st, m, route) ==
  CASE ~st.ok -> st
    [] m.role = "system" ->
         [st EXCEPT !.contents = Joined(@, "user", Marker),
                    !.system = @ \o [i \in DOMAIN m.blocks |-> m.blocks[i].text]]
    [] m.role = "assistant" /\ Carriers(m.blocks) # <<>> -> Restored(st, m.blocks, route)
    [] OTHER -> FoldLeft(LAMBDA t, b : IF t.ok THEN ReadBlock(t, m.role, b) ELSE t, st, m.blocks)

\* x: whether thinking is displayed, and calls in parallel are allowed.
NativeRequest(r, messages, id, route, x) ==
  LET st == FoldLeft(LAMBDA t, m : ReadMessage(t, m, route), Unread(r), messages)
      mode == CASE r.tools = {} \/ r.choice = "none" -> "NONE"
                [] r.choice = "required" -> "ANY"
                [] OTHER -> "AUTO"
      accepted == st.ok /\ st.contents # <<>>
  IN [ok |-> accepted, id |-> id, route |-> route, by |-> "messages",
      contents |-> IF accepted THEN Ended(st.contents) ELSE <<>>,
      tools |-> IF mode = "NONE" THEN {} ELSE r.tools, mode |-> mode,
      schema |-> r.schema, display |-> x.display, parallel |-> x.parallel]

---------------------------------------------------------------------------
(* Straight onto Gemini: the reply.                                        *)
NewNative == [started |-> FALSE, ended |-> FALSE, ok |-> TRUE, blocks |-> <<>>, events |-> <<>>,
              parts |-> <<>>, calls |-> NoCalls, active |-> [index |-> 0, thought |-> FALSE],
              finish |-> "none", usage |-> 0]

\* Text goes on in the block that is open for it, or opens one.
Displays(s, p, q) ==
  LET continues == s.active.index # 0 /\ s.active.thought = p.thought
      open == IF continues THEN s
              ELSE [Begins(s, Block(IF p.thought THEN "thinking" ELSE "text", <<>>, "", NoId))
                      EXCEPT !.active = [index |-> Len(s.blocks) + 1, thought |-> p.thought]]
  IN IF p.text = <<>> \/ (p.thought /\ ~q.display) THEN s
     ELSE Extends(open, open.active.index, p.text)

Uses(s, p, q) ==
  LET index == Len(s.blocks) + 1
      id == IF p.id = NoId THEN <<q.id, index>> ELSE p.id
      tool == Resolved(p.tool, q.tools)
      repeats == \E i \in DOMAIN s.blocks : s.blocks[i].kind = "tool" /\ s.blocks[i].id = id
  IN IF tool \notin q.tools \/ repeats THEN [s EXCEPT !.ok = FALSE]
     ELSE [Extends(Begins(s, Block("tool", <<>>, tool, id)), index, p.text)
             EXCEPT !.active.index = 0]

\* The native turn as it will be replayed; only unsigned text runs together.
Kept(parts, p) ==
  LET n == Len(parts)
      joins == /\ n > 0 /\ p.kind = "text" /\ parts[n].kind = "text"
               /\ parts[n].thought = p.thought /\ parts[n].sig = "none"
  IN IF joins THEN [parts EXCEPT ![n].text = @ \o p.text, ![n].sig = p.sig] ELSE Append(parts, p)

NativePart(s, p, q) ==
  LET shown == CASE p.kind = "text" -> Displays(s, p, q)
                 [] p.kind = "call" -> Uses(s, p, q)
                 [] p.kind = "mark" -> s
                 [] OTHER -> [s EXCEPT !.ok = FALSE]
  IN IF ~s.ok THEN s ELSE [shown EXCEPT !.parts = Kept(@, p)]

NativeDrained(s, held, q) ==
  IF s.finish # "none" \/ ~held.ok THEN [s EXCEPT !.ok = FALSE]
  ELSE FoldLeft(LAMBDA t, x : NativePart(t, x, q), [s EXCEPT !.calls = held.calls], held.parts)
NativeHeld(s, p, q) == IF s.ok THEN NativeDrained(s, Held(s.calls, p), q) ELSE s

NativeNoted(fed, c) ==
  IF c.error \/ c.invalid \/ ~fed.ok THEN Rejects(fed)
  ELSE [fed EXCEPT !.finish = IF c.finish = "none" THEN @ ELSE c.finish]

NativeFeed(old, c, q) ==
  LET begun == [old EXCEPT !.started = TRUE,
                           !.events = IF old.started THEN <<>> ELSE <<MessageEvent("start", 0)>>,
                           !.usage = IF c.usage = 0 THEN @ ELSE c.usage,
                           !.finish = IF c.blocked THEN "SAFETY" ELSE @]
  IN NativeNoted(FoldLeft(LAMBDA t, p : NativeHeld(t, p, q), begun, c.parts), c)

\* The end: nothing is signed that the reply does not bear out.
NativeEnd(old, q) ==
  LET s == [old EXCEPT !.events = <<>>]
      uses == Blocks(s.blocks, "tool")
      words == Blocks(s.blocks, "text")
      carrier == [text |-> <<>>, carrier |-> Sealed("messages", q.route, s.parts, Shown(s.blocks))]
      thinking == Only([i \in DOMAIN s.blocks |-> i], LAMBDA i : s.blocks[i].kind = "thinking")
      signed == IF thinking = <<>> THEN Redacts(s, carrier)
                ELSE FoldLeft(LAMBDA t, i : Signs(t, i, carrier), s, thinking)
      reason == CASE s.finish = "STOP" -> IF uses = <<>> THEN "end_turn" ELSE "tool_use"
                  [] s.finish = "MAX_TOKENS" -> "max_tokens"
                  [] s.finish = "SAFETY" -> "refusal"
                  [] OTHER -> "unknown"
  IN IF \/ s.calls.active # <<>> \/ s.usage = 0 \/ reason = "unknown"
        \/ ~q.parallel /\ Len(uses) > 1
        \/ q.schema /\ words = <<>>
     THEN Rejects(s)
     ELSE [Stops(signed, reason, s.usage) EXCEPT !.ended = TRUE]
===========================================================================
