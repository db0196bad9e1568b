---------------------------- MODULE Conversation ----------------------------
(***************************************************************************)
(* A client's conversation through the proxy: requests in the client's     *)
(* shape, Gemini's reply as it arrives, what the client is sent, what it   *)
(* keeps of it and what the next request makes of that.  The shapes are    *)
(* "responses" (proxy/gemini.rs), "chat" (proxy/chat.rs), "messages" (over *)
(* chat) and "native" (Messages straight onto Gemini).                     *)
(***************************************************************************)
EXTENDS MessagesShape

CONSTANTS
  Profiles,     \* name -> what a client of that kind asks for
  Frames,       \* name -> <<frames of the first turn, frames of later turns>>
  Manners,      \* how the client goes on: [keep, route, says]
  Home,         \* the route, a model and a sealing key, of the first turn
  MaxFrames,    \* bound: native events in a conversation
  MaxTurns,     \* bound: turns that are answered
  Rounds        \* turns of a hosted search, 16 in the code

\* A client speaks one of four shapes, and a native event has a list of parts: all
\* that is assumed of the clients and of Gemini.
Shapes == {"responses", "chat", "messages", "native"}
ASSUME ConversationConstants ==
  \A k \in DOMAIN Profiles :
    /\ Profiles[k].shape \in Shapes
    /\ {"items", "schema"} \subseteq DOMAIN Profiles[k].request
    /\ \A n \in 1..2 : \A c \in Frames[k][n] :
         /\ "parts" \in DOMAIN c
         /\ Len(c.parts) \in Nat /\ DOMAIN c.parts = 1..Len(c.parts)

VARIABLES
  profile,      \* the client's
  route,        \* where its requests go now
  history,      \* what the client sends: items, chat messages or messages
  turn,         \* turns asked so far
  phase,        \* "ask", "open", "retry", "done", "refused", "stopped"
  q,            \* the converted request
  sent,         \* the contents of the last native request
  s,            \* the converter's state
  pending,      \* events of the read that is being decoded
  out,          \* the client's stream: chat and messages state, wire
  hosted,       \* the hosted search
  reply,        \* what the client has of the turn
  frames,       \* native events so far
  native,       \* ghost: the parts Gemini sent in this turn
  turns,        \* ghost: the turns the client keeps
  used          \* ghost: tokens of the turn, in earlier attempts and in this one

vars == <<profile, route, history, turn, phase, q, sent, s, pending, out, hosted, reply,
          frames, native, turns, used>>

P == Profiles[profile]
Streams == P.stream
IsHosted == P.shape \in {"responses"} /\ P.request.search = "server"

---------------------------------------------------------------------------
(* The client.                                                             *)
(* What Gemini said, however it was split into parts: fragments of text,   *)
(* calls and signatures in their order.  A call that came in pieces stands *)
(* where it was opened.                                                    *)
Atom(kind, v, tool) == [kind |-> kind, v |-> v, tool |-> tool]
Pieced(parts, i) ==
  LET rest == SubSeq(parts, i, Len(parts))
      mine == SelectSeq(rest, LAMBDA p : /\ p.kind \in {"open", "more", "last"}
                                         /\ p.id \in {parts[i].id, NoId})
      n == SelectInSeq(mine, LAMBDA p : p.kind = "last")
      own == SubSeq(mine, 1, n)
  IN [Call(FlattenSeq([k \in DOMAIN own |-> own[k].text]), parts[i].tool, parts[i].id, "none")
        EXCEPT !.sig = IF \E k \in DOMAIN own : own[k].sig = "own" THEN "own" ELSE "none"]

Atoms(p) ==
  (CASE p.kind = "text" -> [k \in DOMAIN p.text |->
                             Atom(IF p.thought THEN "thought" ELSE "said", <<p.text[k]>>, "")]
     [] p.kind = "call" -> <<Atom("call", p.text, p.tool), Atom("id", p.id, "")>>
     [] p.kind = "other" -> <<Atom("other", p.text, "")>>
     [] OTHER -> <<>>)
  \o (IF p.sig = "none" THEN <<>> ELSE <<Atom(p.sig, <<>>, "")>>)

Trace(parts) ==
  FlattenSeq([i \in DOMAIN parts |->
    CASE parts[i].kind = "open" -> Atoms(Pieced(parts, i))
      [] parts[i].kind \in {"more", "last"} -> <<>>
      [] OTHER -> Atoms(parts[i])])

---------------------------------------------------------------------------
NoReply == [status |-> "none", kept |-> <<>>, usage |-> 0]
NewOut == [chat |-> NewChat, messages |-> NewMessages, wire |-> <<>>]
NoUse == [past |-> 0, now |-> 0]

Words(x) ==
  CASE P.shape = "responses" -> <<Item("user", x, "", NoId)>>
    [] P.shape = "chat" -> <<[Message("user") EXCEPT !.text = x]>>
    [] OTHER -> <<[role |-> "user", blocks |-> <<Block("text", x, "", NoId)>>]>>

Instruction(x) ==
  CASE P.shape = "responses" -> <<Item("system", x, "", NoId)>>
    [] P.shape = "chat" -> <<[Message("system") EXCEPT !.text = x]>>
    [] P.shape = "native" -> <<[role |-> "system", blocks |-> <<Block("text", x, "", NoId)>>]>>
    [] OTHER -> <<>>

\* What the client has received: of a response that failed, the items that
\* were declared done, of any other stream all or nothing.
ItemsOf(wire) ==
  LET done == Only(wire, LAMBDA e : e.type = "item_done")
      end == SelectInSeq(wire, LAMBDA e : e.type \in {"completed", "incomplete", "failed"})
  IN CASE end = 0 -> [NoReply EXCEPT !.kept = [i \in DOMAIN done |-> done[i].item]]
       [] wire[end].type = "incomplete" ->
            [status |-> "incomplete", kept |-> wire[end].output, usage |-> wire[end].usage]
       [] OTHER -> [status |-> wire[end].type, kept |-> [i \in DOMAIN done |-> done[i].item],
                    usage |-> wire[end].usage]

ChunkTexts(wire, kind, number) ==
  LET some == SelectSeq(wire, LAMBDA c : c.kind = kind /\ c.number = number)
  IN FlattenSeq([i \in DOMAIN some |-> some[i].text])

MessageOf(wire) ==
  LET tools == SelectSeq(wire, LAMBDA c : c.kind = "tool")
      sealed == SelectSeq(wire, LAMBDA c : c.kind = "details")
      finish == SelectInSeq(wire, LAMBDA c : c.kind \in {"finish", "error"})
      usage == SelectInSeq(wire, LAMBDA c : c.kind = "usage")
      message == [Message("assistant") EXCEPT
        !.text = ChunkTexts(wire, "text", 0),
        !.calls = [i \in DOMAIN tools |-> [id |-> tools[i].id, tool |-> tools[i].tool,
                                           text |-> ChunkTexts(wire, "args", tools[i].number)]],
        !.details = [text |-> ChunkTexts(wire, "reasoning", 0),
                     carrier |-> IF sealed = <<>> THEN NoCarrier ELSE sealed[1].carrier]]
      counted == IF usage = 0 THEN 0 ELSE wire[usage].usage
  IN IF finish = 0 THEN NoReply
     ELSE IF wire[finish].kind = "error" THEN [NoReply EXCEPT !.status = "failed"]
     ELSE [status |-> wire[finish].tool, kept |-> <<message>>, usage |-> counted]

BlocksOf(wire) ==
  LET starts == SelectSeq(wire, LAMBDA e : e.type = "block")
      text(i) == LET some == SelectSeq(wire, LAMBDA e : e.type = "delta" /\ e.index = i)
                 IN FlattenSeq([k \in DOMAIN some |-> some[k].text])
      sign(i) == SelectSeq(wire, LAMBDA e : e.type = "signature" /\ e.index = i)
      block(i) == [starts[i].block EXCEPT
                     !.text = text(i),
                     !.details = IF sign(i) = <<>> THEN @ ELSE sign(i)[1].details]
      delta == SelectInSeq(wire, LAMBDA e : e.type = "message_delta")
  IN CASE wire = <<>> -> NoReply
       [] Last(wire).type = "error" -> [NoReply EXCEPT !.status = "failed"]
       [] delta = 0 -> NoReply
       [] OTHER -> [status |-> wire[delta].reason, usage |-> wire[delta].usage,
                    kept |-> <<[role |-> "assistant",
                                blocks |-> [i \in DOMAIN starts |-> block(i)]]>>]

Received(wire) ==
  CASE P.shape = "responses" -> ItemsOf(wire)
    [] P.shape = "chat" -> MessageOf(wire)
    [] OTHER -> BlocksOf(wire)

\* The calls of what it keeps, to be answered: <<type, tool, id>>.
Asked(kept) ==
  CASE P.shape = "responses" ->
         LET calls == SelectSeq(kept, LAMBDA i : i.type \in {"call", "client_search"})
         IN [k \in DOMAIN calls |-> <<calls[k].type, calls[k].id>>]
    [] P.shape = "chat" ->
         FlattenSeq([m \in DOMAIN kept |->
           [k \in DOMAIN kept[m].calls |-> <<"call", kept[m].calls[k].id>>]])
    [] OTHER ->
         FlattenSeq([m \in DOMAIN kept |->
           LET tools == Blocks(kept[m].blocks, "tool")
           IN [k \in DOMAIN tools |-> <<"call", tools[k].id>>]])

\* Its answers, and its next words or instruction where manner m has them.
GoesOn(kept, m) ==
  LET asked == Asked(kept)
      x == <<100 + turn>>
      speaks == m.says = "words" \/ asked = <<>>
      answers == CASE P.shape = "responses" ->
                        [k \in DOMAIN asked |->
                          [Item(IF asked[k][1] = "call" THEN "output" ELSE "client_found",
                                <<>>, "", asked[k][2])
                             EXCEPT !.loads = IF asked[k][1] = "call" THEN {}
                                              ELSE P.request.deferred]]
                   [] P.shape = "chat" ->
                        [k \in DOMAIN asked |-> [Message("tool") EXCEPT !.id = asked[k][2]]]
                   [] asked = <<>> -> <<>>
                   [] OTHER ->
                        <<[role |-> "user",
                           blocks |-> [k \in DOMAIN asked |->
                                         Block("result", <<>>, "", asked[k][2])]
                                        \o (IF speaks THEN <<Block("text", x, "", NoId)>>
                                            ELSE <<>>)]>>
      told == IF m.says = "instruction" THEN Instruction(x) ELSE <<>>
      spoken == IF speaks /\ (P.shape \in {"responses", "chat"} \/ asked = <<>>)
                THEN Words(x) ELSE <<>>
  IN answers \o told \o spoken

\* A client that does not keep what it cannot read.
Stripped(kept) ==
  CASE P.shape = "responses" -> SelectSeq(kept, LAMBDA i : i.type # "reasoning")
    [] P.shape = "chat" -> [m \in DOMAIN kept |-> [kept[m] EXCEPT !.details = NoDetails]]
    [] OTHER -> [m \in DOMAIN kept |->
                  [kept[m] EXCEPT !.blocks = SelectSeq(@, LAMBDA b : b.kind \in {"text", "tool"})]]

---------------------------------------------------------------------------
(* The request.                                                            *)
Converts(h, id, to) ==
  LET items == CASE P.shape = "responses" -> [ok |-> TRUE, request |-> [P.request EXCEPT !.items = h]]
                 [] P.shape = "chat" -> ChatRequest(P.request, h, P.provider, to)
                 [] OTHER -> MessagesRequest(P.request, h, P.provider, to)
      converted == ConvertRequest(items.request, id, to)
  IN CASE P.shape = "native" -> NativeRequest(P.request, h, id, to, P.x)
       [] ~items.ok -> [converted EXCEPT !.ok = FALSE, !.contents = <<>>]
       [] OTHER -> [converted EXCEPT !.by = P.by, !.ok = @ \/ P.by # "gemini"]

Asks ==
  /\ phase = "ask"
  /\ turn' = turn + 1
  /\ q' = Converts(history, turn + 1, route)
  /\ phase' = IF ~q'.ok THEN "refused" 
               ELSE IF turn < MaxTurns /\ frames < MaxFrames THEN "open" ELSE "stopped"
  /\ sent' = q'.contents
  /\ s' = IF P.shape = "native" THEN NewNative ELSE Fresh
  /\ pending' = <<>> /\ out' = NewOut /\ reply' = NoReply
  /\ hosted' = Hosted([P.request EXCEPT !.items = IF P.shape = "responses" THEN history ELSE <<>>])
  /\ native' = <<>> /\ used' = NoUse
  /\ UNCHANGED <<profile, route, history, frames, turns>>

---------------------------------------------------------------------------
(* What the client is sent.                                                *)
\* One chunk of the chat stream, as it is or as Messages events.
Adds(o, m) == [o EXCEPT !.messages = m, !.wire = @ \o m.events]
PassChunk(o, c) ==
  IF P.shape = "chat" THEN [o EXCEPT !.wire = Append(@, c)]
  ELSE Adds(o, MessageChunk(o.messages, c))
PassChunks(o, c) == FoldLeft(PassChunk, [o EXCEPT !.chat = c], c.chunks)

PassEvent(o, e) ==
  IF P.shape = "responses" THEN [o EXCEPT !.wire = Append(@, e)]
  ELSE PassChunks(o, ChatEvent(o.chat, e, P.x))

Passed(events) == FoldLeft(PassEvent, out, events)

\* The inner stream is over; each facade ends its own.
EndMessages(o) == IF P.shape = "messages" THEN Adds(o, MessageEof(o.messages)) ELSE o
PassEof(o) ==
  IF P.shape = "responses" THEN o ELSE EndMessages(PassChunks(o, ChatEof(o.chat)))

\* The stream ends with these events.
Closes(events) ==
  /\ out' = PassEof(Passed(events))
  /\ reply' = Received(out'.wire)
  /\ phase' = "done" /\ pending' = <<>>

Sums == [used EXCEPT !.past = @ + used.now, !.now = 0]
Uses1(c) == [used EXCEPT !.now = IF c.usage = 0 THEN @ ELSE c.usage]

---------------------------------------------------------------------------
(* Native events, streamed.                                                *)
Alphabet == IF turn = 1 THEN Frames[profile][1] ELSE Frames[profile][2]
Numbered(c) ==
  LET part(i) == [c.parts[i] EXCEPT !.text = [k \in DOMAIN @ |-> 10 * (frames + 1) + i],
                                    !.id = IF @ = <<0>> THEN <<10 * (frames + 1) + i>> ELSE @]
  IN [c EXCEPT !.parts = [i \in DOMAIN @ |-> part(i)]]

\* A native event of a Responses stream; more: the next one is decoded from
\* the same read, before any event of this one is sent.
Event1(c, more) ==
  \E fed \in {Feed(s, c, q)} :
    /\ used' = Uses1(c)
    /\ IF ~fed.ok
       THEN s' = Fail(fed, q) /\ Closes(s'.events)
       ELSE /\ s' = fed
            /\ IF fed.ended THEN Closes(pending \o fed.events)
               ELSE IF more
               THEN pending' = pending \o fed.events /\ UNCHANGED <<out, reply, phase>>
               ELSE /\ out' = Passed(pending \o fed.events)
                    /\ pending' = <<>> /\ UNCHANGED <<reply, phase>>

NativeEvent(c) ==
  \E fed \in {NativeFeed(s, c, q)} :
    /\ s' = fed /\ used' = Uses1(c)
    /\ out' = [out EXCEPT !.wire = @ \o fed.events]
    /\ IF fed.ended THEN phase' = "done" /\ reply' = Received(out'.wire)
       ELSE UNCHANGED <<phase, reply>>
    /\ UNCHANGED pending

Arrives ==
  /\ phase = "open" /\ Streams /\ ~IsHosted /\ frames < MaxFrames
  /\ \E c0 \in Alphabet, more \in BOOLEAN :
       LET c == Numbered(c0)
       IN /\ more => P.batch /\ frames + 1 < MaxFrames
          /\ native' = native \o c.parts
          /\ IF P.shape = "native" THEN ~more /\ NativeEvent(c) ELSE Event1(c, more)
  /\ frames' = frames + 1
  /\ UNCHANGED <<profile, route, history, turn, q, sent, hosted, turns>>

\* The end of the transport: a truncated call is asked for again, in the same
\* stream; otherwise the reply is finished.
Eof ==
  /\ phase = "open" /\ Streams /\ ~IsHosted /\ pending = <<>>
  /\ IF P.shape = "native"
     THEN /\ s' = NativeEnd(s, q)
          /\ out' = [out EXCEPT !.wire = @ \o s'.events]
          /\ phase' = "done" /\ reply' = Received(out'.wire)
          /\ UNCHANGED <<pending, sent, used>>
     ELSE IF q.by = "gemini" /\ Recoverable(s, q)
     THEN /\ s' = Recovering(s)
          /\ sent' = RetryContents(s, q) /\ used' = Sums
          /\ phase' = "retry"
          /\ UNCHANGED <<out, pending, reply>>
     ELSE \E finished \in {Finish(s, q)} :
            /\ s' = IF finished.ok THEN finished ELSE Fail(finished, q)
            /\ Closes(s'.events)
            /\ UNCHANGED <<sent, used>>
  /\ UNCHANGED <<profile, route, history, turn, q, hosted, frames, native, turns>>

\* The recovery request is answered, or refused.
Resumes ==
  /\ phase = "retry" /\ Streams
  /\ \/ phase' = "open" /\ UNCHANGED <<s, out, reply, pending>>
     \/ s' = Fail(s, q) /\ Closes(s'.events)
  /\ UNCHANGED <<profile, route, history, turn, q, sent, hosted, frames, native, turns, used>>

Interrupted ==
  /\ phase = "open" /\ Streams /\ ~IsHosted /\ pending = <<>>
  /\ IF P.shape = "native"
     THEN /\ s' = Rejects(s)
          /\ out' = [out EXCEPT !.wire = @ \o s'.events]
          /\ phase' = "done" /\ reply' = Received(out'.wire) /\ pending' = <<>>
     ELSE s' = Fail(s, q) /\ Closes(IF q.by = "gemini" THEN s'.events ELSE <<>>)
  /\ UNCHANGED <<profile, route, history, turn, q, sent, hosted, frames, native, turns, used>>

---------------------------------------------------------------------------
(* Whole replies.                                                          *)
Whole(status, output, usage) ==
  LET message == Flattened(output)
      ended == CASE status = "incomplete" -> "length"
                 [] \E i \in DOMAIN output : output[i].type = "call" -> "tool_calls"
                 [] OTHER -> "stop"
  IN CASE status \notin {"completed", "incomplete"} ->
            [NoReply EXCEPT !.status = "failed", !.usage = usage]
       [] P.shape = "responses" -> [status |-> status, kept |-> output, usage |-> usage]
       [] ~Flattens(output) -> [NoReply EXCEPT !.status = "failed"]
       [] P.shape = "chat" -> [status |-> ended, kept |-> <<message>>, usage |-> usage]
       [] OTHER -> [status |-> Stop[ended], usage |-> usage,
                    kept |-> <<[role |-> "assistant", blocks |-> MessageBlocks(message)]>>]

\* One JSON body c in answer to a request that does not stream.
Unary(c) ==
  \E fed \in {Feed(s, c, q)} :
    LET first == s.attempts = 0
        whole == Converted([parts |-> c.parts, finish |-> c.finish, blocked |-> c.blocked,
                            usage |-> c.usage], q)
    IN IF ~c.invalid /\ fed.ok /\ ~fed.ended /\ q.by = "gemini" /\ Recoverable(fed, q)
       THEN /\ s' = Recovering(fed) /\ sent' = RetryContents(fed, q)
            /\ phase' = "retry" /\ UNCHANGED reply
       ELSE \E end \in {IF first \/ fed.ended THEN fed ELSE Finish(fed, q)} :
              /\ s' = fed /\ phase' = "done" /\ UNCHANGED sent
              /\ reply' =
                   CASE c.invalid \/ (first /\ (c.error \/ ~whole.ok)) -> Whole("error", <<>>, 0)
                     [] first -> Whole(whole.status, whole.output, whole.usage)
                     [] ~end.ok -> Whole("error", <<>>, 0)
                     [] OTHER -> Whole(Last(end.events).type, Last(end.events).output,
                                       Last(end.events).usage)

NativeUnary(c) ==
  \E fed \in {NativeFeed(s, c, q)} :
  \E ended \in {IF fed.ended THEN [fed EXCEPT !.events = <<Refused>>] ELSE NativeEnd(fed, q)} :
    /\ s' = IF fed.ended THEN fed ELSE ended
    /\ reply' = IF Last(ended.events).type = "error" THEN [NoReply EXCEPT !.status = "failed"]
                ELSE BlocksOf(fed.events \o ended.events)
    /\ phase' = "done" /\ UNCHANGED sent

Answers ==
  /\ phase = "open" /\ ~Streams /\ ~IsHosted /\ frames < MaxFrames
  /\ \E c0 \in Alphabet :
       LET c == Numbered(c0)
       IN /\ native' = native \o c.parts
          /\ IF P.shape = "native" THEN NativeUnary(c) ELSE Unary(c)
          /\ used' = IF phase' = "retry" THEN [used EXCEPT !.past = @ + c.usage]
                     ELSE [used EXCEPT !.now = c.usage]
  /\ frames' = frames + 1
  /\ UNCHANGED <<profile, route, history, turn, q, pending, out, hosted, turns>>

Reasks ==
  /\ phase = "retry" /\ ~Streams
  /\ \/ phase' = "open" /\ UNCHANGED reply
     \/ phase' = "done" /\ reply' = Whole("error", <<>>, 0)
  /\ UNCHANGED <<profile, route, history, turn, q, sent, s, pending, out, hosted, frames, native,
                 turns, used>>

---------------------------------------------------------------------------
(* Hosted search: whole native turns, told as one stream.                  *)
Shifted(e, offset) == [e EXCEPT !.index = @ + offset]
Renumbered(events, from) == [i \in DOMAIN events |-> [events[i] EXCEPT !.seq = from + i - 1]]

\* The answer of one native turn, and what of it is told: its own events but the
\* lifecycle ones, the searches' results, and in the end everything.
TurnAnswer(end) == [status |-> end.type, output |-> end.output, usage |-> end.usage]
TurnTold(events, h) ==
  LET offset == Len(hosted.items)
      told == Only(events, LAMBDA e : /\ e.type \notin {"completed", "incomplete", "failed"}
                                      /\ hosted.rounds = 0 \/ e.type # "created")
      first == Len(Last(events).output)
      found == [k \in 1..Len(h.items) - offset - first |-> h.items[offset + first + k]]
      extra == [k \in 1..2 * Len(found) |->
                 LET i == (k + 1) \div 2
                 IN Done(IF k % 2 = 1 THEN "added" ELSE "item_done", offset + first + i - 1, found[i])]
  IN [i \in DOMAIN told |-> Shifted(told[i], offset)] \o extra
       \o (IF h.next THEN <<>> ELSE <<Terminal(h.status, h.items, h.usage)>>)

SearchTurn(c) ==
  \E fed \in {Feed(Fresh, c, q)} :
  \E named \in SUBSET (q.tools \ {"search"}) :
  \E turned \in {IF fed.ended THEN fed
                 ELSE LET end == Finish(fed, q) IN [end EXCEPT !.events = fed.events \o @]} :
  \E h \in {IF ~turned.ok THEN [hosted EXCEPT !.status = "error", !.next = FALSE]
            ELSE Advance(hosted, TurnAnswer(Last(turned.events)), named, Rounds)} :
  \E next \in {IF h.next THEN ConvertRequest(h.request, 100 * turn + h.rounds, route) ELSE q} :
    LET broken == h.status = "error" \/ ~next.ok
        stream == IF broken THEN <<Terminal("failed", h.items, h.usage)>>
                  ELSE TurnTold(turned.events, h)
    IN /\ hosted' = IF broken THEN [h EXCEPT !.status = "error"] ELSE h
       /\ s' = fed
       /\ used' = IF broken THEN used ELSE [used EXCEPT !.past = @ + c.usage]
       /\ q' = IF broken THEN q ELSE next
       /\ sent' = q'.contents
       /\ native' = IF broken THEN native ELSE native \o c.parts
       /\ phase' = IF ~broken /\ h.next THEN "open" ELSE "done"
       /\ out' = IF Streams THEN [out EXCEPT !.wire = @ \o Renumbered(stream, Len(@))] ELSE out
       /\ reply' = IF phase' = "open" THEN reply
                   ELSE IF Streams THEN Received(out'.wire)
                   ELSE IF broken THEN Whole("error", <<>>, 0)
                   ELSE Whole(h.status, h.items, h.usage)

Searches ==
  /\ phase = "open" /\ IsHosted /\ frames < MaxFrames
  /\ \E c \in Alphabet : SearchTurn(Numbered(c))
  /\ frames' = frames + 1
  /\ UNCHANGED <<profile, route, history, turn, pending, turns>>

---------------------------------------------------------------------------
(* The client goes on: what it has kept joins its history.                 *)
Idle == /\ s' = Fresh /\ pending' = <<>> /\ out' = NewOut /\ reply' = NoReply
        /\ q' = [ok |-> FALSE] /\ sent' = <<>> /\ native' = <<>> /\ used' = NoUse

Continues(m) ==
  /\ phase = "done" /\ reply.status # "none"
  /\ LET kept == IF m.keep THEN reply.kept ELSE Stripped(reply.kept)
     IN /\ history' = history \o kept \o GoesOn(kept, m)
        /\ turns' = IF reply.kept = <<>> THEN turns
                    ELSE Append(turns, [route |-> route, by |-> q.by, told |-> Trace(native),
                                        keep |-> m.keep,
                                        cut |-> reply.status \in {"incomplete", "length", "max_tokens"},
                                        patched |-> q.by = "gemini" /\ s.attempts > 0])
  /\ route' = m.route
  /\ phase' = "ask" /\ Idle
  /\ hosted' = Hosted(P.request)
  /\ UNCHANGED <<profile, turn, frames>>

Init ==
  /\ profile \in DOMAIN Profiles
  /\ route = Home
  /\ history = Words(<<100>>)
  /\ turn = 0 /\ phase = "ask" /\ frames = 0
  /\ q = [ok |-> FALSE] /\ sent = <<>> /\ s = Fresh
  /\ pending = <<>> /\ out = NewOut /\ reply = NoReply
  /\ hosted = Hosted(Profiles[profile].request)
  /\ native = <<>> /\ turns = <<>> /\ used = NoUse

Next == \/ Asks \/ Arrives \/ Eof \/ Resumes \/ Interrupted
        \/ Answers \/ Reasks \/ Searches
        \/ \E m \in Manners : Continues(m)

Spec == Init /\ [][Next]_vars
===========================================================================
