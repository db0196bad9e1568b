--------------------------- MODULE MCConversation ---------------------------
(* Clients of every shape, and what Gemini may say to each.                *)
EXTENDS ConversationProps

MCAliases == {<<"list", "ls">>, <<"tool_search", "search">>}

\* Requests.  ls is a tool the client offers at once, rg one to be searched.
Base == [items |-> <<>>, tools |-> {"ls"}, deferred |-> {}, search |-> "none",
         choice |-> "absent", schema |-> FALSE, exact |-> {}, limit |-> 0, fields |-> {}]
Silent == [Base EXCEPT !.tools = {}, !.choice = "none"]
Strict == [Base EXCEPT !.tools = {}, !.schema = TRUE]
Limited == [Base EXCEPT !.limit = 3]
Finder(by) == [Base EXCEPT !.tools = {"ls", "rg"}, !.deferred = {"rg"}, !.search = by]
Exact == [Base EXCEPT !.exact = {"ls"}]
Choosy == [Base EXCEPT !.choice = "required", !.fields = {"model", "n"}]

Kind(shape, stream, request) ==
  [shape |-> shape, stream |-> stream, request |-> request, provider |-> "gemini",
   by |-> IF shape = "native" THEN "messages" ELSE "gemini", batch |-> FALSE,
   x |-> [exclude |-> FALSE, display |-> TRUE, parallel |-> TRUE, usage |-> TRUE]]
OpenAI(kind) == [kind EXCEPT !.provider = "openai", !.by = "openai"]
FallsBack(kind) == [kind EXCEPT !.provider = "openai"]

MCProfiles ==
  [codex |-> [Kind("responses", TRUE, Base) EXCEPT !.batch = TRUE],
   pieces |-> Kind("responses", TRUE, Base),
   limited |-> Kind("responses", TRUE, Limited),
   silent |-> Kind("responses", TRUE, Silent),
   strict |-> [Kind("responses", TRUE, Strict) EXCEPT !.batch = TRUE],
   finder |-> Kind("responses", TRUE, Finder("client")),
   hosted |-> Kind("responses", TRUE, Finder("server")),
   hostedWhole |-> Kind("responses", FALSE, [Finder("server") EXCEPT !.limit = 3,
                                                                     !.choice = "search"]),
   hostedStrict |-> Kind("responses", TRUE, [Finder("server") EXCEPT !.schema = TRUE]),
   whole |-> Kind("responses", FALSE, Exact),
   choosy |-> Kind("responses", FALSE, Choosy),
   chat |-> Kind("chat", TRUE, Base),
   chatWhole |-> Kind("chat", FALSE, Base),
   chatPlain |-> [Kind("chat", TRUE, Base) EXCEPT !.x.exclude = TRUE, !.x.usage = FALSE],
   messages |-> OpenAI(Kind("messages", TRUE, Base)),
   messagesWhole |-> OpenAI(Kind("messages", FALSE, Base)),
   messagesMoved |-> FallsBack(Kind("messages", TRUE, Base)),
   claude |-> Kind("native", TRUE, Base),
   claudePieces |-> Kind("native", TRUE, Base),
   claudeWhole |-> Kind("native", FALSE, Base),
   claudeTerse |-> [Kind("native", TRUE, Base) EXCEPT !.x.display = FALSE,
                                                      !.x.parallel = FALSE],
   claudeStrict |-> Kind("native", TRUE, Strict)]

---------------------------------------------------------------------------
\* Native events.  A text of <<0>> is given its number as it arrives, and so
\* is the id <<0>>.
Said1 == Text(<<0>>)
Own(p) == [p EXCEPT !.sig = "own"]
Thought == [Said1 EXCEPT !.thought = TRUE]
Other == [Said1 EXCEPT !.kind = "other"]
Empty(p) == [p EXCEPT !.text = <<>>]
Mark == Own(Plain("mark"))
Makes(tool, id) == Call(<<0>>, tool, id, "none")
Piece(kind, id) == [Makes("ls", id) EXCEPT !.kind = kind]
Native(parts, finish, usage) ==
  [parts |-> parts, finish |-> finish, usage |-> usage, blocked |-> FALSE,
   error |-> FALSE, invalid |-> FALSE]
Says(parts) == Native(parts, "none", 0)
Stops1(parts) == Native(parts, "STOP", 2)

Talk == {Says(<<Thought, Said1>>), Says(<<Said1>>), Says(<<Own(Thought)>>),
         Stops1(<<Own(Makes("ls", <<0>>)), Makes("list", NoId)>>), Stops1(<<Own(Said1)>>),
         Native(<<>>, "MALFORMED", 1), Native(<<Mark>>, "STOP", 1)}
Odd == {[Says(<<>>) EXCEPT !.error = TRUE], [Says(<<Said1>>) EXCEPT !.invalid = TRUE],
        [Says(<<>>) EXCEPT !.blocked = TRUE], Says(<<Makes("rm", <<0>>)>>),
        Native(<<Said1>>, "MAX_TOKENS", 1)}
Pieces == {Says(<<Piece("open", <<7>>)>>), Says(<<Own(Piece("open", NoId)), Said1>>),
           Says(<<Piece("more", NoId)>>), Stops1(<<Piece("last", <<7>>)>>),
           Stops1(<<Piece("last", NoId), Makes("ls", NoId)>>),
           Says(<<Own(Piece("open", <<8>>)), Said1>>),
           Stops1(<<Piece("last", <<8>>), Piece("last", <<7>>)>>),
           Stops1(<<[Piece("last", <<8>>) EXCEPT !.sig = "second"]>>)}
Ends == {Stops1(<<Own(Said1)>>), Stops1(<<Own(Makes("ls", NoId))>>)}
Wholes == {Stops1(<<Thought, Own(Said1), Said1, Own(Makes("ls", NoId)), Makes("list", <<0>>)>>),
           Stops1(<<Said1, Mark>>), Stops1(<<Said1, Own(Other)>>),
           Stops1(<<Empty(Makes("ls", NoId))>>), Native(<<Thought, Said1>>, "MALFORMED", 1),
           Native(<<Own(Said1)>>, "MAX_TOKENS", 1), Stops1(<<Makes("rm", NoId)>>)} \union Odd
Search == Own(Makes("search", NoId))
Searching == {Stops1(<<Thought, Search>>), Stops1(<<Search, Makes("ls", NoId)>>),
              Stops1(<<Empty(Search)>>), Stops1(<<Makes("rg", <<0>>)>>),
              Stops1(<<Own(Makes("tool_search", NoId))>>)}

MCFrames ==
  [k \in DOMAIN MCProfiles |->
    CASE k \in {"codex", "chat"} -> <<Talk \union Odd, Ends>>
      [] k \in {"claude", "messages"} -> <<Talk \union Odd, Ends>>
      [] k \in {"pieces", "claudePieces"} -> <<Pieces, Ends>>
      [] k \in {"finder"} -> <<Searching \union Ends, Searching>>
      [] k \in {"hosted", "hostedWhole"} -> <<Searching \union Ends \union Odd, Searching \union Ends>>
      [] k = "hostedStrict" ->
           <<{Stops1(<<Said1, Search>>), Stops1(<<Own(Said1)>>), [Says(<<>>) EXCEPT !.error = TRUE]},
             Ends>>
      [] k \in {"whole", "chatWhole", "claudeWhole", "messagesWhole"} -> <<Wholes, Ends>>
      [] k \in {"strict", "claudeStrict"} ->
           <<{Says(<<Thought>>), Says(<<Said1>>), Stops1(<<Own(Said1)>>), Stops1(<<>>),
              Native(<<Said1>>, "MAX_TOKENS", 1), [Says(<<>>) EXCEPT !.error = TRUE]}, Ends>>
      [] OTHER -> <<{Says(<<Thought, Said1>>), Stops1(<<Own(Makes("ls", NoId)), Makes("ls", <<0>>)>>),
                     Stops1(<<Own(Said1)>>), Native(<<Said1>>, "MAX_TOKENS", 1)}, Ends>>]

MCHome == <<"flash", "key">>
MCManners ==
  {[keep |-> TRUE, route |-> MCHome, says |-> "answer"],
   [keep |-> TRUE, route |-> <<"pro", "key">>, says |-> "words"],
   [keep |-> FALSE, route |-> MCHome, says |-> "instruction"]}
===========================================================================
