------------------------- MODULE ConversationProps -------------------------
(***************************************************************************)
(* What a conversation promises: to the client, of the stream it reads,    *)
(* and to Gemini, of the history it is sent.                               *)
(***************************************************************************)
EXTENDS Conversation

Over == phase = "done"
Types(types) == {i \in DOMAIN out.wire : out.wire[i].type \in types}
Once(set) == \A i, j \in set : i = j
Index(i) == out.wire[i].index

\* Responses: every item is added once and done at most once, its deltas lie in
\* between, and a completed response is the items that were declared done.
ItemStream ==
  LET w == out.wire
      added == Types({"added"})
      done == Types({"item_done"})
      ends == Types({"completed", "incomplete", "failed"})
      whole == \E i \in ends : w[i].type # "failed"
  IN /\ \A i, j \in DOMAIN w : i < j => w[i].seq < w[j].seq
     /\ whole \/ IsHosted => \A i \in DOMAIN w : w[i].seq = i - 1
     /\ IF Over THEN ends = {Len(w)} ELSE ends = {}
     /\ \A i, j \in added : Index(i) = Index(j) => i = j
     /\ \A i, j \in done : Index(i) = Index(j) => i = j
     /\ \A i \in DOMAIN w \ (ends \union Types({"created"}) \union added) :
          \E a \in added : a < i /\ Index(a) = Index(i)
     /\ \A i \in Types({"delta", "args_delta", "summary_delta"}), d \in done :
          Index(d) = Index(i) => i < d
     /\ Over /\ w[Len(w)].type = "completed" =>
          /\ {Index(i) : i \in done} = {Index(i) : i \in added}
          /\ \A d \in done : w[Len(w)].output[Index(d) + 1] = w[d].item
          /\ Cardinality(done) = Len(w[Len(w)].output)

\* Chat: one role, tools numbered as they come, and either a finish, with the
\* usage if it is asked for, or an error at the end, not both.
ChunkStream ==
  LET w == out.wire
      are(kinds) == {i \in DOMAIN w : w[i].kind \in kinds}
      ends == are({IF P.x.usage THEN "usage" ELSE "finish", "error"})
  IN /\ Once(are({"role"})) /\ Once(are({"details"})) /\ Once(are({"finish"}))
     /\ w # <<>> => w[1].kind \in {"role", "error"}
     /\ \A i \in are({"tool"}) :
          w[i].number = Cardinality({j \in are({"tool"}) : j <= i})
     /\ \A i \in are({"args"}) : \E j \in are({"tool"}) : j < i /\ w[j].number = w[i].number
     /\ IF Over THEN ends = {Len(w)} ELSE ends = {}
     /\ P.x.usage => \A i \in are({"finish"}) : i = Len(w) - 1 /\ w[Len(w)].kind = "usage"
     /\ \A i \in are({"usage"}) : i > 1 /\ w[i - 1].kind = "finish"

\* Messages: blocks are numbered as they open, nothing comes to one that is not
\* open, all are stopped once, and the message stops or an error ends it.
BlockStream ==
  LET w == out.wire
      opens == Types({"block"})
      stops == Types({"stop"})
      ends == Types({"message_stop", "error"})
  IN /\ Once(Types({"start"})) /\ Once(Types({"message_delta"}))
     /\ \A i \in opens : Index(i) = Cardinality({j \in opens : j <= i})
     /\ \A i \in Types({"delta", "signature"}) \union stops :
          /\ \E j \in opens : j < i /\ Index(j) = Index(i)
          /\ ~\E j \in stops : j < i /\ Index(j) = Index(i)
     /\ IF Over THEN ends = {Len(w)} ELSE ends = {}
     /\ Over /\ w[Len(w)].type = "message_stop" =>
          /\ {Index(i) : i \in stops} = {Index(i) : i \in opens}
          /\ Types({"message_delta"}) = {Len(w) - 1}

\* However Gemini's events are cut, batched, recovered or searched on, the stream
\* a client reads is well formed in its shape, to the last event.
StreamWellFormed ==
  Streams => CASE P.shape = "responses" -> ItemStream
               [] P.shape = "chat" -> ChunkStream
               [] OTHER -> BlockStream

---------------------------------------------------------------------------
Of(atoms, kind) == SelectSeq(atoms, LAMBDA a : a.kind = kind)

\* The calls, each of the tool that its name stands for.
Called(atoms) ==
  LET calls == Of(atoms, "call")
  IN [i \in DOMAIN calls |->
        <<Resolved(calls[i].tool, P.request.tools \union {"search"}), calls[i].v>>]

KeptTexts(kept) ==
  CASE P.shape = "responses" ->
         LET some == SelectSeq(kept, LAMBDA i : i.type = "message")
         IN FlattenSeq([i \in DOMAIN some |-> some[i].text])
    [] P.shape = "chat" -> FlattenSeq([m \in DOMAIN kept |-> kept[m].text])
    [] OTHER -> FlattenSeq([m \in DOMAIN kept |->
                  LET words == Blocks(kept[m].blocks, "text")
                  IN FlattenSeq([i \in DOMAIN words |-> words[i].text])])

KeptCalls(kept) ==
  CASE P.shape = "responses" ->
         LET some == SelectSeq(kept, LAMBDA i : i.type \in CallTypes)
         IN [i \in DOMAIN some |-> <<some[i].tool, some[i].text>>]
    [] P.shape = "chat" ->
         FlattenSeq([m \in DOMAIN kept |->
           [i \in DOMAIN kept[m].calls |-> <<kept[m].calls[i].tool, kept[m].calls[i].text>>]])
    [] OTHER -> FlattenSeq([m \in DOMAIN kept |->
                  LET tools == Blocks(kept[m].blocks, "tool")
                  IN [i \in DOMAIN tools |-> <<tools[i].tool, tools[i].text>>]])

\* A reply that was not failed holds all that Gemini said and asked for, in its
\* order, however it arrived and however often it was asked for again, and it
\* reports the tokens of every attempt, unless a chat client does not ask for them.
\* (Calls that were not allowed are told as text.)
ReplyIsWhole ==
  Over /\ reply.status \notin {"failed", "error"} =>
    LET told == Trace(native)
        said == Of(told, "said")
    IN /\ P.request.tools # {} \/ Called(told) = <<>> =>
            /\ KeptTexts(reply.kept) = [i \in DOMAIN said |-> said[i].v[1]]
            /\ KeptCalls(reply.kept) = Called(told)
       /\ (P.shape = "chat" /\ Streams => P.x.usage) => reply.usage = used.past + used.now

\* A turn that failed leaves nothing that a client could take for a result: no
\* item is declared done, no finish, no signature to replay the turn with; of a
\* strict reply that was not completed not even the text is shown.  A hosted
\* search has told its earlier turns, and what they found, last; of the turn that
\* failed it declares nothing done (the response that failed may list it: what a
\* client keeps of such a response is what was declared done).
\* docs/custom-messages.md: no successful message_stop follows a stream error.
FailureCommitsNothing ==
  Over /\ Streams =>
    LET w == out.wire
        failed == reply.status = "failed"
    IN CASE P.shape = "responses" ->
              /\ failed /\ ~IsHosted => Types({"item_done"}) = {}
              /\ failed /\ IsHosted /\ reply.kept # <<>> => Last(reply.kept).type = "server_found"
              /\ P.request.schema /\ reply.status # "completed" =>
                   \A i \in Types({"delta"}) :
                     /\ IsHosted
                     /\ \E j \in Types({"item_done"}) : i < j /\ w[j].item.type = "server_found"
         [] P.shape = "chat" ->
              failed => \A i \in DOMAIN w : w[i].kind \notin {"finish", "usage"}
         [] OTHER ->
              failed => Types({"message_stop", "message_delta", "signature", "stop"}) = {}

---------------------------------------------------------------------------
Converted1 == phase \in {"open", "stopped"} /\ q.by # "openai" /\ used = NoUse

\* The model's words in the native history, content by content.
Told(contents) ==
  LET mine == SelectSeq(contents, LAMBDA c : c.role = "model")
  IN [i \in DOMAIN mine |-> Trace(mine[i].parts)]
Within(x, y) == \E i \in 0..(Len(y) - Len(x)) : SubSeq(y, i + 1, i + Len(x)) = x
Signs1(atoms) ==
  \E k \in DOMAIN atoms : atoms[k].kind = "own" /\ (k = 1 \/ atoms[k - 1].kind # "other")

\* A turn goes back to the model that signed it exactly as Gemini said it, if its
\* carrier was kept, and a signature never goes anywhere else, nor with parts it
\* was not given to, but with a part that is neither text nor a call: the client is
\* shown that as it is and sends it back so.  A turn without a carrier keeps its
\* words, its calls and such parts.  A turn of several attempts carries no signature
\* of Gemini's once it is completed (one that is cut off in the last attempt, too, is
\* kept as it came).
TurnsRestored ==
  Converted1 =>
    LET told == Told(q.contents)
        all == FlattenSeq(told)
        heard == FlattenSeq([j \in DOMAIN turns |-> turns[j].told])
        back(t) == t.keep /\ t.route = route /\ t.by = q.by /\ ~P.x.exclude
        unmarked(atoms) == SelectSeq(atoms, LAMBDA a : a.kind # "imported")
    IN /\ \A j \in DOMAIN turns :
            back(turns[j]) /\ ~turns[j].patched => Within(turns[j].told, all)
       /\ \A i \in DOMAIN told : Signs1(told[i]) =>
            \E j \in DOMAIN turns : /\ back(turns[j]) /\ (turns[j].patched => turns[j].cut)
                                    /\ Within(unmarked(told[i]), turns[j].told)
       /\ P.request.tools # {} =>
            /\ Of(all, "said") = Of(heard, "said")
            /\ Of(all, "other") = Of(heard, "other")
            /\ Called(all) = Called(heard)

Pairs(contents, kind) ==
  LET parts == FlattenSeq([i \in DOMAIN contents |-> contents[i].parts])
      some == SelectSeq(parts, LAMBDA p : p.kind = kind)
  IN [i \in DOMAIN some |-> <<some[i].tool, some[i].id>>]

\* What Gemini accepts: the user has the last word, results and words are separate
\* contents, no content is empty (but a native Messages turn in which Gemini said
\* nothing, a blocked one, goes back as it is), and when a client answers every call each call is
\* followed, in order, by the result with its own native name and id.
HistoryPaired ==
  phase \in {"open", "retry", "stopped"} /\ q.by # "openai" =>
    /\ Last(sent).role = "user"
    /\ \A i \in DOMAIN sent :
         /\ sent[i].parts # <<>> \/ (sent[i].role = "model" /\ q.by = "messages")
         /\ HasResponse(sent[i].parts) =>
              \A k \in DOMAIN sent[i].parts : sent[i].parts[k].kind = "response"
    /\ P.request.tools # {} =>
         \A i \in DOMAIN sent :
           sent[i].role = "user" =>
             Pairs(SubSeq(sent, 1, i), "response")
               = SubSeq(Pairs(SubSeq(sent, 1, i), "call"), 1,
                        IF HasResponse(sent[i].parts) \/ i = 1 \/ sent[i - 1].role = "user"
                        THEN Len(Pairs(SubSeq(sent, 1, i), "call"))
                        ELSE Len(Pairs(SubSeq(sent, 1, i - 1), "response")))

\* In this turn Gemini called the search by a name that is not its own.
Misnamed(told) ==
  \E i \in DOMAIN told : /\ told[i].kind = "call" /\ told[i].tool # "search"
                         /\ Resolved(told[i].tool, P.request.tools \union {"search"}) = "search"

\* A client that keeps to the protocol is refused in three cases only: for a field
\* that cannot be mapped; where the docs say so, for a carrier that is not this
\* route's (a conversation in the Responses shape may change its model); and, which
\* no doc says, when it answers a search that Gemini called by another of its names
\* and keeps the carrier: the call is accepted under any name (resolve_tool), its
\* result only under the first (request.rs:830).  Neither dropped carriers, pieces,
\* recoveries, loaded tools nor instructions in between have it refused.
NeverRefused ==
  phase = "refused" =>
    \/ ~(P.request.fields \subseteq ResponsesFields)
    \/ /\ P.shape # "responses"
       /\ \E j \in DOMAIN turns :
            turns[j].keep /\ (turns[j].route # route \/ (P.provider # "gemini" /\ turns[j].by = "gemini"))
    \/ /\ P.request.search = "client"
       /\ \E j \in DOMAIN turns :
            turns[j].keep /\ turns[j].route = route /\ Misnamed(turns[j].told)
===========================================================================
