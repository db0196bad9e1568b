--------------------------- MODULE GeminiRequest ---------------------------
(***************************************************************************)
(* A Responses request made into GenerateContent contents                  *)
(* (gemini/request.rs, tool_search.rs): r.items is the client's history,   *)
(* r.tools what it declares, r.deferred the tools to be searched for.      *)
(***************************************************************************)
EXTENDS ResponseStream, TLC

ResponsesFields ==
  {"model", "input", "instructions", "stream", "reasoning", "tools", "tool_choice",
   "parallel_tool_calls", "max_output_tokens", "temperature", "top_p", "text", "store:false",
   "metadata", "client_metadata", "include:encrypted", "prompt_cache_key",
   "prompt_cache_retention", "service_tier", "truncation:disabled", "user", "safety_identifier",
   "gemini"}

Response(tool, id) == [Plain("response") EXCEPT !.tool = tool, !.id = id]
Marker == Text(<<-1>>)       \* where a later instruction takes effect
Continue == Text(<<-2>>)
HasResponse(parts) == \E i \in DOMAIN parts : parts[i].kind = "response"

\* Mutant: tool results and words share a content.
PushedTogether(contents, role, parts) ==
  LET n == Len(contents)
  IN CASE parts = <<>> -> contents
       [] n > 0 /\ contents[n].role = role -> [contents EXCEPT ![n].parts = @ \o parts]
       [] OTHER -> Append(contents, [role |-> role, parts |-> parts])

\* Parts join the last content of the same role, except that tool results and
\* a user's words stay apart.
Pushed(contents, role, parts) ==
  LET n == Len(contents)
      joins == /\ n > 0 /\ contents[n].role = role
               /\ role = "model" \/ HasResponse(contents[n].parts) = HasResponse(parts)
  IN CASE parts = <<>> -> contents
       [] joins -> [contents EXCEPT ![n].parts = @ \o parts]
       [] OTHER -> Append(contents, [role |-> role, parts |-> parts])

---------------------------------------------------------------------------
\* Reading the history: what has been converted so far, the calls that may
\* still be answered, and how many items the last carrier has accounted for.
Unread(r) == [ok |-> TRUE, contents |-> <<>>, skip |-> 0, system |-> <<>>,
              calls |-> [id \in {} |-> Waiting], searches |-> <<>>,
              tools |-> r.tools, deferred |-> r.deferred]

Same(x, y) == /\ x.type = y.type /\ x.text = y.text /\ x.sig = y.sig
              /\ x.tool = y.tool /\ x.id = y.id

\* A carrier that opens restores its native parts, if the items after it are
\* the ones it was sealed with; the calls keep the names and ids Gemini gave them.
Replayed(st, c, rest) ==
  LET n == Len(c.items)
      intact == Len(rest) >= n /\ \A i \in 1..n : Same(rest[i], c.items[i])
      asked == SelectSeq(c.items, LAMBDA i : i.type \in CallTypes)
      native == Calls(c.parts)
      mine == {k \in DOMAIN asked : asked[k].type # "server_search"}
      hosted == SelectSeq([k \in DOMAIN asked |-> k],
                          LAMBDA k : asked[k].type = "server_search")
  IN IF ~intact \/ Len(asked) > Len(native) THEN [st EXCEPT !.ok = FALSE]
     ELSE [st EXCEPT
       !.contents = Append(@, [role |-> "model", parts |-> c.parts]),
       !.skip = n,
       !.calls = [id \in {asked[k].id : k \in mine} |->
                    native[CHOOSE k \in mine : /\ asked[k].id = id
                                               /\ \A j \in mine : asked[j].id = id => j <= k]]
                 @@ @,
       !.searches = @ \o [k \in DOMAIN hosted |-> native[hosted[k]]]]

\* Mutant: an imported call is not expected to be answered.
ImportedUnanswered(st, item) ==
  [st EXCEPT !.contents = Pushed(@, "model", <<Call(item.text, item.tool, item.id, "imported")>>)]

\* A call without its carrier is imported under the placeholder signature.
ImportedCall(st, item) ==
  LET call == Call(item.text, item.tool, item.id, "imported")
  IN [st EXCEPT !.contents = Pushed(@, "model", <<call>>),
                !.calls = IF item.type = "server_search" THEN @ ELSE item.id :> call @@ @,
                !.searches = IF item.type = "server_search" THEN Append(@, call) ELSE @]

\* add_tools, when tools are loaded: a tool known before stays, no longer deferred.
Loaded(st, tools) == [st EXCEPT !.tools = @ \union tools, !.deferred = @ \ tools]

Answered(st, call, item) ==
  Loaded([st EXCEPT !.contents = Pushed(@, "user", <<Response(call.tool, call.id)>>)], item.loads)

\* An instruction after the start keeps its place by a marker.
Instructed(st, item) ==
  [st EXCEPT !.system = Append(@, item.text),
             !.contents = IF @ = <<>> THEN @ ELSE Pushed(@, "user", <<Marker>>)]

\* A part that was shown as it is comes back as it is, its signature included.
Bare(item) == [Plain("other") EXCEPT !.text = item.text, !.sig = item.sig]

\* A client's search results belong to a call under the search's own name.
ReadItem(st, item, rest, route) ==
  CASE ~st.ok -> st
    [] st.skip > 0 -> [st EXCEPT !.skip = @ - 1]
    [] item.type = "reasoning" ->
         IF Opens(item.carrier, "gemini", route) THEN Replayed(st, item.carrier, rest) ELSE st
    [] item.type = "user" -> [st EXCEPT !.contents = Pushed(@, "user", <<Text(item.text)>>)]
    [] item.type = "message" -> [st EXCEPT !.contents = Pushed(@, "model", <<Text(item.text)>>)]
    [] item.type = "native" -> [st EXCEPT !.contents = Pushed(@, "model", <<Bare(item)>>)]
    [] item.type = "system" -> Instructed(st, item)
    [] item.type = "tools" -> Loaded(st, item.loads)
    [] item.type \in CallTypes -> ImportedCall(st, item)
    [] item.type \in {"output", "client_found"} ->
         IF item.id \in DOMAIN st.calls /\ (item.type = "output" \/ st.calls[item.id].tool = "search")
         THEN Answered(st, st.calls[item.id], item)
         ELSE [st EXCEPT !.ok = FALSE]
    [] item.type = "server_found" ->
         IF st.searches = <<>> THEN [st EXCEPT !.ok = FALSE]
         ELSE Answered([st EXCEPT !.searches = Tail(@)], Head(st.searches), item)
    [] OTHER -> [st EXCEPT !.ok = FALSE]

ReadItems(r, route) ==
  FoldLeftDomain(LAMBDA st, i : ReadItem(st, r.items[i],
                                         SubSeq(r.items, i + 1, Len(r.items)), route),
                 Unread(r), r.items)

---------------------------------------------------------------------------
\* Gemini wants the last word to be the user's.
Ended(contents) ==
  IF Last(contents).role = "model"
  THEN Append(contents, [role |-> "user", parts |-> <<Continue>>]) ELSE contents

\* tool_choice as a calling mode, for the tools that are declared by now.
Mode(choice, declared, called) ==
  CASE choice \in {"required", "search"} -> "ANY"
    [] choice = "none" \/ (choice = "auto" /\ declared = {}) -> "NONE"
    [] choice = "absent" /\ declared = {} /\ called -> "NONE"
    [] choice = "absent" -> "default"
    [] OTHER -> "AUTO"

\* What the model is told about calls of the past that it cannot make now.
Warned(tools, declared, mode, calls) ==
  CASE DOMAIN calls = {} -> "nothing"
    [] declared = {} \/ mode = "NONE" -> "disabled"
    [] \E id \in DOMAIN calls : calls[id].tool \notin tools -> "retired"
    [] OTHER -> "nothing"

\* The native request that r makes of a history that has been read.
Request(r, st, id, route) ==
  LET tools == st.tools \union (IF r.search = "none" THEN {} ELSE {"search"})
      declared == tools \ st.deferred
      mode == Mode(r.choice, declared, DOMAIN st.calls # {})
      accepted == /\ r.fields \subseteq ResponsesFields
                  /\ st.ok /\ st.contents # <<>>
                  /\ r.choice = "required" => declared # {}
                  /\ r.choice = "search" => r.search # "none"
  IN [ok |-> accepted, id |-> id, route |-> route, by |-> "gemini",
      contents |-> IF accepted THEN Ended(st.contents) ELSE <<>>,
      tools |-> tools, deferred |-> st.deferred, exact |-> r.exact, search |-> r.search,
      schema |-> r.schema, json |-> r.schema /\ mode # "ANY", max |-> r.limit > 0, mode |-> mode,
      suppress |-> tools = {} /\ r.choice # "absent",
      warned |-> Warned(tools, declared, mode, st.calls)]

\* convert_request; id names the turn, route the model and the sealing key.
ConvertRequest(r, id, route) == Request(r, ReadItems(r, route), id, route)

---------------------------------------------------------------------------
(* Hosted search: up to 16 native turns in one response; h.items is what   *)
(* the client is shown, h.request what the next turn is converted from.    *)
Hosted(r) == [request |-> r, items |-> <<>>, rounds |-> 0, usage |-> 0, limit |-> r.limit,
              status |-> "none", next |-> FALSE]

\* A search finds the tools its paths name; one without paths is an error.
Found(tools) == [Item("server_found", <<>>, "", NoId) EXCEPT !.loads = tools]
Pathless(item) == item.text = <<>>

\* named: the tools that the searches of this turn name.
Advance(h, reply, named, most) ==
  LET searches == Only(reply.output, LAMBDA i : i.type = "server_search")
      found == IF reply.status # "completed" THEN <<>>
               ELSE [k \in DOMAIN searches |-> Found(named)]
      lost == found # <<>> /\ \E k \in DOMAIN searches : Pathless(searches[k])
      own == \E i \in DOMAIN reply.output : reply.output[i].type \in {"call", "client_search"}
      turn == reply.output \o found
      grown == [h EXCEPT !.items = @ \o turn, !.rounds = @ + 1, !.usage = @ + reply.usage,
                         !.status = reply.status, !.next = FALSE]
      spent == h.limit > 0 /\ grown.usage >= h.limit
  IN IF lost THEN [h EXCEPT !.status = "error", !.next = FALSE]
     ELSE IF found = <<>> \/ own THEN grown
     ELSE IF h.limit > 0 /\ grown.usage = 0 THEN [grown EXCEPT !.status = "error"]
     ELSE IF spent THEN [grown EXCEPT !.status = "incomplete"]
     ELSE IF grown.rounds >= most THEN [grown EXCEPT !.status = "error"]
     ELSE [grown EXCEPT !.next = TRUE,
                        !.request.items = @ \o turn,
                        !.request.limit = IF h.limit = 0 THEN 0 ELSE h.limit - grown.usage,
                        !.request.choice = IF @ = "search" THEN "auto" ELSE @]
===========================================================================
