----------------------------- MODULE HttpForward -----------------------------
(***************************************************************************)
(* One HTTP request on its way to the upstream: fallback::forward, which   *)
(* tries the candidates of the plan one after the other, over              *)
(* forward_request, which recovers one candidate from refusals within the  *)
(* time or count the retry settings allow (proxy.rs, proxy/recovery.rs,    *)
(* proxy/fallback.rs; what may be repeated is decided in proxy/capacity.rs *)
(* and fallback.rs).                                                       *)
(*                                                                         *)
(* The upstream is the environment: it may refuse, answer, stop answering  *)
(* or break the connection anywhere, and it may have begun to generate     *)
(* (`worked`) without the proxy knowing. Of an answer only what the proxy  *)
(* tells apart is kept: busy is a status that means no capacity, down a    *)
(* failure another model may not have, no any other failure, and a good    *)
(* answer is a JSON body or a stream. Of a stream, `created` stands for    *)
(* the events before output, `output` for output and for every unknown or  *)
(* permanent event, and `refusal` for an error that says no capacity.      *)
(***************************************************************************)
EXTENDS Naturals, Sequences

CONSTANTS
  MaxPlan,     \* bounds the candidates of the plan
  MaxRetries,  \* the retry count of the settings
  MaxTries,    \* bounds the attempts there is time for in a time budget
  MaxEvents    \* bounds the events of one stream

ASSUME ConstantsOK ==
  /\ MaxPlan \in Nat \ {0} /\ MaxRetries \in Nat /\ MaxTries \in Nat \ {0}
  /\ MaxEvents \in Nat \ {0}

VARIABLES
  plan,      \* the number of candidates
  blocked,   \* the request is one that must not be replayed on another model
  budget,    \* recovery is timed, counted or off
  late,      \* the time budget is spent
  phase,     \* where the request is
  cand,      \* the candidate being tried
  attempt,   \* the number of the attempt
  retries,   \* attempts that recovery has added
  answer,    \* the kind of the answer to the attempt
  buffer,    \* events received and not yet passed on, with their attempt
  client,    \* events the client has got, with their attempt
  worked,    \* attempts at which the upstream began to generate
  heard      \* attempts whose streamed output the proxy has seen

vars == <<plan, blocked, budget, late, phase, cand, attempt, retries, answer, buffer,
          client, worked, heard>>
request == <<plan, blocked, budget>>
tries   == <<cand, attempt, retries>>

Kinds    == {"busy", "down", "no", "json", "sse"}
Events   == {"created", "refusal", "output", "body"}
Received == [attempt : Nat \ {0}, event : Events]
Trying   == {"send", "errorbody", "prelude", "inspect"}
Ends     == {"done", "gateway", "timeout", "broken", "left"}

TypeOK ==
  /\ plan \in 1..MaxPlan /\ blocked \in BOOLEAN
  /\ budget \in {"timed", "counted", "off"} /\ late \in BOOLEAN
  /\ phase \in Trying \cup {"deliver", "breaking"} \cup Ends
  /\ cand \in 1..plan /\ attempt \in Nat \ {0} /\ retries \in Nat
  /\ answer \in Kinds \cup {"none"}
  /\ buffer \in Seq(Received) /\ client \in Seq(Received)
  /\ worked \subseteq Nat /\ heard \subseteq Nat

Init ==
  /\ plan \in 1..MaxPlan /\ blocked \in BOOLEAN
  /\ budget \in {"timed", "counted", "off"} /\ late = FALSE
  /\ phase = "send" /\ cand = 1 /\ attempt = 1 /\ retries = 0 /\ answer = "none"
  /\ buffer = <<>> /\ client = <<>> /\ worked = {} /\ heard = {}

\* With an eligible chain every candidate gets one attempt and no recovery.
Chained == plan > 1 /\ ~blocked
Timed   == ~Chained /\ budget = "timed"
Counted == ~Chained /\ budget = "counted"

------------------------------------------------------------------------------
\* What may follow a failed attempt.

Goes(to, kept) ==
  /\ phase' = to /\ buffer' = kept
  /\ UNCHANGED <<tries, late, answer>>

PreludeLeaks ==  \* mutant: what the failed attempt sent stays in the buffer
  /\ attempt' = attempt + 1
  /\ phase' = "send" /\ answer' = "none" /\ UNCHANGED buffer

\* What the failed attempt sent is dropped.
NewAttempt ==
  /\ attempt' = attempt + 1
  /\ phase' = "send" /\ answer' = "none" /\ buffer' = <<>>

\* Recovery::retry: another attempt if the budget allows. A time budget without room
\* for the delay is slept out to its end.
Recovers(to, kept) ==
  \/ /\ \/ Timed /\ ~late /\ attempt < MaxTries
        \/ Counted /\ retries < MaxRetries
     /\ retries' = retries + 1 /\ NewAttempt /\ UNCHANGED <<cand, late>>
  \/ /\ ~(Counted /\ retries < MaxRetries)
     /\ phase' = to /\ buffer' = kept /\ late' = (late \/ Timed)
     /\ UNCHANGED <<tries, answer>>

OneCandidateMore(to, kept) ==  \* mutant: the last candidate has a next one
  IF cand <= plan
  THEN cand' = cand + 1 /\ NewAttempt /\ UNCHANGED <<retries, late>>
  ELSE Goes(to, kept)

\* A failure another candidate may not have. The last one's is the request's.
FailsOver(to, kept) ==
  IF cand < plan
  THEN cand' = cand + 1 /\ NewAttempt /\ UNCHANGED <<retries, late>>
  ELSE Goes(to, kept)

Got(event) == [attempt |-> attempt, event |-> event]
Room == Len(buffer) < MaxEvents

\* The upstream has begun to generate, or has not.
Generates(began) == worked' = IF began THEN worked \cup {attempt} ELSE worked

------------------------------------------------------------------------------
\* Sending the request.

\* No connection, so the upstream has not seen the request.
NotConnected ==
  /\ phase = "send"
  /\ IF Timed THEN Recovers("timeout", <<>>)
     ELSE IF Chained THEN FailsOver("gateway", <<>>)
     ELSE Goes("gateway", <<>>)
  /\ UNCHANGED <<request, client, worked, heard>>

\* The connection breaks under the request, which the upstream may have read. Only a
\* timeout moves a chain on.
SendBreaks(timeout, began) ==
  /\ phase = "send"
  /\ Generates(began)
  /\ IF Chained /\ timeout THEN FailsOver("gateway", <<>>) ELSE Goes("gateway", <<>>)
  /\ UNCHANGED <<request, client, heard>>

\* The response headers. Without a chain, a status that may mean a refusal has its
\* body read (other failures may be read too), and so has a stream up to its first
\* output if recovery is timed. With one, a body is read unless it is encoded, which may
\* be so of any answer, or of a plain failure: what is not read is the request's answer.
Headers(kind, read) ==
  /\ phase = "send"
  /\ answer' = kind
  /\ phase' = IF Chained
              THEN IF read THEN "inspect" ELSE "deliver"
              ELSE IF kind = "busy" \/ (kind \in {"down", "no"} /\ read) THEN "errorbody"
              ELSE IF kind = "sse" /\ Timed THEN "prelude"
              ELSE "deliver"
  /\ UNCHANGED <<request, tries, late, buffer, client, worked, heard>>

------------------------------------------------------------------------------
\* Without a chain: a refusal may be repeated, a break may not.

ErrorBody ==
  /\ phase = "errorbody"
  /\ IF answer = "busy" THEN Recovers("deliver", <<Got("body")>>)
                        ELSE Goes("deliver", <<Got("body")>>)
  /\ UNCHANGED <<request, client, worked, heard>>

ErrorBodyBreaks ==
  /\ phase = "errorbody" /\ Goes("gateway", <<>>)
  /\ UNCHANGED <<request, client, worked, heard>>

PreludeEvent(event) ==
  /\ phase = "prelude" /\ Room
  /\ \/ event = "created" /\ Goes("prelude", Append(buffer, Got(event)))
     \/ event = "refusal" /\ Recovers("deliver", Append(buffer, Got(event)))
     \/ event = "output"  /\ Goes("deliver", Append(buffer, Got(event)))
  /\ Generates(event = "output")
  /\ heard' = IF event = "output" THEN heard \cup {attempt} ELSE heard
  /\ UNCHANGED <<request, client>>

BreakRepeated(began) ==  \* mutant: a break before output counts as a refusal
  /\ phase = "prelude"
  /\ Generates(began)
  /\ Recovers("gateway", <<>>)
  /\ UNCHANGED <<request, client, heard>>

PreludeBreaks(began) ==
  /\ phase = "prelude"
  /\ Generates(began)
  /\ Goes("gateway", <<>>)
  /\ UNCHANGED <<request, client, heard>>

\* The stream's end, or more than a prelude may be.
PreludeEnds ==
  /\ phase = "prelude" /\ Goes("deliver", buffer)
  /\ UNCHANGED <<request, client, worked, heard>>

\* The time budget ends while the proxy waits, whatever the upstream is doing.
PreludeUnbounded(began) ==  \* mutant: a stream is waited for without the budget
  /\ Timed /\ late /\ phase \in {"send", "errorbody"}
  /\ Generates(began)
  /\ Goes("timeout", <<>>)
  /\ UNCHANGED <<request, client, heard>>

TimesOut(began) ==
  /\ Timed /\ late /\ phase \in {"send", "errorbody", "prelude"}
  /\ Generates(began)
  /\ Goes("timeout", <<>>)
  /\ UNCHANGED <<request, client, heard>>

BudgetEnds ==
  /\ Timed /\ ~late /\ phase \in Trying
  /\ late' = TRUE
  /\ UNCHANGED <<request, phase, tries, answer, buffer, client, worked, heard>>

------------------------------------------------------------------------------
\* With a chain (inspect): nothing is passed on before the attempt is decided. A
\* stream is decided by its events, everything else by the whole body.

OutputAwaitsTheEnd(event) ==  \* mutant: an event that is no refusal decides nothing
  /\ phase = "inspect" /\ Room
  /\ event = "body" <=> answer \notin {"json", "sse"}
  /\ IF answer = "sse" /\ event = "refusal"
     THEN FailsOver("deliver", Append(buffer, Got(event)))
     ELSE Goes("inspect", Append(buffer, Got(event)))
  /\ Generates(event = "output")
  /\ heard' = IF answer = "sse" /\ event = "output" THEN heard \cup {attempt} ELSE heard
  /\ UNCHANGED <<request, client>>

InspectEvent(event) ==
  /\ phase = "inspect" /\ Room
  /\ event = "body" <=> answer \notin {"json", "sse"}
  /\ IF answer = "sse" /\ event = "refusal"
     THEN FailsOver("deliver", Append(buffer, Got(event)))
     ELSE Goes(IF answer = "sse" /\ event = "output" THEN "deliver" ELSE "inspect",
               Append(buffer, Got(event)))
  /\ Generates(event = "output")
  /\ heard' = IF answer = "sse" /\ event = "output" THEN heard \cup {attempt} ELSE heard
  /\ UNCHANGED <<request, client>>

\* Failures that are not permanent, a JSON refusal, and a stream without output.
InspectEnds ==
  /\ phase = "inspect"
  /\ IF \/ answer \in {"busy", "down", "sse"}
        \/ answer = "json" /\ \E i \in DOMAIN buffer : buffer[i].event = "refusal"
     THEN FailsOver("deliver", buffer)
     ELSE Goes("deliver", buffer)
  /\ UNCHANGED <<request, client, worked, heard>>

InspectBreaks(began) ==
  /\ phase = "inspect"
  /\ Generates(began)
  /\ FailsOver("breaking", buffer)
  /\ UNCHANGED <<request, client, heard>>

\* MAX_PRELUDE bytes without a decision.
InspectFull ==
  /\ phase = "inspect" /\ ~Room /\ Goes("deliver", buffer)
  /\ UNCHANGED <<request, client, worked, heard>>

------------------------------------------------------------------------------
\* Passing the answer on.

Pass ==
  /\ phase \in {"deliver", "breaking"} /\ buffer # <<>>
  /\ client' = Append(client, Head(buffer))
  /\ Goes(phase, Tail(buffer))
  /\ UNCHANGED <<request, worked, heard>>

PassEvent(event) ==
  /\ phase = "deliver" /\ buffer = <<>> /\ Len(client) < MaxEvents
  /\ event = "body" <=> answer \notin {"json", "sse"}
  /\ client' = Append(client, Got(event))
  /\ Generates(event = "output")
  /\ heard' = IF answer = "sse" /\ event = "output" THEN heard \cup {attempt} ELSE heard
  /\ UNCHANGED <<request, phase, tries, late, answer, buffer>>

PassEnd ==
  /\ buffer = <<>>
  /\ \/ phase = "deliver" /\ \E how \in {"done", "broken"} : Goes(how, <<>>)
     \/ phase = "breaking" /\ Goes("broken", <<>>)
  /\ UNCHANGED <<request, client, worked, heard>>

ClientLeaves ==
  /\ phase \notin Ends /\ Goes("left", <<>>)
  /\ UNCHANGED <<request, client, worked, heard>>

Next ==
  \/ NotConnected \/ ErrorBody \/ ErrorBodyBreaks \/ PreludeEnds \/ BudgetEnds
  \/ InspectEnds \/ InspectFull \/ Pass \/ PassEnd \/ ClientLeaves
  \/ \E began \in BOOLEAN :
       \/ PreludeBreaks(began) \/ TimesOut(began) \/ InspectBreaks(began)
       \/ \E timeout \in BOOLEAN : SendBreaks(timeout, began)
  \/ \E kind \in Kinds, read \in BOOLEAN : Headers(kind, read)
  \/ \E event \in Events : PreludeEvent(event) \/ InspectEvent(event) \/ PassEvent(event)

Spec == Init /\ [][Next]_vars

\* Time passes, and a wait that is over wakes the proxy. The upstream owes nothing.
FairSpec == /\ Spec
            /\ WF_vars(BudgetEnds)
            /\ WF_vars(\E began \in BOOLEAN : TimesOut(began))

------------------------------------------------------------------------------
\* All the client gets is of one attempt, the last: no part of a refused or failed
\* attempt before it, its response ID included, and nothing of another model.
OneAnswer == \A i \in DOMAIN client : client[i].attempt = attempt

\* Recovery never repeats a request the upstream may have begun to answer.
NeverGeneratedTwice == ~Chained => worked \subseteq {attempt}

\* A chain does go on after a break, but not once the proxy has seen output: that
\* commits the model (docs/fallbacks.md, "The proxy does not splice two models'
\* answers together").
OutputCommits == heard \subseteq {attempt}

\* The promise to the client: what it gets is the answer of one attempt, settled on
\* before anything is given, after models tried in their order, each once, or one
\* model tried again. The plan of a request that must not be replayed has one model.
Models == IF Chained THEN plan ELSE 1
Stage == IF phase \in Trying THEN "open" ELSE IF phase \in Ends THEN "over" ELSE "settled"
Given == [i \in DOMAIN client |-> client[i].attempt]
Promise == INSTANCE Exchange WITH
  models <- Models, attempt <- attempt, model <- cand, stage <- Stage, given <- Given
KeepsPromise == Promise!Spec

\* Within its time budget recovery comes to an end, even if the upstream never
\* answers, or keeps answering that it is busy.
BudgetEndsRecovery == Timed ~> phase \notin Trying
==============================================================================
