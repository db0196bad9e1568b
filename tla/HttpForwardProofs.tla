-------------------------- MODULE HttpForwardProofs --------------------------
(* Theorems about HttpForward, for plans, retry counts and streams of any    *)
(* length.                                                                   *)
EXTENDS HttpForward, SequenceTheorems, TLAPS

\* Until an attempt is decided nothing of it has reached the client, and the proxy has
\* seen no output.
Undecided == phase \in Trying => client = <<>> /\ heard = {}

\* Only the events of the attempt are held back.
BufferOfAttempt == \A i \in DOMAIN buffer : buffer[i].attempt = attempt

\* Each phase belongs to one way of recovering, and the attempts that recovery repeats
\* the upstream has not worked on. (A chain may go on to another model after a break.)
Ways ==
  /\ phase \in {"errorbody", "prelude"} => ~Chained
  /\ phase = "inspect" => Chained

Unworked == ~Chained /\ phase \in {"send", "errorbody", "prelude"} => worked = {}

IInv ==
  /\ TypeOK /\ Undecided /\ BufferOfAttempt /\ Ways /\ Unworked
  /\ OneAnswer /\ NeverGeneratedTwice /\ OutputCommits

LEMMA InitInv == Init => IInv
<1> SUFFICES ASSUME Init PROVE IInv
  OBVIOUS
<1>1. plan \in 1..MaxPlan /\ cand \in 1..plan
  BY ConstantsOK DEF Init
<1>2. buffer \in Seq(Received) /\ client \in Seq(Received)
  BY DEF Init
<1>3. TypeOK
  <2>1. phase \in Trying /\ budget \in {"timed", "counted", "off"} /\ answer = "none"
    BY DEF Init, Trying
  <2>2. attempt \in Nat \ {0} /\ retries \in Nat /\ worked \subseteq Nat /\ heard \subseteq Nat
    BY DEF Init
  <2>3. blocked \in BOOLEAN /\ late \in BOOLEAN
    BY DEF Init
  <2> QED BY <1>1, <1>2, <2>1, <2>2, <2>3 DEF TypeOK
<1>4. Undecided /\ Unworked /\ Ways
  BY DEF Init, Undecided, Unworked, Ways
<1>5. BufferOfAttempt /\ OneAnswer /\ NeverGeneratedTwice /\ OutputCommits
  BY DEF Init, BufferOfAttempt, OneAnswer, NeverGeneratedTwice, OutputCommits
<1> QED BY <1>3, <1>4, <1>5 DEF IInv

------------------------------------------------------------------------------
\* What the ways an attempt may end do to the invariant.

\* Another attempt: of a candidate that may be repeated only if the upstream has not
\* worked on it.
LEMMA Repeated ==
  ASSUME IInv, phase \in Trying, NewAttempt, UNCHANGED <<request, client, heard>>,
         cand' \in 1..plan, retries' \in Nat, late' \in BOOLEAN,
         worked' \in SUBSET Nat, worked' = worked \/ Chained,
         Chained \/ phase # "inspect"
  PROVE  IInv'
<1>1. TypeOK'
  BY DEF IInv, TypeOK, NewAttempt, request, Trying
<1>2. Undecided' /\ OneAnswer' /\ OutputCommits'
  BY DEF IInv, Undecided, OneAnswer, OutputCommits
<1>3. BufferOfAttempt' /\ Ways'
  BY DEF NewAttempt, BufferOfAttempt, Ways
<1>4. Unworked' /\ NeverGeneratedTwice'
  <2>1. Chained' = Chained
    BY DEF Chained, request
  <2>2. ~Chained => worked' = {}
    BY DEF IInv, Unworked, Trying
  <2> QED BY <2>1, <2>2 DEF Unworked, NeverGeneratedTwice
<1> QED BY <1>1, <1>2, <1>3, <1>4 DEF IInv

\* The attempt goes on, with only its own events held back.
LEMMA Moved ==
  ASSUME IInv, UNCHANGED <<request, tries, client>>,
         phase' \in Trying \cup {"deliver", "breaking"} \cup Ends,
         late' \in BOOLEAN, answer' \in Kinds \cup {"none"},
         buffer' \in Seq(Received), BufferOfAttempt',
         worked' = worked \/ worked' = worked \cup {attempt},
         heard' = heard \/ heard' = heard \cup {attempt},
         phase' \in Trying => phase \in Trying /\ heard' = heard,
         ~Chained /\ phase' \in {"send", "errorbody", "prelude"}
           => worked' = worked /\ phase \in {"send", "errorbody", "prelude"},
         Ways'
  PROVE  IInv'
<1>1. TypeOK'
  BY DEF IInv, TypeOK, request, tries
<1>2. Undecided' /\ OneAnswer' /\ OutputCommits'
  BY DEF IInv, Undecided, OneAnswer, OutputCommits, tries
<1>3. Unworked' /\ NeverGeneratedTwice'
  <2>1. Chained' = Chained
    BY DEF Chained, request
  <2> QED BY <2>1 DEF IInv, Unworked, NeverGeneratedTwice, tries
<1> QED BY <1>1, <1>2, <1>3 DEF IInv

LEMMA Holds ==
  ASSUME IInv, NEW event \in Events
  PROVE  /\ Append(buffer, Got(event)) \in Seq(Received)
         /\ \A i \in DOMAIN Append(buffer, Got(event)) :
              Append(buffer, Got(event))[i].attempt = attempt
         /\ <<Got(event)>> \in Seq(Received)
         /\ \A i \in DOMAIN <<Got(event)>> : <<Got(event)>>[i].attempt = attempt
<1>1. Got(event) \in Received /\ Got(event).attempt = attempt
  BY DEF IInv, TypeOK, Got, Received
<1>2. buffer \in Seq(Received)
  BY DEF IInv, TypeOK
<1> QED BY <1>1, <1>2 DEF IInv, BufferOfAttempt

\* An end of the attempt that is final, or passes on what is held back.
LEMMA Passed ==
  ASSUME IInv, UNCHANGED <<request, client>>, NEW to \in {"deliver", "breaking"} \cup Ends,
         NEW kept \in Seq(Received), \A i \in DOMAIN kept : kept[i].attempt = attempt,
         phase' = to, buffer' = kept, late' \in BOOLEAN, UNCHANGED <<tries, answer>>,
         worked' = worked \/ worked' = worked \cup {attempt},
         heard' = heard \/ heard' = heard \cup {attempt}
  PROVE  IInv'
<1>1. phase' \notin Trying
  BY DEF Trying, Ends
<1>2. BufferOfAttempt' /\ Ways'
  BY <1>1 DEF BufferOfAttempt, Ways, tries, Trying
<1>3. answer' \in Kinds \cup {"none"}
  BY DEF IInv, TypeOK
<1>4. phase' \notin {"send", "errorbody", "prelude"}
  BY <1>1 DEF Trying
<1>5. phase' \in Trying \cup {"deliver", "breaking"} \cup Ends
  OBVIOUS
<1> QED BY <1>1, <1>2, <1>3, <1>4, <1>5, Moved

LEMMA Recovered ==
  ASSUME IInv, UNCHANGED <<request, client, worked>>, phase \in Trying, phase # "inspect",
         heard' = heard, NEW to \in {"deliver", "breaking"} \cup Ends,
         NEW kept \in Seq(Received), \A i \in DOMAIN kept : kept[i].attempt = attempt,
         Recovers(to, kept)
  PROVE  IInv'
<1>1. CASE NewAttempt /\ retries' = retries + 1 /\ UNCHANGED <<cand, late>>
  <2>1. cand' \in 1..plan /\ retries' \in Nat /\ late' \in BOOLEAN /\ worked' \in SUBSET Nat
    BY <1>1 DEF IInv, TypeOK
  <2> QED BY <1>1, <2>1, Repeated
<1>2. CASE /\ phase' = to /\ buffer' = kept /\ late' = (late \/ Timed)
           /\ UNCHANGED <<tries, answer>>
  <2>1. late' \in BOOLEAN
    BY <1>2 DEF IInv, TypeOK, Timed
  <2> QED BY <1>2, <2>1, Passed
<1> QED BY <1>1, <1>2 DEF Recovers

LEMMA FailedOver ==
  ASSUME IInv, UNCHANGED <<request, client>>, phase \in Trying, Chained, heard' = heard,
         worked' = worked \/ worked' = worked \cup {attempt},
         NEW to \in {"deliver", "breaking"} \cup Ends,
         NEW kept \in Seq(Received), \A i \in DOMAIN kept : kept[i].attempt = attempt,
         FailsOver(to, kept)
  PROVE  IInv'
<1>1. CASE cand < plan
  <2>1. cand' = cand + 1 /\ NewAttempt /\ UNCHANGED <<retries, late>>
    BY <1>1 DEF FailsOver
  <2>2. plan \in Nat /\ cand \in 1..plan
    BY DEF IInv, TypeOK
  <2>3. cand' \in 1..plan
    BY <1>1, <2>1, <2>2
  <2>4. retries' \in Nat /\ late' \in BOOLEAN /\ worked' \in SUBSET Nat
    BY <2>1 DEF IInv, TypeOK
  <2> QED BY <2>1, <2>3, <2>4, Repeated
<1>2. CASE ~(cand < plan)
  <2>1. late' \in BOOLEAN
    BY <1>2 DEF IInv, TypeOK, FailsOver, Goes
  <2> QED BY <1>2, <2>1, Passed DEF FailsOver, Goes
<1> QED BY <1>1, <1>2

LEMMA Gone ==
  ASSUME IInv, UNCHANGED <<request, client>>, NEW to \in {"deliver", "breaking"} \cup Ends,
         NEW kept \in Seq(Received), \A i \in DOMAIN kept : kept[i].attempt = attempt,
         Goes(to, kept),
         worked' = worked \/ worked' = worked \cup {attempt},
         heard' = heard \/ heard' = heard \cup {attempt}
  PROVE  IInv'
<1>1. late' \in BOOLEAN
  BY DEF IInv, TypeOK, Goes
<1> QED BY <1>1, Passed DEF Goes

LEMMA Empty ==
  /\ <<>> \in Seq(Received)
  /\ \A i \in DOMAIN <<>> : <<>>[i].attempt = attempt
  OBVIOUS

LEMMA Worked ==
  ASSUME NEW began, Generates(began)
  PROVE  worked' = worked \/ worked' = worked \cup {attempt}
  BY DEF Generates

------------------------------------------------------------------------------
\* One lemma for each action.

LEMMA NotConnectedInv == IInv /\ NotConnected => IInv'
<1> SUFFICES ASSUME IInv, NotConnected PROVE IInv'
  OBVIOUS
<1>1. UNCHANGED <<request, client, worked, heard>> /\ phase = "send" /\ phase \in Trying
  BY DEF NotConnected, Trying
<1>2. CASE Recovers("timeout", <<>>)
  BY <1>1, <1>2, Empty, Recovered DEF Ends
<1>3. CASE Chained /\ FailsOver("gateway", <<>>)
  BY <1>1, <1>3, Empty, FailedOver DEF Ends
<1>4. CASE Goes("gateway", <<>>)
  BY <1>1, <1>4, Empty, Gone DEF Ends
<1> QED BY <1>2, <1>3, <1>4 DEF NotConnected

LEMMA SendBreaksInv ==
  ASSUME IInv, NEW timeout \in BOOLEAN, NEW began \in BOOLEAN, SendBreaks(timeout, began)
  PROVE  IInv'
<1>1. UNCHANGED <<request, client, heard>> /\ phase \in Trying
  BY DEF SendBreaks, Trying
<1>2. worked' = worked \/ worked' = worked \cup {attempt}
  BY Worked DEF SendBreaks
<1>3. CASE Chained /\ FailsOver("gateway", <<>>)
  BY <1>1, <1>2, <1>3, Empty, FailedOver DEF Ends
<1>4. CASE Goes("gateway", <<>>)
  BY <1>1, <1>2, <1>4, Empty, Gone DEF Ends
<1> QED BY <1>3, <1>4 DEF SendBreaks

LEMMA HeadersInv ==
  ASSUME IInv, NEW kind \in Kinds, NEW read \in BOOLEAN, Headers(kind, read)
  PROVE  IInv'
<1>1. UNCHANGED <<request, tries, late, buffer, client, worked, heard>> /\ answer' = kind
  BY DEF Headers
<1>2. phase = "send" /\ phase' \in {"deliver", "inspect", "errorbody", "prelude"}
  BY DEF Headers
<1>3. phase' \in Trying \cup {"deliver", "breaking"} \cup Ends /\ phase \in Trying
  BY <1>2 DEF Trying
<1>4. Chained' = Chained
  BY <1>1 DEF Chained, request
<1>5. Ways'
  BY <1>4 DEF Headers, Ways
<1>6. BufferOfAttempt'
  BY <1>1 DEF IInv, BufferOfAttempt, tries
<1>7. late' \in BOOLEAN /\ answer' \in Kinds \cup {"none"} /\ buffer' \in Seq(Received)
  BY <1>1 DEF IInv, TypeOK
<1> QED BY <1>1, <1>2, <1>3, <1>5, <1>6, <1>7, Moved

LEMMA ErrorBodyInv == IInv /\ ErrorBody => IInv'
<1> SUFFICES ASSUME IInv, ErrorBody PROVE IInv'
  OBVIOUS
<1>1. UNCHANGED <<request, client, worked, heard>> /\ phase = "errorbody" /\ phase \in Trying
  BY DEF ErrorBody, Trying
<1>2. "body" \in Events
  BY DEF Events
<1>3. CASE Recovers("deliver", <<Got("body")>>)
  BY <1>1, <1>2, <1>3, Holds, Recovered
<1>4. CASE Goes("deliver", <<Got("body")>>)
  BY <1>1, <1>2, <1>4, Holds, Gone
<1> QED BY <1>3, <1>4 DEF ErrorBody

LEMMA ErrorBodyBreaksInv == IInv /\ ErrorBodyBreaks => IInv'
  BY Empty, Gone DEF ErrorBodyBreaks, Ends

\* The attempt is not decided by the event: it is held back.
LEMMA HeldBack ==
  ASSUME IInv, UNCHANGED <<request, client, worked, heard>>, NEW event \in Events,
         phase \in Trying, Goes(phase, Append(buffer, Got(event)))
  PROVE  IInv'
<1>1. Chained' = Chained
  BY DEF Chained, request
<1>2. Ways'
  BY <1>1 DEF IInv, Ways, Goes
<1>3. BufferOfAttempt' /\ buffer' \in Seq(Received)
  BY Holds DEF Goes, BufferOfAttempt, tries
<1>4. late' \in BOOLEAN /\ answer' \in Kinds \cup {"none"}
  BY DEF IInv, TypeOK, Goes
<1>5. phase' = phase /\ UNCHANGED tries
  BY DEF Goes
<1> QED BY <1>2, <1>3, <1>4, <1>5, Moved

LEMMA PreludeEventInv ==
  ASSUME IInv, NEW event \in Events, PreludeEvent(event)
  PROVE  IInv'
<1>1. UNCHANGED <<request, client>> /\ phase = "prelude" /\ phase \in Trying
  BY DEF PreludeEvent, Trying
<1>2. CASE event = "created" /\ Goes("prelude", Append(buffer, Got(event)))
  BY <1>1, <1>2, HeldBack DEF PreludeEvent, Generates
<1>3. CASE event = "refusal" /\ Recovers("deliver", Append(buffer, Got(event)))
  <2>1. UNCHANGED <<worked, heard>>
    BY <1>3 DEF PreludeEvent, Generates
  <2> QED BY <1>1, <1>3, <2>1, Holds, Recovered
<1>4. CASE event = "output" /\ Goes("deliver", Append(buffer, Got(event)))
  <2>1. worked' = worked \/ worked' = worked \cup {attempt}
    BY Worked DEF PreludeEvent
  <2>2. heard' = heard \/ heard' = heard \cup {attempt}
    BY DEF PreludeEvent
  <2> QED BY <1>1, <1>4, <2>1, <2>2, Holds, Gone
<1> QED BY <1>2, <1>3, <1>4 DEF PreludeEvent

LEMMA PreludeBreaksInv ==
  ASSUME IInv, NEW began \in BOOLEAN, PreludeBreaks(began)
  PROVE  IInv'
  BY Worked, Empty, Gone DEF PreludeBreaks, Ends

LEMMA Kept ==
  ASSUME IInv
  PROVE  buffer \in Seq(Received) /\ \A i \in DOMAIN buffer : buffer[i].attempt = attempt
  BY DEF IInv, TypeOK, BufferOfAttempt

LEMMA PreludeEndsInv == IInv /\ PreludeEnds => IInv'
  BY Kept, Gone DEF PreludeEnds

LEMMA TimesOutInv ==
  ASSUME IInv, NEW began \in BOOLEAN, TimesOut(began)
  PROVE  IInv'
  BY Worked, Empty, Gone DEF TimesOut, Ends

LEMMA BudgetEndsInv == IInv /\ BudgetEnds => IInv'
<1> SUFFICES ASSUME IInv, BudgetEnds PROVE IInv'
  OBVIOUS
<1>1. UNCHANGED <<request, phase, tries, answer, buffer, client, worked, heard>>
      /\ late' \in BOOLEAN /\ phase \in Trying
  BY DEF BudgetEnds
<1>2. Chained' = Chained
  BY <1>1 DEF Chained, request
<1>3. Ways' /\ BufferOfAttempt'
  BY <1>1, <1>2 DEF IInv, Ways, BufferOfAttempt, tries
<1>4. answer' \in Kinds \cup {"none"} /\ buffer' \in Seq(Received)
  BY <1>1 DEF IInv, TypeOK
<1> QED BY <1>1, <1>3, <1>4, Moved

LEMMA InspectEventInv ==
  ASSUME IInv, NEW event \in Events, InspectEvent(event)
  PROVE  IInv'
<1>1. UNCHANGED <<request, client>> /\ phase = "inspect" /\ phase \in Trying
  BY DEF InspectEvent, Trying
<1>2. worked' = worked \/ worked' = worked \cup {attempt}
  BY Worked DEF InspectEvent
<1>3. heard' = heard \/ heard' = heard \cup {attempt}
  BY DEF InspectEvent
<1>4. Chained
  BY <1>1 DEF IInv, Ways
<1>5. CASE answer = "sse" /\ event = "refusal" /\ FailsOver("deliver", Append(buffer, Got(event)))
  <2>1. heard' = heard
    BY <1>5 DEF InspectEvent
  <2> QED BY <1>1, <1>2, <1>4, <1>5, <2>1, Holds, FailedOver
<1>6. CASE Goes("deliver", Append(buffer, Got(event)))
  BY <1>1, <1>2, <1>3, <1>6, Holds, Gone
<1>7. CASE Goes("inspect", Append(buffer, Got(event))) /\ ~(answer = "sse" /\ event = "output")
  <2>1. heard' = heard
    BY <1>7 DEF InspectEvent
  <2>2. Chained' = Chained
    BY <1>1 DEF Chained, request
  <2>3. Ways'
    BY <1>4, <1>7, <2>2 DEF Ways, Goes
  <2>4. BufferOfAttempt' /\ buffer' \in Seq(Received)
    BY <1>7, Holds DEF Goes, BufferOfAttempt, tries
  <2>5. late' \in BOOLEAN /\ answer' \in Kinds \cup {"none"}
    BY <1>7 DEF IInv, TypeOK, Goes
  <2>6. phase' = "inspect" /\ UNCHANGED tries
    BY <1>7 DEF Goes
  <2> QED BY <1>1, <1>2, <1>4, <2>1, <2>3, <2>4, <2>5, <2>6, Moved DEF Trying
<1> QED BY <1>5, <1>6, <1>7 DEF InspectEvent

LEMMA InspectEndsInv == IInv /\ InspectEnds => IInv'
<1> SUFFICES ASSUME IInv, InspectEnds PROVE IInv'
  OBVIOUS
<1>1. UNCHANGED <<request, client, worked, heard>> /\ phase = "inspect" /\ phase \in Trying
  BY DEF InspectEnds, Trying
<1>2. CASE FailsOver("deliver", buffer)
  <2>1. Chained
    BY <1>1 DEF IInv, Ways
  <2> QED BY <1>1, <1>2, <2>1, Kept, FailedOver
<1>3. CASE Goes("deliver", buffer)
  BY <1>1, <1>3, Kept, Gone
<1> QED BY <1>2, <1>3 DEF InspectEnds

LEMMA InspectBreaksInv ==
  ASSUME IInv, NEW began \in BOOLEAN, InspectBreaks(began)
  PROVE  IInv'
<1>1. UNCHANGED <<request, client, heard>> /\ phase = "inspect" /\ phase \in Trying
  BY DEF InspectBreaks, Trying
<1>2. worked' = worked \/ worked' = worked \cup {attempt}
  BY Worked DEF InspectBreaks
<1>3. Chained
  BY <1>1 DEF IInv, Ways
<1>4. FailsOver("breaking", buffer)
  BY DEF InspectBreaks
<1> QED BY <1>1, <1>2, <1>3, <1>4, Kept, FailedOver

LEMMA InspectFullInv == IInv /\ InspectFull => IInv'
  BY Kept, Gone DEF InspectFull

LEMMA PassedOn ==
  ASSUME IInv, phase \in {"deliver", "breaking"}, UNCHANGED <<request, phase, tries, late, answer>>,
         NEW received \in Received, received.attempt = attempt,
         client' = Append(client, received), buffer' \in Seq(Received), BufferOfAttempt',
         worked' = worked \/ worked' = worked \cup {attempt},
         heard' = heard \/ heard' = heard \cup {attempt}
  PROVE  IInv'
<1>1. phase' \notin Trying
  BY DEF Trying
<1>2. client \in Seq(Received) /\ client' \in Seq(Received)
  BY DEF IInv, TypeOK
<1>3. OneAnswer'
  <2>1. \A i \in DOMAIN client : client[i].attempt = attempt
    BY DEF IInv, OneAnswer
  <2> QED BY <1>2, <2>1 DEF OneAnswer, tries
<1>4. TypeOK'
  BY <1>2 DEF IInv, TypeOK, request, tries
<1>5. Undecided' /\ Ways' /\ Unworked'
  BY <1>1 DEF Undecided, Ways, Unworked, Trying
<1>6. NeverGeneratedTwice' /\ OutputCommits'
  BY DEF IInv, NeverGeneratedTwice, OutputCommits, Chained, request, tries
<1> QED BY <1>3, <1>4, <1>5, <1>6 DEF IInv

LEMMA PassInv == IInv /\ Pass => IInv'
<1> SUFFICES ASSUME IInv, Pass PROVE IInv'
  OBVIOUS
<1>1. /\ phase \in {"deliver", "breaking"} /\ client' = Append(client, Head(buffer))
      /\ UNCHANGED <<request, phase, tries, late, answer, worked, heard>>
      /\ buffer' = Tail(buffer) /\ buffer # <<>>
  BY DEF Pass, Goes
<1>2. buffer \in Seq(Received)
  BY DEF IInv, TypeOK
<1>3. Head(buffer) \in Received /\ Head(buffer).attempt = attempt
  BY <1>1, <1>2 DEF IInv, BufferOfAttempt
<1>4. buffer' \in Seq(Received)
  BY <1>1, <1>2
<1>5. BufferOfAttempt'
  <2>1. \A i \in DOMAIN Tail(buffer) : i + 1 \in DOMAIN buffer /\ Tail(buffer)[i] = buffer[i + 1]
    BY <1>1, <1>2
  <2> QED BY <1>1, <2>1 DEF IInv, BufferOfAttempt, tries
<1> QED BY <1>1, <1>3, <1>4, <1>5, PassedOn

LEMMA PassEventInv ==
  ASSUME IInv, NEW event \in Events, PassEvent(event)
  PROVE  IInv'
<1>1. /\ phase \in {"deliver", "breaking"} /\ client' = Append(client, Got(event))
      /\ UNCHANGED <<request, phase, tries, late, answer, buffer>>
  BY DEF PassEvent
<1>2. Got(event) \in Received /\ Got(event).attempt = attempt
  BY DEF IInv, TypeOK, Got, Received
<1>3. worked' = worked \/ worked' = worked \cup {attempt}
  BY Worked DEF PassEvent
<1>4. heard' = heard \/ heard' = heard \cup {attempt}
  BY DEF PassEvent
<1>5. buffer' \in Seq(Received) /\ BufferOfAttempt'
  BY <1>1 DEF IInv, TypeOK, BufferOfAttempt, tries
<1> QED BY <1>1, <1>2, <1>3, <1>4, <1>5, PassedOn

LEMMA PassEndInv == IInv /\ PassEnd => IInv'
  BY Empty, Gone DEF PassEnd, Ends

LEMMA ClientLeavesInv == IInv /\ ClientLeaves => IInv'
  BY Empty, Gone DEF ClientLeaves, Ends

------------------------------------------------------------------------------

LEMMA StepInv == IInv /\ [Next]_vars => IInv'
<1> SUFFICES ASSUME IInv, [Next]_vars PROVE IInv'
  OBVIOUS
<1>1. CASE NotConnected \/ ErrorBody \/ ErrorBodyBreaks \/ PreludeEnds \/ BudgetEnds
  BY <1>1, NotConnectedInv, ErrorBodyInv, ErrorBodyBreaksInv, PreludeEndsInv, BudgetEndsInv
<1>2. CASE InspectEnds \/ InspectFull \/ Pass \/ PassEnd \/ ClientLeaves
  BY <1>2, InspectEndsInv, InspectFullInv, PassInv, PassEndInv, ClientLeavesInv
<1>3. ASSUME NEW began \in BOOLEAN, PreludeBreaks(began) \/ TimesOut(began) \/ InspectBreaks(began)
      PROVE  IInv'
  BY <1>3, PreludeBreaksInv, TimesOutInv, InspectBreaksInv
<1>4. ASSUME NEW began \in BOOLEAN, NEW timeout \in BOOLEAN, SendBreaks(timeout, began)
      PROVE  IInv'
  BY <1>4, SendBreaksInv
<1>5. ASSUME NEW kind \in Kinds, NEW read \in BOOLEAN, Headers(kind, read)
      PROVE  IInv'
  BY <1>5, HeadersInv
<1>6. ASSUME NEW event \in Events, PreludeEvent(event) \/ InspectEvent(event) \/ PassEvent(event)
      PROVE  IInv'
  BY <1>6, PreludeEventInv, InspectEventInv, PassEventInv
<1>7. CASE UNCHANGED vars
  BY <1>7 DEF vars, IInv, TypeOK, Undecided, BufferOfAttempt, Ways, Unworked, OneAnswer,
     NeverGeneratedTwice, OutputCommits, Chained
<1> QED BY <1>1, <1>2, <1>3, <1>4, <1>5, <1>6, <1>7 DEF Next

LEMMA Invariant == Spec => []IInv
<1>1. Init => IInv
  BY InitInv
<1>2. IInv /\ [Next]_vars => IInv'
  BY StepInv
<1> QED BY <1>1, <1>2, PTL DEF Spec

\* The variables keep their types, whatever the upstream does.
THEOREM TypeCorrect == Spec => []TypeOK
<1>1. IInv => TypeOK
  BY DEF IInv
<1> QED BY <1>1, Invariant, PTL

\* The client never gets events of two attempts (inspect and the prelude hold a stream
\* back until it is decided, NewAttempt drops what was held back).
THEOREM AnswerOfOneAttempt == Spec => []OneAnswer
<1>1. IInv => OneAnswer
  BY DEF IInv
<1> QED BY <1>1, Invariant, PTL

\* Recovery of one candidate repeats only attempts that the upstream refused or never
\* saw: a break under the request or in the prelude ends it.
THEOREM RecoveryIsSafe == Spec => []NeverGeneratedTwice
<1>1. IInv => NeverGeneratedTwice
  BY DEF IInv
<1> QED BY <1>1, Invariant, PTL

\* The first output seen commits the model: no attempt follows it.
THEOREM Commitment == Spec => []OutputCommits
<1>1. IInv => OutputCommits
  BY DEF IInv
<1> QED BY <1>1, Invariant, PTL

------------------------------------------------------------------------------
(* HttpForward implements Exchange.                                         *)

\* Without a chain no other model is tried.
OneModel == ~Chained => cand = 1

MInv == IInv /\ OneModel

LEMMA OneModelInit == Init => OneModel
  BY DEF Init, OneModel

\* What happens to a chain's candidate happens to nothing else.
LEMMA SameModel ==
  ASSUME OneModel, UNCHANGED <<request, cand>>
  PROVE  OneModel'
  BY DEF OneModel, Chained, request

LEMMA NextModel ==
  ASSUME OneModel, UNCHANGED request, Chained
  PROVE  OneModel'
  BY DEF OneModel, Chained, request

\* Goes and Recovers keep the candidate; FailsOver is a chain's.
LEMMA Stays ==
  ASSUME NEW to, NEW kept, Goes(to, kept) \/ Recovers(to, kept)
  PROVE  cand' = cand
  BY DEF Goes, Recovers, tries

LEMMA OneModelStep == MInv /\ [Next]_vars => OneModel'
<1> SUFFICES ASSUME MInv, [Next]_vars PROVE OneModel'
  OBVIOUS
<1>0. OneModel /\ IInv /\ (phase = "inspect" => Chained)
  BY DEF MInv, IInv, Ways
<1>1. UNCHANGED request
  BY DEF Next, vars, request, NotConnected, ErrorBody, ErrorBodyBreaks, PreludeEnds, BudgetEnds,
     InspectEnds, InspectFull, Pass, PassEnd, ClientLeaves, PreludeBreaks, TimesOut,
     InspectBreaks, SendBreaks, Headers, PreludeEvent, InspectEvent, PassEvent
<1>2. Chained \/ cand' = cand
  <2>1. CASE UNCHANGED vars
    BY <2>1 DEF vars
  <2>2. CASE NotConnected
    BY <2>2, Stays DEF NotConnected
  <2>3. CASE ErrorBody \/ ErrorBodyBreaks \/ PreludeEnds \/ InspectFull \/ Pass \/ ClientLeaves
    BY <2>3, Stays DEF ErrorBody, ErrorBodyBreaks, PreludeEnds, InspectFull, Pass, ClientLeaves
  <2>4. CASE PassEnd \/ BudgetEnds
    BY <2>4, Stays DEF PassEnd, BudgetEnds, tries
  <2>5. CASE InspectEnds
    BY <1>0, <2>5 DEF InspectEnds
  <2>6. ASSUME NEW began \in BOOLEAN, PreludeBreaks(began) \/ TimesOut(began) \/ InspectBreaks(began)
        PROVE  Chained \/ cand' = cand
    BY <1>0, <2>6, Stays DEF PreludeBreaks, TimesOut, InspectBreaks
  <2>7. ASSUME NEW began \in BOOLEAN, NEW timeout \in BOOLEAN, SendBreaks(timeout, began)
        PROVE  Chained \/ cand' = cand
    BY <2>7, Stays DEF SendBreaks
  <2>8. ASSUME NEW kind \in Kinds, NEW read \in BOOLEAN, Headers(kind, read)
        PROVE  cand' = cand
    BY <2>8 DEF Headers, tries
  <2>9. ASSUME NEW event \in Events, PreludeEvent(event) \/ InspectEvent(event) \/ PassEvent(event)
        PROVE  Chained \/ cand' = cand
    BY <1>0, <2>9, Stays DEF PreludeEvent, InspectEvent, PassEvent, tries
  <2> QED BY <2>1, <2>2, <2>3, <2>4, <2>5, <2>6, <2>7, <2>8, <2>9 DEF Next
<1> QED BY <1>0, <1>1, <1>2, SameModel, NextModel

LEMMA MInvariant == Spec => []MInv
<1>1. Init => MInv
  BY InitInv, OneModelInit DEF MInv
<1>2. MInv /\ [Next]_vars => MInv'
  BY StepInv, OneModelStep DEF MInv
<1> QED BY <1>1, <1>2, PTL DEF Spec
------------------------------------------------------------------------------
\* What each kind of step is a step of.

Step == [Promise!Next]_(Promise!vars)

\* An attempt that ends undecided, or goes on, or is decided.
LEMMA StageStep ==
  ASSUME MInv, UNCHANGED <<request, client, cand, attempt>>,
         \/ phase \in Trying
         \/ phase \notin Ends /\ phase' \in Ends
         \/ phase' = phase
  PROVE  Step
<1>1. Models' = Models
  BY DEF Models, Chained, request
<1>2. Given' = Given
  BY DEF Given
<1>3. Stage \in {"open", "settled", "over"} /\ Stage' \in {"open", "settled", "over"}
  BY DEF Stage
<1>4. Stage = "open" \/ (Stage # "over" /\ Stage' = "over") \/ Stage' = Stage
  BY DEF Stage, Trying, Ends
<1>5. CASE Stage' = Stage
  BY <1>1, <1>2, <1>5 DEF Step, Promise!vars
<1>6. CASE Stage # "over" /\ Stage' = "over"
  BY <1>1, <1>2, <1>6 DEF Step, Promise!Next, Promise!End
<1>7. CASE Stage = "open" /\ Stage' = "settled"
  BY <1>1, <1>2, <1>7 DEF Step, Promise!Next, Promise!Settle
<1> QED BY <1>3, <1>4, <1>5, <1>6, <1>7

\* A chain's next model, or another attempt at the only one.
LEMMA AttemptStep ==
  ASSUME MInv, phase \in Trying, NewAttempt, UNCHANGED <<request, client>>,
         \/ Chained /\ cand < plan /\ cand' = cand + 1
         \/ ~Chained /\ cand' = cand
  PROVE  Step
<1>1. Models' = Models
  BY DEF Models, Chained, request
<1>2. Given' = Given
  BY DEF Given
<1>3. Stage = "open" /\ Stage' = "open"
  BY DEF Stage, NewAttempt, Trying
<1>4. plan \in Nat /\ cand \in Nat
  BY ConstantsOK DEF MInv, IInv, TypeOK
<1>5. cand' = (IF Models = 1 THEN cand ELSE cand + 1) /\ cand' <= Models
  <2>1. CASE Chained
    BY <1>4, <2>1 DEF Models, Chained
  <2>2. CASE ~Chained
    BY <1>4, <2>2 DEF Models, MInv, OneModel
  <2> QED BY <2>1, <2>2
<1>6. attempt' = attempt + 1
  BY DEF NewAttempt
<1> QED BY <1>1, <1>2, <1>3, <1>5, <1>6 DEF Step, Promise!Next, Promise!TryAgain

\* An event for the client, of the attempt settled on.
LEMMA GiveStep ==
  ASSUME MInv, phase \in {"deliver", "breaking"}, UNCHANGED <<request, phase, cand, attempt>>,
         NEW received \in Received, received.attempt = attempt,
         client' = Append(client, received)
  PROVE  Step
<1>1. Models' = Models
  BY DEF Models, Chained, request
<1>2. Stage = "settled" /\ Stage' = "settled"
  BY DEF Stage, Trying, Ends
<1>3. Given' = Append(Given, attempt)
  <2>1. client \in Seq(Received)
    BY DEF MInv, IInv, TypeOK
  <2>2. Given = [i \in 1..Len(client) |-> client[i].attempt]
    BY <2>1 DEF Given
  <2>3. Len(Given) = Len(client)
    BY <2>1, <2>2
  <2>4. Append(Given, attempt) = [i \in 1..(Len(client) + 1) |->
                                    IF i = Len(client) + 1 THEN attempt ELSE Given[i]]
    BY <2>1, <2>2, <2>3
  <2>5. DOMAIN client' = 1..(Len(client) + 1)
        /\ \A i \in 1..(Len(client) + 1) :
             client'[i].attempt = IF i = Len(client) + 1 THEN attempt ELSE client[i].attempt
    BY <2>1
  <2>6. Given' = [i \in 1..(Len(client) + 1) |-> client'[i].attempt]
    BY <2>5 DEF Given
  <2> QED BY <2>2, <2>4, <2>5, <2>6
<1> QED BY <1>1, <1>2, <1>3 DEF Step, Promise!Next, Promise!Give

\* Recovery, a chain's failure and a plain move are such steps.
LEMMA GoesStep ==
  ASSUME MInv, UNCHANGED <<request, client>>, NEW to, NEW kept, Goes(to, kept),
         phase \in Trying \/ (phase \notin Ends /\ to \in Ends) \/ to = phase
  PROVE  Step
  BY StageStep DEF Goes, tries

LEMMA RecoversStep ==
  ASSUME MInv, UNCHANGED <<request, client>>, NEW to, NEW kept, Recovers(to, kept),
         phase \in Trying
  PROVE  Step
<1>1. CASE NewAttempt /\ (Timed \/ Counted) /\ cand' = cand
  <2>1. ~Chained
    BY <1>1 DEF Timed, Counted
  <2> QED BY <1>1, <2>1, AttemptStep
<1>2. CASE UNCHANGED tries
  BY <1>2, StageStep DEF tries
<1> QED BY <1>1, <1>2 DEF Recovers

LEMMA FailsOverStep ==
  ASSUME MInv, UNCHANGED <<request, client>>, NEW to, NEW kept, FailsOver(to, kept),
         phase \in Trying, Chained
  PROVE  Step
<1>1. CASE cand < plan
  BY <1>1, AttemptStep DEF FailsOver
<1>2. CASE ~(cand < plan)
  BY <1>2, GoesStep DEF FailsOver
<1> QED BY <1>1, <1>2

LEMMA PassStep == MInv /\ Pass => Step
<1> SUFFICES ASSUME MInv, Pass PROVE Step
  OBVIOUS
<1>1. Head(buffer) \in Received /\ Head(buffer).attempt = attempt
  BY DEF Pass, MInv, IInv, TypeOK, BufferOfAttempt
<1> QED BY <1>1, GiveStep DEF Pass, Goes, tries

LEMMA PassEventStep ==
  ASSUME MInv, NEW event \in Events, PassEvent(event)
  PROVE  Step
<1>1. Got(event) \in Received /\ Got(event).attempt = attempt
  BY DEF MInv, IInv, TypeOK, Got, Received
<1> QED BY <1>1, GiveStep DEF PassEvent, tries

\* Every step is one of Exchange or changes nothing it speaks of.
LEMMA StepRefines == MInv /\ [Next]_vars => Step
<1> SUFFICES ASSUME MInv, [Next]_vars PROVE Step
  OBVIOUS
<1>0. phase = "inspect" => Chained
  BY DEF MInv, IInv, Ways
<1>1. CASE UNCHANGED vars
  BY <1>1, StageStep DEF vars, request
<1>2. CASE NotConnected
  BY <1>2, GoesStep, RecoversStep, FailsOverStep DEF NotConnected, Trying
<1>3. CASE ErrorBody \/ ErrorBodyBreaks \/ PreludeEnds \/ InspectFull
  BY <1>3, GoesStep, RecoversStep DEF ErrorBody, ErrorBodyBreaks, PreludeEnds, InspectFull, Trying
<1>4. CASE BudgetEnds
  BY <1>4, StageStep DEF BudgetEnds, tries
<1>5. CASE InspectEnds
  BY <1>0, <1>5, GoesStep, FailsOverStep DEF InspectEnds, Trying
<1>6. CASE PassEnd \/ ClientLeaves
  BY <1>6, GoesStep DEF PassEnd, ClientLeaves, Ends
<1>7. ASSUME NEW began \in BOOLEAN, PreludeBreaks(began) \/ TimesOut(began) \/ InspectBreaks(began)
      PROVE  Step
  BY <1>0, <1>7, GoesStep, FailsOverStep DEF PreludeBreaks, TimesOut, InspectBreaks, Trying
<1>8. ASSUME NEW began \in BOOLEAN, NEW timeout \in BOOLEAN, SendBreaks(timeout, began)
      PROVE  Step
  BY <1>8, GoesStep, FailsOverStep DEF SendBreaks, Trying
<1>9. ASSUME NEW kind \in Kinds, NEW read \in BOOLEAN, Headers(kind, read)
      PROVE  Step
  BY <1>9, StageStep DEF Headers, tries, Trying
<1>10. ASSUME NEW event \in Events, PreludeEvent(event)
       PROVE  Step
  BY <1>10, GoesStep, RecoversStep DEF PreludeEvent, Trying
<1>11. ASSUME NEW event \in Events, InspectEvent(event)
       PROVE  Step
  BY <1>0, <1>11, GoesStep, FailsOverStep DEF InspectEvent, Trying
<1> QED BY <1>1, <1>2, <1>3, <1>4, <1>5, <1>6, <1>7, <1>8, <1>9, <1>10, <1>11,
           PassStep, PassEventStep DEF Next

LEMMA InitRefines == Init => Promise!Init
<1> SUFFICES ASSUME Init PROVE Promise!Init
  OBVIOUS
<1>1. Models \in Nat \ {0}
  BY ConstantsOK DEF Init, Models, Chained
<1>2. Stage = "open"
  BY DEF Init, Stage, Trying
<1>3. Given = <<>>
  BY DEF Init, Given
<1> QED BY <1>1, <1>2, <1>3 DEF Init, Promise!Init

\* The client's side of a request: models in their order, each once, or one model tried
\* again; one attempt's answer and no attempt after it. For plans, retry counts and
\* streams of any length.
THEOREM ImplementsExchange == Spec => KeepsPromise
<1>1. Init => Promise!Init
  BY InitRefines
<1>2. MInv /\ [Next]_vars => [Promise!Next]_(Promise!vars)
  BY StepRefines DEF Step
<1> QED BY <1>1, <1>2, MInvariant, PTL DEF Spec, KeepsPromise, Promise!Spec
==============================================================================
