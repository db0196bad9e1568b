----------------------------- MODULE ServiceProofs -----------------------------
(* Theorems about Service, for any configs, callers, access keys and edits.   *)
EXTENDS Service, SequenceTheorems, FiniteSetTheorems, WellFoundedInduction, TLAPS

------------------------------------------------------------------------------
\* The resolver of API keys

Flags == [there : BOOLEAN, young : BOOLEAN, wallYoung : BOOLEAN]
CellsOfKeys == [made : Nat, value : Flags, failed : Nat]
AtCell == [phase : {"waits", "runs"}, source : Command, made : Nat, started : Nat,
           sawFailure : BOOLEAN]
Over == [phase : {"ended"}, how : {"value", "shared", "failed", "left", "busy"},
         sawFailure : BOOLEAN]

CallTypes ==
  /\ clock \in Nat
  /\ \A s \in DOMAIN cells : cells[s] \in CellsOfKeys /\ cells[s].failed < clock
  /\ calls \in [Caller -> {NoCall} \cup AtCell \cup Over]

\* A cell in use is the one the cache has: room is made only with idle cells.
Shared == \A r \in Caller : InCell(r) =>
  /\ calls[r].source \in DOMAIN cells
  /\ cells[calls[r].source].made = calls[r].made

\* A call that has seen no failure began after the last one its cell remembers.
Unfailed == \A r \in Caller : InCell(r) /\ ~calls[r].sawFailure =>
  cells[calls[r].source].failed <= calls[r].started

CredentialsInv ==
  CallTypes /\ Shared /\ Unfailed /\ OneCommandPerSource /\ FailuresAreShared

LEMMA CallKinds ==
  ASSUME CallTypes, NEW r \in Caller
  PROVE  /\ InCell(r) => calls[r] \in AtCell
         /\ calls[r].phase = "ended" => calls[r] \in Over
  BY DEF CallTypes, InCell, AtCell, Over, NoCall

LEMMA CellOfCall ==
  ASSUME CallTypes, Shared, NEW r \in Caller, InCell(r)
  PROVE  /\ calls[r].source \in DOMAIN cells /\ Cell(calls[r]) = cells[calls[r].source]
         /\ Cell(calls[r]) \in CellsOfKeys /\ calls[r] \in AtCell
  BY CallKinds DEF CallTypes, Shared, Cell

\* What one step may do to the calls, whatever becomes of the cells: it changes one.
LEMMA AskStep ==
  ASSUME CredentialsInv, NEW r \in Caller, NEW s \in Command, Ask(r, s)
  PROVE  CredentialsInv'
  <1> DEFINE call(made) == [phase |-> "waits", source |-> s, made |-> made,
                            started |-> clock, sawFailure |-> FALSE]
  <1> USE DEF CredentialsInv
  <1>1. clock \in Nat /\ clock' = clock + 1
    BY DEF Ask, CallTypes
  <1>2. NewCell \in CellsOfKeys /\ NewCell.made = clock /\ NewCell.failed = 0
    BY <1>1 DEF NewCell, NoValue, CellsOfKeys, Flags
  <1>3. \A made \in Nat : call(made) \in AtCell
    BY <1>1 DEF AtCell
  <1>4. CASE /\ s \in DOMAIN cells /\ calls' = [calls EXCEPT ![r] = call(cells[s].made)]
             /\ UNCHANGED cells
    <2>1. cells[s].made \in Nat /\ cells[s].failed <= clock
      BY <1>1, <1>4 DEF CallTypes, CellsOfKeys
    <2>2. CallTypes'
      BY <1>1, <1>3, <1>4, <2>1 DEF CallTypes, CellsOfKeys
    <2>3. Shared' /\ Unfailed'
      BY <1>4, <2>1 DEF Shared, Unfailed, InCell, CallTypes
    <2>4. OneCommandPerSource' /\ FailuresAreShared'
      BY <1>4 DEF OneCommandPerSource, FailuresAreShared, CallTypes
    <2> QED
      BY <2>2, <2>3, <2>4
  <1>5. ASSUME /\ s \notin DOMAIN cells /\ calls' = [calls EXCEPT ![r] = call(clock)]
               /\ \A i \in Caller : InCell(i) => calls[i].source \in DOMAIN cells'
               /\ \A x \in DOMAIN cells' : cells'[x] = IF x = s THEN NewCell ELSE cells[x]
               /\ \A x \in DOMAIN cells' : x = s \/ x \in DOMAIN cells
               /\ s \in DOMAIN cells'
        PROVE  CredentialsInv'
    <2>1. CallTypes'
      BY <1>1, <1>2, <1>3, <1>5 DEF CallTypes, CellsOfKeys
    <2>2. \A i \in Caller \ {r} : calls'[i] = calls[i]
      BY <1>5 DEF CallTypes
    <2>3. calls'[r] = call(clock)
      BY <1>5 DEF CallTypes
    <2>4. \A i \in Caller : InCell(i) => calls[i].source # s
      BY <1>5 DEF Shared
    <2>5. Shared'
      BY <1>2, <1>5, <2>2, <2>3, <2>4 DEF Shared, InCell
    <2>6. Unfailed'
      BY <1>1, <1>2, <1>5, <2>2, <2>3, <2>4 DEF Unfailed, InCell
    <2>7. OneCommandPerSource' /\ FailuresAreShared'
      BY <2>2, <2>3 DEF OneCommandPerSource, FailuresAreShared
    <2> QED
      BY <2>1, <2>5, <2>6, <2>7
  <1>6. CASE /\ s \notin DOMAIN cells
             /\ cells' = [x \in DOMAIN cells \cup {s} |-> IF x = s THEN NewCell ELSE cells[x]]
             /\ calls' = [calls EXCEPT ![r] = call(clock)]
    BY <1>5, <1>6 DEF Shared
  <1>7. CASE /\ s \notin DOMAIN cells
             /\ \E old \in DOMAIN cells :
                  /\ Idle(old)
                  /\ cells' = [x \in (DOMAIN cells \ {old}) \cup {s} |->
                                 IF x = s THEN NewCell ELSE cells[x]]
             /\ calls' = [calls EXCEPT ![r] = call(clock)]
    <2>1. PICK old \in DOMAIN cells :
            /\ Idle(old)
            /\ cells' = [x \in (DOMAIN cells \ {old}) \cup {s} |->
                           IF x = s THEN NewCell ELSE cells[x]]
      BY <1>7
    <2>2. \A i \in Caller : InCell(i) => calls[i].source \in DOMAIN cells'
      BY <2>1 DEF Shared, Idle
    <2> QED
      BY <1>5, <1>7, <2>1, <2>2
  <1>8. CASE /\ calls' = [calls EXCEPT ![r] =
                            [phase |-> "ended", how |-> "busy", sawFailure |-> FALSE]]
             /\ UNCHANGED cells
    <2>1. CallTypes'
      BY <1>1, <1>8 DEF CallTypes, Over, CellsOfKeys
    <2>2. Shared' /\ Unfailed'
      BY <1>8 DEF Shared, Unfailed, InCell, CallTypes
    <2>3. OneCommandPerSource' /\ FailuresAreShared'
      BY <1>8 DEF OneCommandPerSource, FailuresAreShared, CallTypes
    <2> QED
      BY <2>1, <2>2, <2>3
  <1> QED
    BY <1>4, <1>6, <1>7, <1>8 DEF Ask

\* A call is over, and its cell at most forgets a failure.
LEMMA CallEnds ==
  ASSUME CredentialsInv, NEW r \in Caller, NEW k \in {NoCall} \cup Over,
         k.phase = "ended" /\ k.how = "shared" => k.sawFailure,
         calls' = [calls EXCEPT ![r] = k], UNCHANGED clock,
         DOMAIN cells' = DOMAIN cells,
         \A s \in DOMAIN cells : /\ cells'[s] \in CellsOfKeys /\ cells'[s].made = cells[s].made
                                 /\ cells'[s].failed \in {0, cells[s].failed}
  PROVE  CredentialsInv'
  <1> USE DEF CredentialsInv
  <1>1. k.phase \in {"none", "ended"}
    BY DEF NoCall, Over
  <1>2. clock \in Nat /\ \A s \in DOMAIN cells : cells[s].failed \in Nat /\ cells[s].failed < clock
    BY DEF CallTypes, CellsOfKeys
  <1>3. calls'[r] = k /\ \A i \in Caller \ {r} : calls'[i] = calls[i]
    BY DEF CallTypes
  <1>4. \A s \in DOMAIN cells : cells'[s].failed <= cells[s].failed /\ cells'[s].failed < clock
    BY <1>2
  <1>5. CallTypes'
    BY <1>2, <1>4 DEF CallTypes
  <1>6. Shared'
    BY <1>1, <1>3 DEF Shared, InCell
  <1>7. ASSUME NEW i \in Caller, InCell(i)', ~calls'[i].sawFailure
        PROVE  cells'[calls'[i].source].failed <= calls'[i].started
    <2>1. i # r /\ InCell(i) /\ calls'[i] = calls[i]
      BY <1>1, <1>3, <1>7 DEF InCell
    <2>2. calls[i].source \in DOMAIN cells /\ calls[i].started \in Nat
      BY <2>1, CallKinds DEF Shared, AtCell
    <2>3. cells[calls[i].source].failed <= calls[i].started
      BY <1>7, <2>1 DEF Unfailed
    <2> QED
      BY <1>2, <1>4, <2>1, <2>2, <2>3
  <1>8. Unfailed'
    BY <1>7 DEF Unfailed
  <1>9. OneCommandPerSource' /\ FailuresAreShared'
    BY <1>1, <1>3 DEF OneCommandPerSource, FailuresAreShared
  <1> QED
    BY <1>5, <1>6, <1>8, <1>9

LEMMA EndedKinds ==
  ASSUME NEW k \in AtCell, NEW how \in {"value", "shared", "failed", "left"}
  PROVE  Ended(k, how) \in Over /\ Ended(k, how).how = how
         /\ Ended(k, how).sawFailure = k.sawFailure
  BY DEF Ended, Over, AtCell

LEMMA EnterStep ==
  ASSUME CredentialsInv, NEW r \in Caller, Enter(r)
  PROVE  CredentialsInv'
  <1> DEFINE k == calls[r]
  <1>1. InCell(r) /\ k \in AtCell /\ k.source \in DOMAIN cells /\ Cell(k) = cells[k.source]
    BY CellOfCall DEF Enter, InCell, CredentialsInv
  <1>2. \A s \in DOMAIN cells : cells[s] \in CellsOfKeys
    BY DEF CredentialsInv, CallTypes
  <1>3. CASE calls' = [calls EXCEPT ![r] = Ended(k, "value")]
    BY <1>1, <1>2, <1>3, EndedKinds, CallEnds, ZenonT(40) DEF Enter
  <1>4. CASE SharesFailure(k) /\ calls' = [calls EXCEPT ![r] = Ended(k, "shared")]
    <2>1. k.sawFailure
      <3> SUFFICES ASSUME ~k.sawFailure PROVE FALSE
        OBVIOUS
      <3>1. cells[k.source].failed <= k.started
        BY <1>1 DEF CredentialsInv, Unfailed
      <3>2. cells[k.source].failed > k.started
        BY <1>1, <1>4 DEF SharesFailure
      <3> QED
        BY <1>1, <1>2, <3>1, <3>2 DEF CellsOfKeys, AtCell
    <2> QED
      BY <1>1, <1>2, <1>4, <2>1, EndedKinds, CallEnds DEF Enter
  <1>5. CASE calls' = [calls EXCEPT ![r] = [k EXCEPT !.phase = "runs"]]
    <2> DEFINE l == [k EXCEPT !.phase = "runs"]
    <2>1. /\ l \in AtCell /\ l.phase = "runs" /\ l.source = k.source /\ l.made = k.made
          /\ l.started = k.started /\ l.sawFailure = k.sawFailure
      BY <1>1 DEF AtCell
    <2>2. calls' \in [Caller -> {NoCall} \cup AtCell \cup Over]
          /\ calls'[r] = l /\ \A i \in Caller \ {r} : calls'[i] = calls[i]
      BY <1>5, <2>1 DEF CredentialsInv, CallTypes
    <2> HIDE DEF l
    <2>3. UNCHANGED <<cells, clock>>
      BY DEF Enter
    <2>4. CallTypes' /\ Shared' /\ Unfailed'
      BY <1>1, <2>1, <2>2, <2>3 DEF CredentialsInv, CallTypes, Shared, Unfailed, InCell
    <2>5. FailuresAreShared'
      BY <2>1, <2>2 DEF CredentialsInv, FailuresAreShared
    <2>6. ASSUME NEW x \in Caller, x # r, calls[x].phase = "runs"
          PROVE  calls[x].source # k.source
      <3>1. calls[x].source # k.source \/ calls[x].made # k.made
        BY <2>6 DEF Enter, Free
      <3>2. cells[calls[x].source].made = calls[x].made /\ cells[k.source].made = k.made
        BY <1>1, <2>6 DEF CredentialsInv, Shared, InCell
      <3> QED
        BY <3>1, <3>2
    <2>7. OneCommandPerSource'
      BY <2>1, <2>2, <2>6 DEF CredentialsInv, OneCommandPerSource
    <2> QED
      BY <2>4, <2>5, <2>7 DEF CredentialsInv
  <1> QED
    BY <1>3, <1>4, <1>5 DEF Enter

LEMMA SucceedsStep ==
  ASSUME CredentialsInv, NEW r \in Caller, Succeeds(r)
  PROVE  CredentialsInv'
  <1> DEFINE k == calls[r]
             cell == [Cell(k) EXCEPT !.value = [there |-> TRUE, young |-> TRUE,
                                                wallYoung |-> TRUE], !.failed = 0]
  <1>1. /\ k \in AtCell /\ k.source \in DOMAIN cells /\ Cell(k) = cells[k.source]
        /\ cells[k.source].made = k.made /\ Cell(k) \in CellsOfKeys
    BY CellOfCall DEF Succeeds, InCell, CredentialsInv, Shared
  <1>2. cell \in CellsOfKeys /\ cell.made = k.made /\ cell.failed = 0
    BY <1>1 DEF CellsOfKeys, Flags
  <1>3. cells' = [cells EXCEPT ![k.source] = cell]
    BY <1>1 DEF Succeeds, Keep
  <1> HIDE DEF cell
  <1>4. /\ DOMAIN cells' = DOMAIN cells
        /\ \A s \in DOMAIN cells : /\ cells'[s] \in CellsOfKeys /\ cells'[s].made = cells[s].made
                                   /\ cells'[s].failed \in {0, cells[s].failed}
    BY <1>1, <1>2, <1>3 DEF CredentialsInv, CallTypes
  <1>5. calls' = [calls EXCEPT ![r] = Ended(k, "value")] /\ UNCHANGED clock
    BY DEF Succeeds
  <1> QED
    BY <1>1, <1>4, <1>5, EndedKinds, CallEnds

LEMMA RunFailsStep ==
  ASSUME CredentialsInv, NEW r \in Caller, RunFails(r)
  PROVE  CredentialsInv'
  <1> DEFINE k == calls[r]
             cell == [Cell(k) EXCEPT !.failed = clock]
  <1>1. /\ k \in AtCell /\ k.source \in DOMAIN cells /\ Cell(k) = cells[k.source]
        /\ cells[k.source].made = k.made /\ Cell(k) \in CellsOfKeys
    BY CellOfCall DEF RunFails, InCell, CredentialsInv, Shared
  <1>2. clock \in Nat /\ clock' = clock + 1
    BY DEF RunFails, CredentialsInv, CallTypes
  <1>3. cell \in CellsOfKeys /\ cell.made = k.made /\ cell.failed = clock
    BY <1>1, <1>2 DEF CellsOfKeys
  <1>4. cells' = [cells EXCEPT ![k.source] = cell]
    BY <1>1 DEF RunFails, Keep
  <1> HIDE DEF cell
  <1>5. /\ DOMAIN cells' = DOMAIN cells
        /\ \A s \in DOMAIN cells : cells'[s] = IF s = k.source THEN cell ELSE cells[s]
    BY <1>4
  <1> DEFINE over == Ended([k EXCEPT !.sawFailure = TRUE], "failed")
  <1>6. over \in Over /\ over.how = "failed" /\ over.phase = "ended"
    BY <1>1 DEF Ended, Over, AtCell
  <1>7. /\ calls'[r] = over
        /\ \A x \in Caller \ {r} :
             calls'[x] = IF InCell(x) /\ calls[x].source = k.source
                         THEN [calls[x] EXCEPT !.sawFailure = TRUE] ELSE calls[x]
        /\ DOMAIN calls' = Caller /\ calls' = [x \in Caller |-> calls'[x]]
    BY DEF RunFails
  <1> HIDE DEF over
  <1>8. ASSUME NEW x \in Caller \ {r}
        PROVE  /\ InCell(x)' <=> InCell(x) /\ calls'[x].phase = calls[x].phase
               /\ InCell(x) =>
                    /\ calls'[x] \in AtCell /\ calls'[x].source = calls[x].source
                    /\ calls'[x].made = calls[x].made /\ calls'[x].started = calls[x].started
                    /\ ~calls'[x].sawFailure => ~calls[x].sawFailure
                                                /\ calls[x].source # k.source
               /\ ~InCell(x) => calls'[x] = calls[x]
    <2>1. InCell(x) => calls[x] \in AtCell
      BY CallKinds DEF CredentialsInv
    <2> QED
      BY <1>7, <2>1 DEF AtCell, InCell
  <1>9. CallTypes'
    <2>1. \A x \in Caller : calls'[x] \in {NoCall} \cup AtCell \cup Over
      BY <1>6, <1>7, <1>8 DEF CredentialsInv, CallTypes
    <2>2. \A s \in DOMAIN cells' : cells'[s] \in CellsOfKeys /\ cells'[s].failed < clock'
      BY <1>2, <1>3, <1>5 DEF CredentialsInv, CallTypes, CellsOfKeys
    <2> QED
      BY <1>2, <1>7, <2>1, <2>2 DEF CallTypes
  <1>10. ~InCell(r)'
    BY <1>6, <1>7 DEF InCell
  <1>11. Shared'
    BY <1>1, <1>3, <1>5, <1>8, <1>10 DEF CredentialsInv, Shared
  <1>12. Unfailed'
    <2> SUFFICES ASSUME NEW x \in Caller, InCell(x)', ~calls'[x].sawFailure
                 PROVE  cells'[calls'[x].source].failed <= calls'[x].started
      BY DEF Unfailed
    <2>1. x \in Caller \ {r} /\ InCell(x) /\ ~calls[x].sawFailure
      BY <1>8, <1>10
    <2>2. /\ calls'[x].source = calls[x].source /\ calls'[x].started = calls[x].started
          /\ calls[x].source # k.source /\ calls[x].source \in DOMAIN cells
      BY <1>8, <2>1 DEF CredentialsInv, Shared
    <2> QED
      BY <1>5, <2>1, <2>2 DEF CredentialsInv, Unfailed
  <1>13. OneCommandPerSource'
    BY <1>6, <1>7, <1>8 DEF CredentialsInv, OneCommandPerSource, InCell
  <1>14. FailuresAreShared'
    BY <1>6, <1>7, <1>8 DEF CredentialsInv, FailuresAreShared, InCell
  <1> QED
    BY <1>9, <1>11, <1>12, <1>13, <1>14 DEF CredentialsInv

LEMMA LeavesStep ==
  ASSUME CredentialsInv, NEW r \in Caller, Leaves(r)
  PROVE  CredentialsInv'
  <1>1. calls[r] \in AtCell
    BY CallKinds DEF Leaves, CredentialsInv
  <1>2. \A s \in DOMAIN cells : cells[s] \in CellsOfKeys
    BY DEF CredentialsInv, CallTypes
  <1> QED
    BY <1>1, <1>2, EndedKinds, CallEnds DEF Leaves

LEMMA AgesStep ==
  ASSUME CredentialsInv, NEW s, Ages(s)
  PROVE  CredentialsInv'
  <1>1. PICK awake \in BOOLEAN :
          cells' = [cells EXCEPT ![s].value.wallYoung = FALSE, ![s].value.young = @ /\ ~awake]
    BY DEF Ages
  <1>2. s \in DOMAIN cells /\ cells[s] \in CellsOfKeys
    BY DEF Ages, CredentialsInv, CallTypes
  <1> DEFINE aged == [cells[s] EXCEPT !.value.wallYoung = FALSE, !.value.young = @ /\ ~awake]
  <1>3. aged \in CellsOfKeys /\ aged.made = cells[s].made /\ aged.failed = cells[s].failed
    BY <1>2 DEF CellsOfKeys, Flags
  <1>4. cells' = [cells EXCEPT ![s] = aged]
    BY <1>1, <1>2
  <1> HIDE DEF aged
  <1>5. /\ DOMAIN cells' = DOMAIN cells /\ UNCHANGED <<calls, clock>>
        /\ \A x \in DOMAIN cells : /\ cells'[x] \in CellsOfKeys
                                   /\ cells'[x].made = cells[x].made
                                   /\ cells'[x].failed = cells[x].failed
    BY <1>2, <1>3, <1>4 DEF CredentialsInv, CallTypes, Ages
  <1>6. CallTypes'
    BY <1>5 DEF CredentialsInv, CallTypes
  <1>7. Shared' /\ Unfailed'
    BY <1>5 DEF CredentialsInv, Shared, Unfailed, InCell
  <1>8. OneCommandPerSource' /\ FailuresAreShared'
    BY <1>5 DEF CredentialsInv, OneCommandPerSource, FailuresAreShared
  <1> QED
    BY <1>6, <1>7, <1>8 DEF CredentialsInv

------------------------------------------------------------------------------
\* The files and the requests

\* Who is about to replace the config still has what is there, unless somebody has
\* written the file since; and whoever is past the lock holds it.
Originals == \A p \in Process : process[p].at = "replace" =>
  /\ process[p].compared \in Nat /\ process[p].compared <= file.stamp
  /\ process[p].compared = file.stamp =>
       file.config = process[p].config /\ file.plain = process[p].plain

Behind == {"read", "compare", "replace"}
Holds  == \A p \in Process : process[p].at \in Behind => lock = p

FilesInv ==
  /\ file.stamp \in Nat
  /\ DOMAIN process = Process /\ \A p \in Process : "at" \in DOMAIN process[p]
  /\ Originals /\ Holds

\* Keys that open, and those about to, were on disk in this second, or the time that
\* counts for them is late.
AccessInv ==
  /\ keysFile \subseteq recent /\ {"young", "keys", "late"} \subseteq DOMAIN access
  /\ access.late \in BOOLEAN /\ (access.young => access.late \/ access.keys \subseteq recent)
  /\ process["watcher"].at = "stamp" =>
       /\ {"keys", "late"} \subseteq DOMAIN process["watcher"]
       /\ process["watcher"].late \in BOOLEAN
       /\ process["watcher"].late \/ process["watcher"].keys \subseteq recent

RequestsInv ==
  DOMAIN requests = Caller /\ \A r \in Caller : "phase" \in DOMAIN requests[r]

IInv == CredentialsInv /\ FilesInv /\ AccessInv /\ RequestsInv

LEMMA InitIInv == Init => IInv
  <1> SUFFICES ASSUME Init PROVE IInv
    OBVIOUS
  <1>1. CredentialsInv
    BY DEF Init, CredentialsInit, CredentialsInv, CallTypes, Shared, Unfailed,
           OneCommandPerSource, FailuresAreShared, InCell, NoCall
  <1>2. FilesInv
    BY DEF Init, FilesInv, Originals, Holds, Behind, AtRest
  <1>3. AccessInv /\ RequestsInv
    BY DEF Init, AccessInv, RequestsInv, NotCome, AtRest, Process
  <1> QED
    BY <1>1, <1>2, <1>3 DEF IInv

\* Where one process goes without a write to the file.
LEMMA GoStep ==
  ASSUME FilesInv, NEW p \in Process, NEW to, Go(p, to), UNCHANGED file, "at" \in DOMAIN to,
         to.at # "replace",
         \/ UNCHANGED lock /\ (to.at \in Behind => lock = p)
         \/ lock = "free" /\ lock' = p
         \/ lock = p /\ lock' = "free" /\ to.at \notin Behind
  PROVE  FilesInv'
  <1>1. /\ DOMAIN process' = Process /\ process'[p] = to
        /\ \A q \in Process \ {p} : process'[q] = process[q]
    BY DEF Go, FilesInv
  <1>2. \A q \in Process : q # "free"
    BY DEF Process
  <1>3. Originals'
    BY <1>1 DEF FilesInv, Originals
  <1>4. Holds'
    BY <1>1, <1>2 DEF FilesInv, Holds
  <1> QED
    BY <1>1, <1>3, <1>4 DEF FilesInv

\* Nobody but RefreshKeys brings the watcher to where it stamps the keys.
StampsAsBefore ==
  process'["watcher"] = process["watcher"] \/ process'["watcher"].at # "stamp"

LEMMA GoesElsewhere ==
  ASSUME FilesInv, NEW p \in Process, NEW to, Go(p, to), to.at # "stamp"
  PROVE  StampsAsBefore
  BY DEF Go, FilesInv, StampsAsBefore, Process

LEMMA FinishesGoes ==
  ASSUME NEW p, NEW how, NEW c, Finishes(p, how, c)
  PROVE  Go(p, AtRest)
  BY DEF Finishes

\* A write to the file sends no process on with what it compared.
LEMMA WriteStep ==
  ASSUME FilesInv, NEW c, NEW plain,
         file' = [config |-> c, plain |-> plain, stamp |-> file.stamp + 1]
  PROVE  /\ file'.stamp \in Nat
         /\ \A p \in Process : process[p].at = "replace" =>
              process[p].compared \in Nat /\ process[p].compared < file'.stamp
  BY DEF FilesInv, Originals

LEMMA ProtectKeeps ==
  ASSUME FilesInv, NEW p \in Process, Protect(p)
  PROVE  UNCHANGED <<accessVars, requests, cellVars>> /\ StampsAsBefore
  <1> USE DEF AtRest
  <1>1. UNCHANGED <<accessVars, requests, cellVars>>
    BY DEF Protect, Load, Inspect, Lock, ReadOriginal, Compare, Replace, Breaks, Others
  <1>2. "at" \in DOMAIN process[p]
    BY DEF FilesInv
  <1>3. Go(p, AtRest) => \E to : Go(p, to) /\ to.at # "stamp"
    OBVIOUS
  <1>4. CASE Load(p)
    BY <1>1, <1>3, <1>4, FinishesGoes, GoesElsewhere DEF Load
  <1>5. CASE Inspect(p)
    BY <1>1, <1>2, <1>3, <1>5, FinishesGoes, GoesElsewhere DEF Inspect
  <1>6. CASE Lock(p)
    BY <1>1, <1>2, <1>3, <1>6, FinishesGoes, GoesElsewhere DEF Lock
  <1>7. CASE ReadOriginal(p)
    BY <1>1, <1>3, <1>7, FinishesGoes, GoesElsewhere DEF ReadOriginal
  <1>8. CASE Compare(p)
    BY <1>1, <1>3, <1>8, FinishesGoes, GoesElsewhere DEF Compare
  <1>9. CASE Replace(p) \/ Breaks(p)
    BY <1>1, <1>3, <1>9, FinishesGoes, GoesElsewhere DEF Replace, Breaks
  <1> QED
    BY <1>4, <1>5, <1>6, <1>7, <1>8, <1>9 DEF Protect

LEMMA ProtectStep ==
  ASSUME FilesInv, NEW p \in Process, Protect(p)
  PROVE  FilesInv'
  <1> USE DEF AtRest, Behind
  <1>0. "at" \in DOMAIN process[p] /\ (process[p].at \in Behind => lock = p)
    BY DEF FilesInv, Holds
  <1>1. CASE Load(p)
    <2>1. CASE Go(p, [at |-> "inspect", stamp |-> process[p].stamp, config |-> file.config])
      BY <1>1, <2>1, GoStep DEF Load
    <2>2. CASE Go(p, AtRest)
      BY <1>1, <2>2, GoStep DEF Load
    <2> QED
      BY <1>1, <2>1, <2>2, FinishesGoes DEF Load
  <1>2. CASE Inspect(p)
    <2>1. CASE Go(p, [process[p] EXCEPT !.at = "lock"])
      BY <1>0, <1>2, <2>1, GoStep DEF Inspect
    <2>2. CASE Go(p, AtRest)
      BY <1>2, <2>2, GoStep DEF Inspect
    <2> QED
      BY <1>2, <2>1, <2>2, FinishesGoes DEF Inspect
  <1>3. CASE Lock(p)
    <2>1. CASE lock = "free" /\ lock' = p /\ Go(p, [process[p] EXCEPT !.at = "read"])
      BY <1>0, <1>3, <2>1, GoStep DEF Lock
    <2>2. CASE Go(p, AtRest) /\ UNCHANGED lock
      BY <1>3, <2>2, GoStep DEF Lock
    <2> QED
      BY <1>3, <2>1, <2>2, FinishesGoes DEF Lock
  <1>4. CASE ReadOriginal(p)
    <2>1. CASE Go(p, [at |-> "compare", stamp |-> process[p].stamp, config |-> file.config,
                      plain |-> file.plain]) /\ UNCHANGED lock
      BY <1>0, <1>4, <2>1, GoStep DEF ReadOriginal
    <2>2. CASE Go(p, AtRest) /\ lock' = "free"
      BY <1>0, <1>4, <2>2, GoStep DEF ReadOriginal
    <2> QED
      BY <1>4, <2>1, <2>2, FinishesGoes DEF ReadOriginal
  <1>5. CASE Compare(p)
    <2> DEFINE to == [at |-> "replace", stamp |-> process[p].stamp,
                      config |-> process[p].config, plain |-> process[p].plain,
                      compared |-> file.stamp]
    <2>1. CASE IsOriginal(process[p]) /\ Go(p, to) /\ UNCHANGED lock
      <3>1. /\ DOMAIN process' = Process /\ process'[p] = to
            /\ \A q \in Process \ {p} : process'[q] = process[q]
        BY <2>1 DEF Go, FilesInv
      <3>2. UNCHANGED file
        BY <1>5 DEF Compare
      <3>3. Originals'
        BY <2>1, <3>1, <3>2 DEF FilesInv, Originals, IsOriginal
      <3>4. Holds'
        BY <1>0, <1>5, <2>1, <3>1 DEF FilesInv, Holds, Compare
      <3> QED
        BY <3>1, <3>2, <3>3, <3>4 DEF FilesInv
    <2>2. CASE Go(p, AtRest) /\ lock' = "free"
      BY <1>0, <1>5, <2>2, GoStep DEF Compare
    <2> QED
      BY <1>5, <2>1, <2>2, FinishesGoes DEF Compare
  <1>6. CASE /\ process[p].at = "replace" /\ file' = Encrypted(process[p])
             /\ lock' = "free" /\ Go(p, AtRest)
    <2>1. Go(p, AtRest) /\ lock = p /\ lock' = "free"
      BY <1>0, <1>6
    <2>2. /\ DOMAIN process' = Process /\ process'[p] = AtRest
          /\ \A q \in Process \ {p} : process'[q] = process[q]
      BY <2>1 DEF Go, FilesInv
    <2>3. /\ file'.stamp \in Nat
          /\ \A q \in Process : process[q].at = "replace" =>
               process[q].compared \in Nat /\ process[q].compared < file'.stamp
      BY <1>6, WriteStep DEF Encrypted
    <2>4. Originals'
      BY <2>2, <2>3 DEF Originals
    <2>5. Holds'
      BY <2>1, <2>2 DEF FilesInv, Holds
    <2> QED
      BY <2>2, <2>3, <2>4, <2>5 DEF FilesInv
  <1>8. CASE Replace(p)
    BY <1>6, <1>8, FinishesGoes DEF Replace
  <1>9. CASE Breaks(p)
    <2>1. Go(p, AtRest)
      BY <1>9, FinishesGoes DEF Breaks
    <2>2. CASE UNCHANGED file
      <3>1. CASE process[p].at \in Behind
        BY <1>0, <1>9, <2>1, <2>2, <3>1, GoStep DEF Breaks
      <3>2. CASE process[p].at \notin Behind
        BY <1>9, <2>1, <2>2, <3>2, GoStep DEF Breaks
      <3> QED
        BY <3>1, <3>2
    <2>3. CASE process[p].at = "replace" /\ file' = Encrypted(process[p])
      BY <1>6, <1>9, <2>1, <2>3 DEF Breaks
    <2> QED
      BY <1>9, <2>2, <2>3 DEF Breaks
  <1> QED
    BY <1>1, <1>2, <1>3, <1>4, <1>5, <1>8, <1>9 DEF Protect

\* A request's step changes that request, and only to let it in looks at the keys.
Lets == \A r \in Caller : requests[r].phase = "none" /\ requests'[r].phase = "admitted" =>
                            requests'[r].key \in recent \cup {None} \/ access.late

LEMMA GetStep ==
  ASSUME RequestsInv, NEW r \in Caller, NEW to, Get(r, to), "phase" \in DOMAIN to,
         to.phase # "admitted"
  PROVE  RequestsInv' /\ Lets
  BY DEF Get, RequestsInv, Lets

LEMMA DoneStep ==
  ASSUME RequestsInv, NEW r \in Caller, NEW how, Get(r, Done(how))
  PROVE  RequestsInv' /\ Lets
  BY GetStep DEF Done

LEMMA ComeStep ==
  ASSUME IInv, NEW r \in Caller, Come(r)
  PROVE  RequestsInv' /\ Lets
  <1>1. PICK q \in Queries(inForce) :
          IF Cfg[inForce].mode # "host" THEN Get(r, [phase |-> "admitted", q |-> q, key |-> None])
          ELSE \E key \in Key :
                 Get(r, IF Accepts(key) THEN [phase |-> "admitted", q |-> q, key |-> key]
                                        ELSE Done("unauthorized"))
    BY DEF Come
  <1>2. ASSUME NEW key, key \in recent \cup {None} \/ access.late,
               Get(r, [phase |-> "admitted", q |-> q, key |-> key])
        PROVE  RequestsInv' /\ Lets
    BY <1>2 DEF Get, IInv, RequestsInv, Lets
  <1>3. CASE Cfg[inForce].mode # "host"
    BY <1>1, <1>2, <1>3
  <1>4. CASE Cfg[inForce].mode = "host"
    <2>1. PICK key \in Key :
            Get(r, IF Accepts(key) THEN [phase |-> "admitted", q |-> q, key |-> key]
                                   ELSE Done("unauthorized"))
      BY <1>1, <1>4
    <2>2. Accepts(key) => key \in recent \/ access.late
      BY DEF Accepts, Known, IInv, AccessInv
    <2> QED
      BY <1>2, <2>1, <2>2, DoneStep DEF IInv
  <1> QED
    BY <1>3, <1>4

LEMMA RequestStepStep ==
  ASSUME IInv, NEW r \in Caller, RequestStep(r)
  PROVE  IInv' /\ Lets
  <1>1. UNCHANGED Files
    BY DEF RequestStep, Come, Choose, Pay, Resolve, Forget, Resolved, Answer, Cells
  <1>2. FilesInv' /\ AccessInv'
    BY <1>1 DEF Files, fileVars, accessVars, IInv, FilesInv, AccessInv, Originals, Holds
  <1>3. "phase" \in DOMAIN requests[r]
    BY DEF IInv, RequestsInv
  <1>u. ASSUME UNCHANGED cellVars PROVE CredentialsInv'
    BY <1>u DEF cellVars, IInv, CredentialsInv, CallTypes, Shared, Unfailed, InCell,
                OneCommandPerSource, FailuresAreShared
  <1>v. ASSUME UNCHANGED requests PROVE RequestsInv' /\ Lets
    BY <1>v DEF IInv, RequestsInv, Lets
  <1>4. CASE Come(r)
    BY <1>2, <1>4, <1>u, ComeStep DEF IInv, Come
  <1>5. CASE Choose(r)
    <2>1. PICK plan : Get(r, IF plan = <<>> THEN Done("bad request")
                             ELSE [phase |-> "tries", config |-> inForce, q |-> requests[r].q,
                                   plan |-> plan, at |-> 1])
      BY <1>5 DEF Choose
    <2>2. RequestsInv' /\ Lets
      <3>1. CASE plan = <<>>
        BY <2>1, <3>1, DoneStep DEF IInv
      <3>2. CASE plan # <<>>
        BY <2>1, <3>2, GetStep DEF IInv
      <3> QED
        BY <3>1, <3>2
    <2> QED
      BY <1>2, <1>5, <1>u, <2>2 DEF IInv, Choose
  <1>6. CASE Pay(r)
    <2>1. \/ Get(r, [requests[r] EXCEPT !.phase = "sent"])
          \/ Get(r, [requests[r] EXCEPT !.phase = "resolves"])
          \/ Get(r, Done("no credential"))
      BY <1>6 DEF Pay
    <2>2. RequestsInv' /\ Lets
      BY <1>3, <2>1, GetStep, DoneStep DEF IInv
    <2>3. UNCHANGED cellVars \/ \E s \in Command : Ask(r, s)
      BY <1>6 DEF Pay
    <2>4. CredentialsInv'
      BY <1>u, <2>3, AskStep DEF IInv
    <2> QED
      BY <1>2, <2>2, <2>4 DEF IInv
  <1>7. CASE Resolve(r) \/ Forget(r)
    <2>1. CredentialsInv'
      BY <1>7, EnterStep, SucceedsStep, RunFailsStep, LeavesStep DEF Resolve, Forget, IInv
    <2> QED
      BY <1>2, <1>7, <1>v, <2>1 DEF IInv, Resolve, Forget, Cells
  <1>8. CASE Resolved(r)
    <2>1. RequestsInv' /\ Lets
      <3>1. CASE calls[r].how = "value"
        BY <1>3, <1>8, <3>1, GetStep DEF Resolved, IInv
      <3>2. CASE calls[r].how # "value"
        BY <1>8, <3>2, DoneStep DEF Resolved, IInv
      <3> QED
        BY <3>1, <3>2
    <2>2. CredentialsInv'
      BY <1>8, CallEnds DEF Resolved, NoCall, IInv, CredentialsInv, CallTypes
    <2> QED
      BY <1>2, <2>1, <2>2 DEF IInv
  <1>9. CASE Answer(r)
    <2>1. \/ Get(r, Done("answered"))
          \/ Get(r, [requests[r] EXCEPT !.phase = "tries", !.at = @ + 1])
      BY <1>9 DEF Answer
    <2>2. RequestsInv' /\ Lets
      BY <1>3, <2>1, GetStep, DoneStep DEF IInv
    <2> QED
      BY <1>2, <1>9, <1>u, <2>2 DEF IInv, Answer
  <1> QED
    BY <1>4, <1>5, <1>6, <1>7, <1>8, <1>9 DEF RequestStep

\* What leaves the files, or the requests and their calls, as they are.
LEMMA SameFiles == FilesInv /\ UNCHANGED <<file, lock, process>> => FilesInv'
  BY DEF FilesInv, Originals, Holds

LEMMA SameKeys == AccessInv /\ UNCHANGED accessVars /\ StampsAsBefore => AccessInv'
  BY DEF AccessInv, accessVars, StampsAsBefore

LEMMA SameRequests ==
  ASSUME IInv, UNCHANGED <<requests, cellVars>>
  PROVE  CredentialsInv' /\ RequestsInv' /\ Lets
  BY DEF cellVars, IInv, CredentialsInv, CallTypes, Shared, Unfailed, InCell,
         OneCommandPerSource, FailuresAreShared, RequestsInv, Lets

LEMMA NextIInv ==
  ASSUME IInv, [Next]_vars
  PROVE  IInv' /\ Lets
  <1> USE DEF IInv
  <1>1. CASE Edit
    <2>1. PICK c, plain : file' = [config |-> c, plain |-> plain, stamp |-> file.stamp + 1]
      BY <1>1 DEF Edit
    <2>2. UNCHANGED <<lock, process, accessVars>> /\ UNCHANGED <<requests, cellVars>>
      BY <1>1 DEF Edit
    <2>3. /\ file'.stamp \in Nat
          /\ \A p \in Process : process[p].at = "replace" =>
               process[p].compared \in Nat /\ process[p].compared < file'.stamp
      BY <2>1, WriteStep
    <2>4. FilesInv'
      BY <2>2, <2>3 DEF FilesInv, Originals, Holds
    <2> QED
      BY <2>2, <2>4, SameKeys, SameRequests DEF StampsAsBefore
  <1>2. CASE Ensure \/ Revoke
    <2>1. PICK keys : KeysBecome(keys)
      BY <1>2 DEF Ensure, Revoke
    <2>2. AccessInv'
      BY <2>1 DEF KeysBecome, fileVars, AccessInv
    <2> QED
      BY <2>1, <2>2, SameFiles, SameRequests DEF KeysBecome, fileVars
  <1>3. CASE SecondPasses
    <2>1. \/ UNCHANGED process /\ process["watcher"].at # "stamp"
          \/ /\ process["watcher"].at = "stamp"
             /\ Go("watcher", [process["watcher"] EXCEPT !.late = TRUE])
      BY <1>3 DEF SecondPasses, Go
    <2>2. AccessInv' /\ FilesInv'
      <3>1. /\ keysFile' \subseteq recent' /\ {"young", "keys", "late"} \subseteq DOMAIN access'
            /\ access'.late \in BOOLEAN /\ ~access'.young
        BY <1>3 DEF SecondPasses, AccessInv
      <3>2. CASE UNCHANGED process /\ process["watcher"].at # "stamp"
        BY <1>3, <3>1, <3>2, SameFiles DEF SecondPasses, AccessInv
      <3>3. CASE /\ process["watcher"].at = "stamp"
                 /\ Go("watcher", [process["watcher"] EXCEPT !.late = TRUE])
        <4>1. {"at", "keys", "late"} \subseteq DOMAIN process["watcher"]
          BY <3>3 DEF AccessInv, FilesInv, Process
        <4>2. /\ process'["watcher"] = [process["watcher"] EXCEPT !.late = TRUE]
              /\ process'["watcher"].at = "stamp" /\ process'["watcher"].late = TRUE
              /\ {"at", "keys", "late"} \subseteq DOMAIN process'["watcher"]
          BY <3>3, <4>1 DEF Go, FilesInv, Process
        <4>3. FilesInv'
          BY <1>3, <3>3, <4>1, GoStep DEF SecondPasses, Process, Behind
        <4> QED
          BY <3>1, <4>2, <4>3 DEF AccessInv
      <3> QED
        BY <2>1, <3>2, <3>3
    <2> QED
      BY <1>3, <2>2, SameRequests DEF SecondPasses
  <1>4. CASE RefreshKeys
    <2>1. process'["watcher"] = [at |-> "stamp", keys |-> keysFile, late |-> FALSE]
      BY <1>4 DEF RefreshKeys, Go, ReadKeys, FilesInv, Process
    <2>2. AccessInv'
      BY <1>4, <2>1 DEF RefreshKeys, accessVars, AccessInv
    <2>3. FilesInv'
      BY <1>4, GoStep DEF RefreshKeys, Process, Behind
    <2> QED
      BY <1>4, <2>2, <2>3, SameRequests DEF RefreshKeys
  <1>10. CASE StampKeys
    <2>1. /\ process["watcher"].at = "stamp" /\ process'["watcher"].at = "keys"
          /\ access' = [young |-> TRUE, keys |-> process["watcher"].keys,
                        late |-> process["watcher"].late]
      BY <1>10 DEF StampKeys, Stamped, Go, FilesInv, Process
    <2>2. AccessInv'
      BY <1>10, <2>1 DEF StampKeys, AccessInv
    <2>3. FilesInv'
      BY <1>10, GoStep DEF StampKeys, Process, Behind
    <2> QED
      BY <1>10, <2>2, <2>3, SameRequests DEF StampKeys
  <1>5. CASE Fingerprint \/ Encrypt
    <2>0. PICK p \in Process :
            \E to : Go(p, to) /\ "at" \in DOMAIN to /\ to.at \in {"rest", "load"}
      BY <1>5 DEF Fingerprint, Encrypt, Process, AtRest
    <2>1. PICK to : Go(p, to) /\ "at" \in DOMAIN to /\ to.at \in {"rest", "load"}
      BY <2>0
    <2>2. UNCHANGED <<file, lock, accessVars>> /\ UNCHANGED <<requests, cellVars>>
      BY <1>5 DEF Fingerprint, Encrypt
    <2>3. FilesInv' /\ StampsAsBefore
      BY <2>1, <2>2, GoStep, GoesElsewhere DEF Behind
    <2> QED
      BY <2>2, <2>3, SameKeys, SameRequests
  <1>6. ASSUME NEW p \in Process, Protect(p) PROVE IInv' /\ Lets
    BY <1>6, ProtectKeeps, ProtectStep, SameKeys, SameRequests
  <1>7. ASSUME NEW r \in Caller, RequestStep(r) PROVE IInv' /\ Lets
    BY <1>7, RequestStepStep
  <1>8. ASSUME NEW s \in Command, GrowsOld(s) PROVE IInv' /\ Lets
    <2>1. CredentialsInv'
      BY <1>8, AgesStep DEF GrowsOld
    <2>2. RequestsInv' /\ Lets
      BY <1>8 DEF GrowsOld, RequestsInv, Lets
    <2> QED
      BY <1>8, <2>1, <2>2, SameFiles, SameKeys DEF GrowsOld, Files, fileVars, StampsAsBefore
  <1>9. CASE UNCHANGED vars
    BY <1>9, SameFiles, SameKeys, SameRequests DEF vars, fileVars, StampsAsBefore
  <1> QED
    BY <1>1, <1>2, <1>3, <1>4, <1>5, <1>10, <1>6, <1>7, <1>8, <1>9
    DEF Next, Watcher, Encrypter, Process

------------------------------------------------------------------------------
\* The parts of the invariant hold together in every reachable state.
THEOREM Inductive == Spec => []IInv
  <1>1. IInv /\ [Next]_vars => IInv'
    BY NextIInv
  <1> QED
    BY <1>1, InitIInv, PTL DEF Spec

\* The mutex of a source's cell and the rule which cells make room keep a command from
\* being run twice at a time.
THEOREM SingleFlight == Spec => []OneCommandPerSource
  <1>1. IInv => OneCommandPerSource
    BY DEF IInv, CredentialsInv
  <1> QED
    BY <1>1, Inductive, PTL

\* The comparison of a failure's instant with the call's own start shares a failure only
\* with the callers of its time.
THEOREM SharedWithItsTime == Spec => []FailuresAreShared
  <1>1. IInv => FailuresAreShared
    BY DEF IInv, CredentialsInv
  <1> QED
    BY <1>1, Inductive, PTL

\* The freshness of the access keys in memory makes a revoked key useless after a second,
\* but for the second after the watcher stalled between reading the keys and stamping them.
THEOREM RevocationBites == Spec => RevokedIsRefused
  <1>1. IInv /\ [Next]_vars => [Lets]_vars
    BY NextIInv
  <1> QED
    BY <1>1, Inductive, PTL DEF Spec, RevokedIsRefused, Lets

\* protect never replaces a config that was edited before the comparison.
THEOREM EditsAreKept == Spec => EditsSurvive
  <1>1. IInv => [\A p \in Process :
           /\ process[p].at = "replace" /\ process'[p].at = "rest"
           /\ process[p].compared = file.stamp
           => file.config = process[p].config /\ file.plain = process[p].plain]_vars
    BY DEF IInv, FilesInv, Originals
  <1> QED
    BY <1>1, Inductive, PTL DEF EditsSurvive

\* One process at a time is between taking the lock file of the encryption and giving it
\* back, so what is compared and replaced is what that process read.
Exclusive == \A p, q \in Process :
  process[p].at \in Behind /\ process[q].at \in Behind => p = q

THEOREM EncryptionsExclude == Spec => []Exclusive
  <1>1. IInv => Exclusive
    BY DEF IInv, FilesInv, Holds, Exclusive
  <1> QED
    BY <1>1, Inductive, PTL

------------------------------------------------------------------------------
\* The plans of the requests

\* Every nonempty set of numbers has a least one: induction without an operator.
LEMMA Least ==
  ASSUME NEW S \in SUBSET Nat, S # {}
  PROVE  \E n \in S : \A k \in S : n <= k
  <1>1. PICK n \in S : \A k \in S : ~(<<k, n>> \in OpToRel(<, Nat))
    BY NatLessThanWellFounded, WFMin
  <1>2. \A k \in S : ~(k < n)
    BY <1>1 DEF OpToRel
  <1> QED
    BY <1>2

\* Induction over two numbers, the second for those of equal firsts.
LEMMA LeastOfTwo ==
  ASSUME NEW S, S # {}, NEW f \in [S -> Nat], NEW g \in [S -> Nat]
  PROVE  \E x \in S : \A y \in S : f[x] <= f[y] /\ (f[x] = f[y] => g[x] <= g[y])
  <1> DEFINE Firsts == {f[x] : x \in S}
  <1>1. PICK n \in Firsts : \A k \in Firsts : n <= k
    <2>1. Firsts \in SUBSET Nat /\ Firsts # {}
      OBVIOUS
    <2> HIDE DEF Firsts
    <2> QED
      BY <2>1, Least
  <1> DEFINE T == {x \in S : f[x] = n}
             Seconds == {g[x] : x \in T}
  <1>2. PICK m \in Seconds : \A k \in Seconds : m <= k
    <2>1. Seconds \in SUBSET Nat /\ Seconds # {}
      OBVIOUS
    <2> HIDE DEF Seconds
    <2> QED
      BY <2>1, Least
  <1>3. PICK x \in T : g[x] = m
    BY <1>2
  <1>4. \A y \in S : f[x] <= f[y]
    BY <1>1, <1>3
  <1>5. \A y \in S : f[x] = f[y] => g[x] <= g[y]
    BY <1>2, <1>3
  <1> QED
    BY <1>3, <1>4, <1>5

\* A run of k steps from x to the first state in final, and where such runs lead.
IsRun(final, next, k, x, g) ==
  /\ g[0] = x /\ g[k] \in final
  /\ \A i \in 0..(k - 1) : g[i] \notin final /\ g[i + 1] = next[g[i]]
Reaches(S, final, next, x, e) ==
  \E k \in Nat : \E g \in [0..k -> S] : IsRun(final, next, k, x, g) /\ g[k] = e

Solves(f, S, final, next, out) ==
  /\ f = [s \in S |-> f[s]]
  /\ \A s \in S : f[s] = IF s \in final THEN out[s] ELSE f[next[s]]

\* A tail-recursive equation has a solution, whether or not the recursion ends: what is
\* told of a state is told of an end that is reached from it, if there is one.
LEMMA TailRecursion ==
  ASSUME NEW S, NEW final, NEW next, NEW out,
         \A s \in S : s \notin final => next[s] \in S
  PROVE  \E f : Solves(f, S, final, next, out)
  <1> DEFINE Leads(x, e) == Reaches(S, final, next, x, e)
             Ends(x) == {e \in S : Leads(x, e)}
             f == [s \in S |-> out[CHOOSE e : e \in Ends(s)]]
  <1>1. ASSUME NEW s \in S, s \in final PROVE Ends(s) = {s}
    <2>1. ASSUME NEW e \in S, Leads(s, e) PROVE e = s
      <3>0. PICK k \in Nat : \E g \in [0..k -> S] : IsRun(final, next, k, s, g) /\ g[k] = e
        BY <2>1 DEF Reaches
      <3>1. PICK g \in [0..k -> S] : IsRun(final, next, k, s, g) /\ g[k] = e
        BY <3>0
      <3>2. k = 0
        BY <1>1, <3>1 DEF IsRun
      <3> QED
        BY <3>1, <3>2 DEF IsRun
    <2>2. Leads(s, s)
      <3> DEFINE g == [i \in 0..0 |-> s]
      <3>1. g \in [0..0 -> S] /\ IsRun(final, next, 0, s, g) /\ g[0] = s
        BY <1>1 DEF IsRun
      <3> QED
        BY <3>1 DEF Reaches
    <2> QED
      BY <2>1, <2>2
  <1>2. ASSUME NEW s \in S, s \notin final, NEW e PROVE Leads(s, e) <=> Leads(next[s], e)
    <2>1. ASSUME Leads(s, e) PROVE Leads(next[s], e)
      <3>0. PICK k \in Nat : \E g \in [0..k -> S] : IsRun(final, next, k, s, g) /\ g[k] = e
        BY <2>1 DEF Reaches
      <3>1. PICK g \in [0..k -> S] : IsRun(final, next, k, s, g) /\ g[k] = e
        BY <3>0
      <3>2. k # 0
        BY <1>2, <3>1 DEF IsRun
      <3> DEFINE j == k - 1
                 h == [i \in 0..j |-> g[i + 1]]
      <3>3. j \in Nat /\ k = j + 1 /\ h \in [0..j -> S]
        BY <3>2
      <3>4. h[0] = next[s] /\ h[j] = e /\ h[j] \in final
        BY <3>1, <3>3 DEF IsRun
      <3>5. \A i \in 0..(j - 1) : h[i] \notin final /\ h[i + 1] = next[h[i]]
        BY <3>1, <3>3 DEF IsRun
      <3> QED
        BY <3>3, <3>4, <3>5 DEF Reaches, IsRun
    <2>2. ASSUME Leads(next[s], e) PROVE Leads(s, e)
      <3>0. PICK j \in Nat : \E h \in [0..j -> S] : IsRun(final, next, j, next[s], h) /\ h[j] = e
        BY <2>2 DEF Reaches
      <3>1. PICK h \in [0..j -> S] : IsRun(final, next, j, next[s], h) /\ h[j] = e
        BY <3>0
      <3> DEFINE g == [i \in 0..(j + 1) |-> IF i = 0 THEN s ELSE h[i - 1]]
      <3>2. g \in [0..(j + 1) -> S] /\ j + 1 \in Nat
        OBVIOUS
      <3>3. g[0] = s /\ g[j + 1] = e /\ g[j + 1] \in final
        BY <3>1 DEF IsRun
      <3>4. ASSUME NEW i \in 0..((j + 1) - 1) PROVE g[i] \notin final /\ g[i + 1] = next[g[i]]
        <4>1. CASE i = 0
          BY <1>2, <3>1, <4>1 DEF IsRun
        <4>2. CASE i # 0
          BY <3>1, <4>2 DEF IsRun
        <4> QED
          BY <4>1, <4>2
      <3> QED
        BY <3>2, <3>3, <3>4 DEF Reaches, IsRun
    <2> QED
      BY <2>1, <2>2
  <1>3. ASSUME NEW s \in S, s \in final PROVE f[s] = out[s]
    <2>1. (CHOOSE e : e \in {s}) = s
      OBVIOUS
    <2> QED
      BY <1>1, <1>3, <2>1
  <1>4. ASSUME NEW s \in S, s \notin final PROVE f[s] = f[next[s]]
    <2>1. Ends(s) = Ends(next[s])
      BY <1>2, <1>4
    <2> QED
      BY <1>4, <2>1
  <1> HIDE DEF Ends
  <1>5. \A s \in S : f[s] = IF s \in final THEN out[s] ELSE f[next[s]]
    BY <1>3, <1>4
  <1>6. f = [s \in S |-> f[s]]
    OBVIOUS
  <1> HIDE DEF f
  <1> QED
    BY <1>5, <1>6 DEF Solves

------------------------------------------------------------------------------
\* A project has a key, or there are no keys at all.
Paid(c, i) == i.project \in DOMAIN c.keys \/ DOMAIN c.keys = {}

LEMMA Names ==
  /\ Model \subseteq Name /\ \A n \in Name : Plain[n] \in Model
  /\ None \notin Name /\ None \notin Project
  BY RoutingConstants DEF Model

\* What a name is rewritten to is a model, and its project is one that validation looked at.
LEMMA RewrittenIs ==
  ASSUME NEW c, IsConfig(c), NEW n \in Name, NEW q
  PROVE  /\ Rewritten(c, n, q).model \in Model /\ Rewritten(c, n, q).project \in Project
         /\ ValidProjects(c) => Paid(c, Rewritten(c, n, q))
  <1>1. CASE AliasFor(c, n, q.shape) = {}
    BY <1>1, Names DEF Rewritten, IsConfig, ValidProjects, Paid
  <1>2. CASE AliasFor(c, n, q.shape) # {}
    <2> DEFINE a == CHOOSE x \in AliasFor(c, n, q.shape) : TRUE
               r == IF q.effort \in DOMAIN a.routes THEN a.routes[q.effort]
                                                    ELSE [to |-> a.to, key |-> None]
    <2>1. a \in c.aliases /\ a \in Alias
      BY <1>2 DEF AliasFor, IsConfig
    <2>2. /\ a.to \in Name \cup {None} /\ a.key \in Project \cup {None}
          /\ \A e \in DOMAIN a.routes : a.routes[e] \in Route
      <3>1. a.to \in Name \cup {None} /\ a.key \in Project \cup {None}
        BY <2>1 DEF Alias
      <3>2. PICK E \in SUBSET Effort : a.routes \in [E -> Route]
        BY <2>1 DEF Alias
      <3> QED
        BY <3>1, <3>2
    <2>3. r.to \in Name \cup {None} /\ r.key \in Project \cup {None}
      BY <2>2 DEF Route
    <2>4. ValidProjects(c) => KnownKey(c, a.key) /\ KnownKey(c, r.key)
      BY <2>1 DEF ValidProjects, KnownKey
    <2>5. /\ Rewritten(c, n, q).model = Plain[IF r.to = None THEN n ELSE r.to]
          /\ Rewritten(c, n, q).project
               = IF r.key # None THEN r.key ELSE IF a.key # None THEN a.key ELSE c.default
      BY <1>2 DEF Rewritten
    <2> HIDE DEF a, r
    <2> QED
      BY <2>2, <2>3, <2>4, <2>5, Names DEF IsConfig, ValidProjects, KnownKey, Paid
  <1> QED
    BY <1>1, <1>2

\* So an identity is a candidate whose project has a key.
LEMMA IdentityIs ==
  ASSUME NEW c, IsConfig(c), NEW n \in Name, NEW q
  PROVE  /\ Identity(c, n, q) \in Candidate
         /\ ValidProjects(c) => Paid(c, Identity(c, n, q))
         /\ Identity(c, n, q).model \in Model
  BY RewrittenIs, Names DEF Identity, Candidate, Paid

\* The same for a name in the path or the query.
LEMMA RewrittenUriIs ==
  ASSUME NEW c, IsConfig(c), NEW n \in Name, ValidProjects(c)
  PROVE  Paid(c, RewrittenUri(c, n))
  <1> DEFINE found == {a \in c.aliases : a.from = n /\ a.shape = None}
  <1>1. CASE found = {}
    BY <1>1 DEF RewrittenUri, ValidProjects, Paid
  <1>2. CASE found # {}
    <2> DEFINE a == CHOOSE x \in found : TRUE
    <2>1. a \in c.aliases
      BY <1>2
    <2>2. RewrittenUri(c, n).project = IF a.key = None THEN c.default ELSE a.key
      BY <1>2 DEF RewrittenUri
    <2>3. KnownKey(c, a.key)
      BY <2>1 DEF ValidProjects
    <2> HIDE DEF a
    <2> QED
      BY <2>2, <2>3 DEF ValidProjects, KnownKey, Paid
  <1> QED
    BY <1>1, <1>2

\* The top of a stack, and what is left without it.
LEMMA FrontIs ==
  ASSUME NEW S, NEW s \in Seq(S), s # <<>>
  PROVE  Last(s) \in S /\ Front(s) \in Seq(S) /\ Len(Front(s)) = Len(s) - 1
  <1>1. Len(s) \in Nat /\ Len(s) # 0
    BY LenProperties, EmptySeq
  <1>2. \A i \in 1..(Len(s) - 1) : s[i] \in S
    BY <1>1, ElementOfSeq
  <1>3. Front(s) \in Seq(S) /\ Len(Front(s)) = IF 1 <= Len(s) - 1 THEN Len(s) - 1 - 1 + 1 ELSE 0
    BY <1>1, <1>2, SubSeqProperties DEF Front
  <1>4. Last(s) \in S
    BY <1>1, ElementOfSeq DEF Last
  <1> QED
    BY <1>1, <1>3, <1>4

\* One step of the walk drops a name, or adds a candidate.
LEMMA AfterIs ==
  ASSUME NEW c, IsConfig(c), NEW w \in Walks, w.pending # <<>>,
         NEW i \in Candidate, i.model \in Model
  PROVE  /\ After(c, i, w) \in Walks
         /\ \/ /\ After(c, i, w).done = w.done
               /\ Len(After(c, i, w).pending) = Len(w.pending) - 1
            \/ After(c, i, w).done = Append(w.done, i)
  <1> DEFINE targets == Reverse(Targets(c, i.model))
  <1>1. targets \in Seq(Name)
    <2>1. Targets(c, i.model) \in Seq(Name)
      BY Names DEF Targets, IsConfig
    <2>2. \A t \in Seq(Name) : Reverse(t) \in Seq(Name)
      BY LenProperties, ElementOfSeq DEF Reverse
    <2> QED
      BY <2>1, <2>2
  <1>2. /\ w.pending \in Seq(Name) /\ w.done \in Seq(Candidate)
        /\ w = [pending |-> w.pending, done |-> w.done]
    BY DEF Walks
  <1>3. Front(w.pending) \in Seq(Name) /\ Len(Front(w.pending)) = Len(w.pending) - 1
    BY <1>2, FrontIs
  <1>4. Front(w.pending) \o targets \in Seq(Name) /\ Append(w.done, i) \in Seq(Candidate)
    BY <1>1, <1>2, <1>3, ConcatProperties, AppendProperties
  <1>5. After(c, i, w) = IF \E j \in ToSet(w.done) : Same(i, j)
                         THEN [pending |-> Front(w.pending), done |-> w.done]
                         ELSE [pending |-> Front(w.pending) \o targets, done |-> Append(w.done, i)]
    BY <1>2, SMTT(30) DEF After, Pushed
  <1> HIDE DEF targets
  <1> QED
    BY <1>2, <1>3, <1>4, <1>5 DEF Walks

\* What the walk does next: it ends with a plan, fails, or goes on with the first of the
\* names that are pending.
Stuck(c, q, w) == Fails(c, Last(w.pending), AskedFor(c, q, w))
Stepped(c, q, w) == After(c, Upcoming(c, q, w), w)
WalkOf(c, q, f, w) ==
  IF Planned(w) THEN w.done ELSE IF Stuck(c, q, w) THEN <<>> ELSE f[Stepped(c, q, w)]
Walking(c, q, f) == \A w \in Walks : f[w] = WalkOf(c, q, f, w)
Outset(q) == [pending |-> <<q.name>>, done |-> <<>>]

\* A walk that is not over goes on to another state of a walk.
LEMMA SteppedIs ==
  ASSUME NEW c, IsConfig(c), NEW q, NEW w \in Walks, w.pending # <<>>
  PROVE  /\ Upcoming(c, q, w) \in Candidate /\ Upcoming(c, q, w).model \in Model
         /\ ValidProjects(c) => Paid(c, Upcoming(c, q, w))
         /\ Stepped(c, q, w) \in Walks
         /\ \/ /\ Stepped(c, q, w).done = w.done
               /\ Len(Stepped(c, q, w).pending) = Len(w.pending) - 1
            \/ Stepped(c, q, w).done = Append(w.done, Upcoming(c, q, w))
  <1>1. Last(w.pending) \in Name
    BY FrontIs DEF Walks
  <1>2. /\ Upcoming(c, q, w) \in Candidate /\ Upcoming(c, q, w).model \in Model
        /\ ValidProjects(c) => Paid(c, Upcoming(c, q, w))
    BY <1>1, IdentityIs DEF Upcoming
  <1> QED
    BY <1>2, AfterIs DEF Stepped

\* What Walk finds is what some function finds that obeys its equation.
LEMMA WalkExists ==
  ASSUME NEW c, IsConfig(c), NEW q
  PROVE  \E f : Walking(c, q, f) /\ Walk(c, q) = f[Outset(q)]
  <1> DEFINE found(f, w) ==
        IF Planned(w) THEN w.done
        ELSE IF Fails(c, Last(w.pending), AskedFor(c, q, w)) THEN <<>>
        ELSE f[After(c, Upcoming(c, q, w), w)]
             walk[w \in Walks] == found(walk, w)
  <1>1. Walk(c, q) = walk[Outset(q)]
    BY DEF Walk, Outset
  <1>2. \A f, w : found(f, w) = WalkOf(c, q, f, w)
    BY DEF WalkOf, Stuck, Stepped
  <1> HIDE DEF found
  <1>3. \E f : f = [w \in Walks |-> found(f, w)]
    <2> DEFINE final == {w \in Walks : Planned(w) \/ Stuck(c, q, w)}
               next  == [w \in Walks |-> Stepped(c, q, w)]
               out   == [w \in Walks |-> IF Planned(w) THEN w.done ELSE <<>>]
    <2>1. \A w \in Walks : w \notin final => next[w] \in Walks
      BY SteppedIs DEF Planned
    <2> HIDE DEF final, next, out
    <2>2. PICK f : Solves(f, Walks, final, next, out)
      BY <2>1, TailRecursion
    <2>3. ASSUME NEW w \in Walks
          PROVE  (IF w \in final THEN out[w] ELSE f[next[w]]) = found(f, w)
      BY <1>2 DEF final, next, out, WalkOf
    <2>4. f = [w \in Walks |-> found(f, w)]
      BY <2>2, <2>3 DEF Solves
    <2> QED
      BY <2>4
  <1>4. walk = [w \in Walks |-> found(walk, w)]
    BY <1>3 DEF walk
  <1> HIDE DEF walk
  <1>5. Walking(c, q, walk)
    BY <1>2, <1>4 DEF Walking
  <1> QED
    BY <1>1, <1>5

\* Induction over a walk: the candidates that are rooms, and the names that are pending.
LEMMA WalkEnds ==
  ASSUME NEW Bad, Bad \subseteq Walks, Bad # {},
         \A w \in Bad : Len(w.done) <= MaxAttempts
  PROVE  \E w \in Bad : \A x \in Bad :
           /\ Len(x.done) <= Len(w.done)
           /\ Len(x.done) = Len(w.done) => Len(w.pending) <= Len(x.pending)
  <1> DEFINE rooms == [w \in Bad |-> MaxAttempts - Len(w.done)]
             lengths == [w \in Bad |-> Len(w.pending)]
  <1>1. MaxAttempts \in Nat /\ \A w \in Bad : Len(w.done) \in Nat /\ Len(w.pending) \in Nat
    BY RoutingConstants, LenProperties DEF Walks
  <1>2. rooms \in [Bad -> Nat] /\ lengths \in [Bad -> Nat]
    BY <1>1
  <1>3. \A x \in Bad : rooms[x] = MaxAttempts - Len(x.done) /\ lengths[x] = Len(x.pending)
    OBVIOUS
  <1> HIDE DEF rooms, lengths
  <1>4. PICK x \in Bad : \A y \in Bad : /\ rooms[x] <= rooms[y]
                                        /\ rooms[x] = rooms[y] => lengths[x] <= lengths[y]
    BY <1>2, LeastOfTwo
  <1>5. ASSUME NEW y \in Bad
        PROVE  /\ Len(y.done) <= Len(x.done)
               /\ Len(y.done) = Len(x.done) => Len(x.pending) <= Len(y.pending)
    <2>1. /\ MaxAttempts - Len(x.done) <= MaxAttempts - Len(y.done)
          /\ MaxAttempts - Len(x.done) = MaxAttempts - Len(y.done)
               => Len(x.pending) <= Len(y.pending)
      BY <1>3, <1>4
    <2>2. Len(x.done) \in Nat /\ Len(y.done) \in Nat /\ MaxAttempts \in Nat
      BY <1>1
    <2> QED
      BY <2>1, <2>2
  <1> QED
    BY <1>5

\* The plan consists of candidates whose projects have keys.
LEMMA WalkIs ==
  ASSUME NEW c, IsConfig(c), ValidProjects(c), NEW q, q.name \in Name
  PROVE  Walk(c, q) \in Seq({i \in Candidate : Paid(c, i)})
  <1>1. PICK walk : Walking(c, q, walk) /\ Walk(c, q) = walk[Outset(q)]
    BY WalkExists
  <1> DEFINE Good == {i \in Candidate : Paid(c, i)}
             Bad == {w \in Walks : /\ w.done \in Seq(Good) /\ Len(w.done) <= MaxAttempts
                                   /\ walk[w] \notin Seq(Good)}
  <1>2. Bad = {}
    <2> SUFFICES ASSUME Bad # {} PROVE FALSE
      OBVIOUS
    <2>1. MaxAttempts \in Nat /\ \A w \in Walks : Len(w.done) \in Nat /\ Len(w.pending) \in Nat
      BY RoutingConstants, LenProperties DEF Walks
    <2>2. PICK w \in Bad : \A x \in Bad :
            /\ Len(x.done) <= Len(w.done)
            /\ Len(x.done) = Len(w.done) => Len(w.pending) <= Len(x.pending)
      <3>1. Bad \subseteq Walks /\ \A x \in Bad : Len(x.done) <= MaxAttempts
        OBVIOUS
      <3> HIDE DEF Bad
      <3> QED
        BY <3>1, WalkEnds
    <2>3. /\ w \in Walks /\ w.done \in Seq(Good) /\ walk[w] \notin Seq(Good)
          /\ Len(w.done) <= MaxAttempts /\ walk[w] = WalkOf(c, q, walk, w)
      BY <1>1 DEF Walking
    <2>4. ~Planned(w) /\ ~Stuck(c, q, w)
      BY <2>3, EmptySeq DEF WalkOf
    <2>5. w.pending # <<>> /\ Len(w.done) < MaxAttempts
      BY <2>1, <2>3, <2>4 DEF Planned
    <2> DEFINE i == Upcoming(c, q, w)
               next == Stepped(c, q, w)
    <2>6. /\ i \in Good /\ next \in Walks /\ walk[next] = walk[w]
          /\ \/ next.done = w.done /\ Len(next.pending) = Len(w.pending) - 1
             \/ next.done = Append(w.done, i)
      BY <2>3, <2>4, <2>5, SteppedIs DEF WalkOf
    <2> HIDE DEF i, next
    <2>7. CASE next.done = w.done /\ Len(next.pending) = Len(w.pending) - 1
      <3>1. next \in Bad
        BY <2>3, <2>6, <2>7
      <3>2. Len(w.pending) <= Len(next.pending)
        BY <2>2, <2>7, <3>1
      <3> QED
        BY <2>1, <2>3, <2>7, <3>2
    <2>8. CASE next.done = Append(w.done, i)
      <3>1. next.done \in Seq(Good) /\ Len(next.done) = Len(w.done) + 1
        BY <2>3, <2>6, <2>8, AppendProperties
      <3>2. Len(w.done) \in Nat
        BY <2>1, <2>3
      <3>3. next \in Bad
        BY <2>1, <2>3, <2>5, <2>6, <3>1, <3>2
      <3>4. Len(next.done) <= Len(w.done)
        BY <2>2, <3>3
      <3> QED
        BY <3>1, <3>2, <3>4
    <2> QED
      BY <2>6, <2>7, <2>8
  <1>3. Outset(q) \in Walks /\ Outset(q).done \in Seq(Good) /\ Len(Outset(q).done) <= MaxAttempts
    BY EmptySeq, RoutingConstants DEF Walks, Outset
  <1> QED
    BY <1>1, <1>2, <1>3

\* The candidates of a request all have a key, unless there are no keys.
LEMMA CandidatesPaid ==
  ASSUME NEW c, IsConfig(c), ValidProjects(c), NEW q, q.name \in Name
  PROVE  /\ Len(Candidates(c, q)) \in Nat
         /\ Candidates(c, q) # <<>> => Len(Candidates(c, q)) > 0
         /\ \A k \in 1..Len(Candidates(c, q)) : Paid(c, Candidates(c, q)[k])
  <1> DEFINE Good == {i \in Candidate : Paid(c, i)}
             Fine(s) == /\ Len(s) \in Nat /\ (s # <<>> => Len(s) > 0)
                        /\ \A k \in 1..Len(s) : Paid(c, s[k])
  <1>1. ASSUME NEW s \in Seq(Good) PROVE Fine(s)
    BY LenProperties, EmptySeq, ElementOfSeq
  <1>2. ASSUME NEW i, Paid(c, i) PROVE Fine(<<i>>)
    BY <1>2
  <1>3. Fine(<<>>)
    OBVIOUS
  <1>4. Fine(Alone(c, q))
    <2>1. Paid(c, RewrittenUri(c, q.name)) /\ Paid(c, Identity(c, q.name, q))
      BY RewrittenUriIs, IdentityIs
    <2> HIDE DEF Fine
    <2> QED
      BY <1>2, <1>3, <2>1 DEF Alone
  <1>5. Fine(Chain(c, q))
    <2>1. Walk(c, q) \in Seq(Good)
      BY WalkIs
    <2>2. Walk(c, q) # <<>> => Head(Walk(c, q)) \in Good
      BY <2>1, HeadTailProperties
    <2>3. Walk(c, q) # <<>> => Fine(<<Head(Walk(c, q))>>)
      BY <1>2, <2>2
    <2>4. Fine(Walk(c, q))
      BY <1>1, <2>1
    <2> HIDE DEF Fine
    <2> QED
      BY <2>3, <2>4 DEF Chain
  <1> HIDE DEF Fine
  <1>6. Fine(Candidates(c, q))
    BY <1>4, <1>5 DEF Candidates
  <1> QED
    BY <1>6 DEF Fine

\* The config of a client's host, like any other that is valid, has the keys it names.
LEMMA EffectiveIs ==
  ASSUME NEW c, IsConfig(c), NEW hostKey
  PROVE  /\ IsConfig(Effective(c, hostKey))
         /\ Valid(c) => ValidProjects(Effective(c, hostKey))
  <1>1. CASE c.mode # "client"
    BY <1>1 DEF Valid, Effective
  <1>2. CASE c.mode = "client"
    <2> DEFINE e == Effective(c, hostKey)
    <2>1. /\ DOMAIN e = ConfigFields /\ e.keys = [p \in {HostProject} |-> hostKey]
          /\ e.default = HostProject /\ e.aliases = {} /\ e.rules = NoRules
      BY <1>2 DEF Effective, IsConfig, ConfigFields
    <2>2. NoRules \in [Model -> Seq(Name)]
      BY EmptySeq DEF NoRules
    <2>3. IsConfig(e)
      BY <2>1, <2>2, RoutingConstants DEF IsConfig, HostProject
    <2>4. ValidProjects(e)
      BY <2>1 DEF ValidProjects
    <2> QED
      BY <2>3, <2>4
  <1> QED
    BY <1>1, <1>2
------------------------------------------------------------------------------
\* The config in force, and those the watcher and the encrypter have read, are valid.
Loaded(i) == i \in Config /\ Valid(Cfg[i])
Reading   == {"inspect", "lock", "read", "compare", "replace"}
ConfigsInv ==
  /\ Loaded(inForce)
  /\ \A p \in Process : process[p].at \in Reading => Loaded(process[p].config)

\* The plan of a request is the one its config and what was asked for make, every candidate
\* has a key, and a call of the resolver is of a request that waits for it.
Routed(x) ==
  /\ x.phase = "admitted" => x.q.name \in Name
  /\ x.phase \in {"tries", "resolves", "sent"} =>
       /\ x = [phase |-> x.phase, config |-> x.config, q |-> x.q, plan |-> x.plan, at |-> x.at]
       /\ x.config \in Config /\ Len(x.plan) \in Nat /\ x.at \in 1..Len(x.plan)
       /\ x.q.name \in Name /\ x.plan = Candidates(Effective(Cfg[x.config], HostKey), x.q)
       /\ \A k \in 1..Len(x.plan) : Paid(Effective(Cfg[x.config], HostKey), x.plan[k])
RoutesInv ==
  /\ \A r \in Caller : Routed(requests[r])
  /\ \A r \in Caller : calls[r].phase # "none" => requests[r].phase = "resolves"

\* The parts hold initially.
LEMMA InitRoutes == Init => ConfigsInv /\ RoutesInv
  <1> SUFFICES ASSUME Init PROVE ConfigsInv /\ RoutesInv
    OBVIOUS
  <1>1. ConfigsInv
    <2>1. PICK s \in Starts : inForce = s.inForce
      BY DEF Init
    <2> QED
      BY <2>1, ServiceConstants DEF Init, ConfigsInv, Loaded, Reading, AtRest
  <1>2. RoutesInv
    BY DEF Init, RoutesInv, Routed, NotCome, CredentialsInit, NoCall
  <1> QED
    BY <1>1, <1>2

\* The end of a reload puts a config in force that was valid when it was read.
LEMMA FinishesLoaded ==
  ASSUME ConfigsInv, FilesInv, NEW p \in Process, NEW how, NEW c, Finishes(p, how, c),
         how = "taken" => Loaded(c)
  PROVE  ConfigsInv'
  <1>1. Loaded(inForce)'
    <2>1. inForce' = inForce \/ (how = "taken" /\ inForce' = c)
      BY DEF Finishes
    <2> QED
      BY <2>1 DEF ConfigsInv, Loaded
  <1>2. process' = [process EXCEPT ![p] = AtRest]
    BY DEF Finishes, Go
  <1> QED
    BY <1>1, <1>2 DEF ConfigsInv, FilesInv, Loaded, Reading, AtRest

\* A process goes on with a config that is valid.
LEMMA GoLoaded ==
  ASSUME ConfigsInv, FilesInv, NEW p \in Process, NEW to, Go(p, to), UNCHANGED inForce,
         to.at \in Reading => Loaded(to.config)
  PROVE  ConfigsInv'
  BY DEF ConfigsInv, FilesInv, Go, Loaded

\* The encryption of the file keeps the configs read, and reads only valid ones.
LEMMA ProtectLoaded ==
  ASSUME ConfigsInv, FilesInv, NEW p \in Process, Protect(p)
  PROVE  ConfigsInv'
  <1>1. process[p].at \in Reading => Loaded(process[p].config)
    BY DEF ConfigsInv
  <1>2. file.config \in Loads => Loaded(file.config)
    BY DEF Loads, Loaded
  <1> DEFINE to(x) == [process[p] EXCEPT !.at = x]
  <1>3. "at" \in DOMAIN process[p]
    BY DEF FilesInv
  <1>4. \A x : to(x).config = process[p].config
    OBVIOUS
  <1>5. CASE Load(p)
    <2>1. CASE file.config \in Loads
      BY <1>2, <1>5, <2>1, GoLoaded DEF Load
    <2>2. CASE file.config \notin Loads
      BY <1>5, <2>2, FinishesLoaded DEF Load
    <2> QED
      BY <2>1, <2>2
  <1>6. CASE Inspect(p)
    <2>1. Loaded(process[p].config)
      BY <1>1, <1>6 DEF Inspect, Reading
    <2>2. \/ Finishes(p, "refused", file.config) \/ Finishes(p, "taken", process[p].config)
          \/ Go(p, to("lock")) /\ UNCHANGED inForce
      BY <1>6 DEF Inspect
    <2> QED
      BY <1>4, <2>1, <2>2, GoLoaded, FinishesLoaded
  <1>7. CASE Lock(p)
    <2>1. Loaded(process[p].config)
      BY <1>1, <1>7 DEF Lock, Reading
    <2>2. \/ Finishes(p, "busy", process[p].config)
          \/ Go(p, to("read")) /\ UNCHANGED inForce
      BY <1>7 DEF Lock
    <2> QED
      BY <1>4, <2>1, <2>2, GoLoaded, FinishesLoaded
  <1>8. CASE ReadOriginal(p)
    <2>1. CASE file.config \in Loads
      BY <1>2, <1>8, <2>1, GoLoaded DEF ReadOriginal
    <2>2. CASE file.config \notin Loads
      BY <1>8, <2>2, FinishesLoaded DEF ReadOriginal
    <2> QED
      BY <2>1, <2>2
  <1>9. CASE Compare(p)
    <2>1. Loaded(process[p].config)
      BY <1>1, <1>9 DEF Compare, Reading
    <2>2. CASE IsOriginal(process[p])
      BY <1>9, <2>1, <2>2, GoLoaded DEF Compare
    <2>3. CASE ~IsOriginal(process[p])
      BY <1>9, <2>3, FinishesLoaded DEF Compare
    <2> QED
      BY <2>2, <2>3
  <1>10. CASE Replace(p)
    <2>1. Loaded(process[p].config)
      BY <1>1, <1>10 DEF Replace, Reading
    <2> QED
      BY <1>10, <2>1, FinishesLoaded DEF Replace
  <1>11. CASE Breaks(p)
    BY <1>11, FinishesLoaded DEF Breaks
  <1> QED
    BY <1>5, <1>6, <1>7, <1>8, <1>9, <1>10, <1>11 DEF Protect

\* Another phase with the same plan.
LEMMA PhaseRoutes ==
  ASSUME NEW x, x.phase \in {"tries", "resolves", "sent"}, Routed(x),
         NEW phase \in {"resolves", "sent"}, NEW y, y = [x EXCEPT !.phase = phase]
  PROVE  Routed(y) /\ y.phase = phase
  BY DEF Routed

\* The next candidate of a plan is paid as the others are.
LEMMA NextRoutes ==
  ASSUME NEW x, x.phase = "sent", Routed(x), x.at < Len(x.plan)
  PROVE  Routed([x EXCEPT !.phase = "tries", !.at = @ + 1])
  <1> DEFINE y == [x EXCEPT !.phase = "tries", !.at = @ + 1]
  <1>1. /\ x = [phase |-> x.phase, config |-> x.config, q |-> x.q, plan |-> x.plan, at |-> x.at]
        /\ x.config \in Config /\ Len(x.plan) \in Nat /\ x.at \in 1..Len(x.plan)
        /\ x.q.name \in Name /\ x.plan = Candidates(Effective(Cfg[x.config], HostKey), x.q)
        /\ \A k \in 1..Len(x.plan) : Paid(Effective(Cfg[x.config], HostKey), x.plan[k])
    BY DEF Routed
  <1>2. y = [phase |-> "tries", config |-> x.config, q |-> x.q, plan |-> x.plan, at |-> x.at + 1]
    <2> DEFINE z == [phase |-> x.phase, config |-> x.config, q |-> x.q, plan |-> x.plan, at |-> x.at]
    <2>1. y = [z EXCEPT !.phase = "tries", !.at = x.at + 1]
      BY <1>1
    <2> HIDE DEF y
    <2> QED
      BY <2>1
  <1> HIDE DEF y
  <1>3. y.phase = "tries" /\ y.config = x.config /\ y.plan = x.plan /\ y.at = x.at + 1 /\ y.q = x.q
    BY <1>2
  <1>4. x.at + 1 \in 1..Len(x.plan)
    BY <1>1
  <1>5. Routed(y)
    BY <1>1, <1>2, <1>3, <1>4 DEF Routed
  <1> QED
    BY <1>5 DEF y

LEMMA DoneRoutes == \A how : Routed(Done(how)) /\ Done(how).phase = "done"
  BY DEF Routed, Done

\* A step of a request that has no call, or asks for one, or has had the answer to one.
LEMMA GetRoutes ==
  ASSUME IInv, RoutesInv, NEW r \in Caller, NEW to, Get(r, to), Routed(to),
         \A x \in Caller : calls'[x].phase # "none" =>
           IF x = r THEN to.phase = "resolves" ELSE calls[x].phase # "none"
  PROVE  RoutesInv'
  <1>1. /\ requests'[r] = to /\ \A x \in Caller \ {r} : requests'[x] = requests[x]
    BY DEF Get, IInv, RequestsInv
  <1>2. \A x \in Caller : calls[x].phase # "none" => requests[x].phase = "resolves"
    BY DEF RoutesInv
  <1>3. \A x \in Caller : Routed(requests'[x])
    BY <1>1 DEF RoutesInv
  <1>4. \A x \in Caller : calls'[x].phase # "none" => requests'[x].phase = "resolves"
    BY <1>1, <1>2
  <1>5. RoutesInv' <=> /\ \A x \in Caller : Routed(requests'[x])
                       /\ \A x \in Caller : calls'[x].phase # "none" => requests'[x].phase = "resolves"
    BY DEF RoutesInv, Routed
  <1> QED
    BY <1>3, <1>4, <1>5

LEMMA GetWithoutCall ==
  ASSUME IInv, RoutesInv, NEW r \in Caller, NEW to, Get(r, to), Routed(to),
         requests[r].phase # "resolves", UNCHANGED calls
  PROVE  RoutesInv'
  <1>1. calls[r].phase = "none"
    BY DEF RoutesInv
  <1> QED
    BY <1>1, GetRoutes

\* The choice of a plan: its candidates are those of a valid config.
LEMMA ChooseRoutes ==
  ASSUME IInv, ConfigsInv, RoutesInv, NEW r \in Caller, Choose(r)
  PROVE  RoutesInv'
  <1> DEFINE c == Effective(Cfg[inForce], HostKey)
             plan == Candidates(c, requests[r].q)
             to == [phase |-> "tries", config |-> inForce, q |-> requests[r].q,
                    plan |-> plan, at |-> 1]
  <1>1. requests[r].phase = "admitted" /\ UNCHANGED calls /\ requests[r].q.name \in Name
    BY DEF Choose, cellVars, RoutesInv, Routed
  <1>2. IsConfig(c) /\ ValidProjects(c) /\ inForce \in Config
    BY EffectiveIs, ServiceConstants DEF ConfigsInv, Loaded
  <1>3. /\ Len(plan) \in Nat /\ (plan # <<>> => Len(plan) > 0)
        /\ \A k \in 1..Len(plan) : Paid(c, plan[k])
    BY <1>1, <1>2, CandidatesPaid
  <1>4. Get(r, IF plan = <<>> THEN Done("bad request") ELSE to)
    BY DEF Choose
  <1>5. plan # <<>> => Routed(to)
    <2>1. plan = Candidates(Effective(Cfg[inForce], HostKey), requests[r].q)
      OBVIOUS
    <2> HIDE DEF plan
    <2> QED
      BY <1>1, <1>2, <1>3, <2>1 DEF Routed
  <1> HIDE DEF plan, to
  <1> QED
    BY <1>1, <1>4, <1>5, DoneRoutes, GetWithoutCall

\* No step of a request leads to a candidate that is not paid.
LEMMA RequestRoutes ==
  ASSUME IInv, ConfigsInv, RoutesInv, NEW r \in Caller, RequestStep(r)
  PROVE  RoutesInv'
  <1>1. Routed(requests[r]) /\ "phase" \in DOMAIN requests[r]
    BY DEF RoutesInv, IInv, RequestsInv
  <1>2. DOMAIN calls = Caller
    BY DEF IInv, CredentialsInv, CallTypes
  <1>3. CASE Come(r)
    <2>1. PICK q \in Queries(inForce) :
            IF Cfg[inForce].mode # "host" THEN Get(r, [phase |-> "admitted", q |-> q, key |-> None])
            ELSE \E key \in Key :
                   Get(r, IF Accepts(key) THEN [phase |-> "admitted", q |-> q, key |-> key]
                                          ELSE Done("unauthorized"))
      BY <1>3 DEF Come
    <2>2. q.name \in Name
      BY <2>1, ServiceConstants DEF ConfigsInv, Loaded
    <2>3. \A key : Routed([phase |-> "admitted", q |-> q, key |-> key])
      BY <2>2 DEF Routed
    <2>4. \E to : Get(r, to) /\ Routed(to)
      BY <2>1, <2>3, DoneRoutes
    <2> QED
      BY <1>3, <2>4, GetWithoutCall DEF Come, cellVars
  <1>4. CASE Choose(r)
    BY <1>4, ChooseRoutes
  <1>5. CASE Pay(r)
    <2>1. requests[r].phase = "tries"
      BY <1>5 DEF Pay
    <2> DEFINE to(phase) == [requests[r] EXCEPT !.phase = phase]
    <2>2. /\ Routed(to("sent")) /\ Routed(to("resolves")) /\ to("resolves").phase = "resolves"
      BY <1>1, <2>1, PhaseRoutes
    <2>3. \/ UNCHANGED calls /\ \E how : Get(r, to("sent")) \/ Get(r, Done(how))
          \/ Get(r, to("resolves")) /\ \E s \in Command : Ask(r, s)
      BY <1>5 DEF Pay, cellVars
    <2> HIDE DEF to
    <2>4. CASE UNCHANGED calls /\ \E how : Get(r, to("sent")) \/ Get(r, Done(how))
      BY <2>1, <2>2, <2>4, DoneRoutes, GetWithoutCall
    <2>5. CASE Get(r, to("resolves")) /\ \E s \in Command : Ask(r, s)
      <3>1. \E k : calls' = [calls EXCEPT ![r] = k]
        BY <2>5 DEF Ask
      <3>2. \A x \in Caller \ {r} : calls'[x] = calls[x]
        BY <1>2, <3>1
      <3> QED
        BY <2>2, <2>5, <3>2, GetRoutes
    <2> QED
      BY <2>3, <2>4, <2>5
  <1>6. CASE Resolve(r) \/ Forget(r)
    <2>1. UNCHANGED requests
      BY <1>6 DEF Resolve, Forget, Cells
    <2>2. /\ Enter(r) \/ Succeeds(r) \/ RunFails(r) \/ Leaves(r)
          /\ calls[r].phase # "none"
      BY <1>6 DEF Resolve, Forget, Enter, Succeeds, RunFails, Leaves, InCell
    <2>3. \A x \in Caller \ {r} : calls'[x].phase # "none" => calls[x].phase # "none"
      BY <1>2, <2>2 DEF Enter, Succeeds, RunFails, Leaves, InCell
    <2> QED
      BY <2>1, <2>2, <2>3 DEF RoutesInv, Routed
  <1>7. CASE Resolved(r)
    <2>1. requests[r].phase = "resolves"
      BY <1>7 DEF Resolved, RoutesInv
    <2> DEFINE sent == [requests[r] EXCEPT !.phase = "sent"]
    <2>2. Routed(sent)
      <3>1. requests[r].phase \in {"tries", "resolves", "sent"}
        BY <2>1
      <3> QED
        BY <1>1, <3>1, PhaseRoutes
    <2> HIDE DEF sent
    <2>3. PICK to : Get(r, to) /\ Routed(to)
      <3>1. \E how : Get(r, sent) \/ Get(r, Done(how))
        BY <1>7 DEF Resolved, sent
      <3> QED
        BY <2>2, <3>1, DoneRoutes DEF sent
    <2>4. /\ calls'[r].phase = "none" /\ \A x \in Caller \ {r} : calls'[x] = calls[x]
      BY <1>2, <1>7 DEF Resolved, NoCall
    <2> QED
      BY <2>3, <2>4, GetRoutes
  <1>8. CASE Answer(r)
    <2>1. requests[r].phase = "sent" /\ UNCHANGED calls
      BY <1>8 DEF Answer, cellVars
    <2>2. PICK to : Get(r, to) /\ Routed(to)
      BY <1>1, <1>8, <2>1, NextRoutes, DoneRoutes DEF Answer
    <2> QED
      BY <2>1, <2>2, GetWithoutCall
  <1> QED
    BY <1>3, <1>4, <1>5, <1>6, <1>7, <1>8 DEF RequestStep

\* Steps that change neither the configs nor, below, the requests.
LEMMA SameConfigs ==
  ASSUME ConfigsInv, UNCHANGED <<process, inForce>>
  PROVE  ConfigsInv'
  BY DEF ConfigsInv, Loaded

LEMMA SameRoutes ==
  ASSUME RoutesInv, UNCHANGED <<requests, calls>>
  PROVE  RoutesInv'
  BY DEF RoutesInv, Routed

\* One step of the system, by the disjuncts of Next.
LEMMA NextRoutesInv ==
  ASSUME IInv, ConfigsInv, RoutesInv, [Next]_vars
  PROVE  ConfigsInv' /\ RoutesInv'
  <1>1. CASE Edit \/ Ensure \/ Revoke \/ (SecondPasses /\ UNCHANGED process) \/ UNCHANGED vars
    <2>1. UNCHANGED <<process, inForce, requests, calls>>
      BY <1>1 DEF Edit, Ensure, Revoke, KeysBecome, SecondPasses, vars, fileVars, cellVars
    <2> QED
      BY <2>1, SameConfigs, SameRoutes
  <1>6. CASE SecondPasses /\ process["watcher"].at = "stamp"
    <2>1. UNCHANGED <<inForce, requests, calls>>
      BY <1>6 DEF SecondPasses, cellVars
    <2>2. "at" \in DOMAIN process["watcher"]
      BY DEF IInv, FilesInv, Process
    <2>3. Go("watcher", [process["watcher"] EXCEPT !.late = TRUE])
      BY <1>6 DEF SecondPasses, Go
    <2>4. [process["watcher"] EXCEPT !.late = TRUE].at \notin Reading
      BY <1>6, <2>2 DEF Reading
    <2> QED
      BY <2>1, <2>3, <2>4, GoLoaded, SameRoutes DEF IInv, Process
  <1>2. CASE RefreshKeys \/ StampKeys \/ Fingerprint \/ Encrypt
    <2>1. UNCHANGED <<inForce, requests, calls>>
      BY <1>2 DEF RefreshKeys, StampKeys, Fingerprint, Encrypt, cellVars
    <2>2. \E p \in Process : \E to : Go(p, to) /\ to.at \notin Reading
      BY <1>2 DEF RefreshKeys, StampKeys, Fingerprint, Encrypt, Process, Reading, AtRest
    <2> QED
      BY <2>1, <2>2, GoLoaded, SameRoutes DEF IInv
  <1>3. ASSUME NEW p \in Process, Protect(p) PROVE ConfigsInv' /\ RoutesInv'
    <2>1. UNCHANGED <<accessVars, requests, cellVars>>
      BY <1>3, ProtectKeeps DEF IInv
    <2> QED
      BY <1>3, <2>1, ProtectLoaded, SameRoutes DEF IInv, cellVars
  <1>4. ASSUME NEW r \in Caller, RequestStep(r) PROVE ConfigsInv' /\ RoutesInv'
    <2>1. UNCHANGED Files
      BY <1>4 DEF RequestStep, Come, Choose, Pay, Resolve, Forget, Resolved, Answer, Cells
    <2> QED
      BY <1>4, <2>1, RequestRoutes, SameConfigs DEF Files, fileVars
  <1>5. ASSUME NEW s \in Command, GrowsOld(s) PROVE ConfigsInv' /\ RoutesInv'
    BY <1>5, SameConfigs, SameRoutes DEF GrowsOld, Ages, Files, fileVars
  <1> QED
    BY <1>1, <1>2, <1>3, <1>4, <1>5, <1>6 DEF Next, Watcher, Encrypter, Process, SecondPasses

\* Whatever rules a config has that was let through, and whatever they make of a request,
\* each of its candidates is billed to a project that has a key, if there are keys.
THEOREM RoutesPaid == Spec => []RoutesHaveKeys
  <1>1. IInv /\ ConfigsInv /\ RoutesInv /\ [Next]_vars => ConfigsInv' /\ RoutesInv'
    BY NextRoutesInv
  <1>2. RoutesInv => RoutesHaveKeys
    BY DEF RoutesInv, Routed, RoutesHaveKeys, Paid, HasKey, KeysOf, Now
  <1> QED
    BY <1>1, <1>2, InitRoutes, Inductive, PTL DEF Spec

------------------------------------------------------------------------------
\* The walk that validates the rules

\* Of numbers with a bound, the deepest is one of them, and no other is deeper.
LEMMA DeepestIs ==
  ASSUME NEW S \in SUBSET Nat, S # {}, NEW b \in Nat, \A k \in S : k <= b
  PROVE  Deepest(S) \in S /\ \A k \in S : k <= Deepest(S)
  <1> DEFINE Gaps == {b - k : k \in S}
  <1>1. Gaps \in SUBSET Nat /\ Gaps # {}
    <2>1. \A k \in S : b - k \in Nat
      OBVIOUS
    <2>2. PICK k \in S : TRUE
      OBVIOUS
    <2>3. b - k \in Gaps
      OBVIOUS
    <2> QED
      BY <2>1, <2>3
  <1> HIDE DEF Gaps
  <1>2. PICK gap \in Gaps : \A g \in Gaps : gap <= g
    BY <1>1, Least
  <1>3. PICK d \in S : gap = b - d
    BY <1>2 DEF Gaps
  <1>4. \A k \in S : k <= d
    BY <1>2, <1>3 DEF Gaps
  <1> QED
    BY <1>4 DEF Deepest

\* A model leads to another by a rule, and by a chain of k models.
Leads(rules, m, x) == \E t \in ToSet(rules[m]) : Plain[t] = x
Reached(rules, m, k) == \E s \in Chains(rules, k) : s[1] = m

LEMMA LeadsToModel ==
  ASSUME NEW rules \in [Model -> Seq(Name)], NEW m \in Model
  PROVE  /\ ToSet(rules[m]) \subseteq Name
         /\ \A x : Leads(rules, m, x) => x \in Model
  <1>1. ToSet(rules[m]) \subseteq Name
    BY ElementOfSeq, LenProperties DEF ToSet
  <1> QED
    BY <1>1, Names DEF Leads

\* A model is a chain, and a chain has one model more in front if that leads to it.
LEMMA ChainOfOne ==
  ASSUME NEW rules, NEW m \in Model
  PROVE  Reached(rules, m, 1)
  <1> DEFINE s == [i \in 1..1 |-> m]
  <1>1. s \in [1..1 -> Model] /\ s[1] = m /\ 1..(1 - 1) = {}
    OBVIOUS
  <1> HIDE DEF s
  <1> QED
    BY <1>1 DEF Chains, Reached

LEMMA ChainLonger ==
  ASSUME NEW rules, NEW m \in Model, NEW x, Leads(rules, m, x), NEW k \in Nat \ {0},
         Reached(rules, x, k)
  PROVE  Reached(rules, m, k + 1)
  <1>1. PICK s \in Chains(rules, k) : s[1] = x
    BY DEF Reached
  <1>2. /\ s \in [1..k -> Model]
        /\ \A i \in 1..(k - 1) : Leads(rules, s[i], s[i + 1])
    BY <1>1 DEF Chains, Leads
  <1> DEFINE z == [i \in 1..(k + 1) |-> IF i = 1 THEN m ELSE s[i - 1]]
  <1>3. z \in [1..(k + 1) -> Model] /\ z[1] = m
    BY <1>2
  <1>4. ASSUME NEW i \in 1..((k + 1) - 1) PROVE Leads(rules, z[i], z[i + 1])
    <2>1. CASE i = 1
      BY <1>1, <2>1
    <2>2. CASE i # 1
      <3>1. PICK j \in 1..(k - 1) : i = j + 1
        BY <2>2
      <3>2. z[i] = s[j] /\ z[i + 1] = s[j + 1]
        BY <3>1
      <3> QED
        BY <1>2, <3>2
    <2> QED
      BY <2>1, <2>2
  <1> HIDE DEF z
  <1> QED
    BY <1>3, <1>4 DEF Reached, Chains, Leads

\* And what is left of a chain without its first model is one.
LEMMA ChainShorter ==
  ASSUME NEW rules, NEW k \in Nat \ {0}, NEW s \in Chains(rules, k + 1)
  PROVE  s[1] \in Model /\ Leads(rules, s[1], s[2]) /\ Reached(rules, s[2], k)
  <1>1. /\ s \in [1..(k + 1) -> Model]
        /\ \A i \in 1..((k + 1) - 1) : Leads(rules, s[i], s[i + 1])
    BY DEF Chains, Leads
  <1>2. s[1] \in Model /\ Leads(rules, s[1], s[1 + 1])
    BY <1>1
  <1> DEFINE z == [i \in 1..k |-> s[i + 1]]
  <1>3. z \in [1..k -> Model] /\ z[1] = s[2]
    BY <1>1
  <1>4. \A i \in 1..(k - 1) : Leads(rules, z[i], z[i + 1])
    BY <1>1
  <1> HIDE DEF z
  <1>5. z \in Chains(rules, k)
    BY <1>3, <1>4 DEF Chains, Leads
  <1> QED
    BY <1>2, <1>3, <1>5 DEF Reached

\* The length and the end of a way.
LEMMA WayEnds ==
  \A way \in Way : way \in Seq(Model) /\ Len(way) \in Nat \ {0} /\ Last(way) \in Model
  BY LenProperties, EmptySeq, ElementOfSeq DEF Way, Last

\* A way, and one that is a model longer.
LEMMA WayIs ==
  ASSUME NEW way \in Way
  PROVE  /\ way \in Seq(Model) /\ Len(way) \in Nat \ {0} /\ Last(way) \in Model
         /\ way = [i \in 1..Len(way) |-> way[i]] /\ \A i \in 1..Len(way) : way[i] \in Model
         /\ \A x \in Model :
              /\ Append(way, x) \in Way /\ Len(Append(way, x)) = Len(way) + 1
              /\ Append(way, x)[Len(way) + 1] = x
              /\ \A i \in 1..Len(way) : Append(way, x)[i] = way[i]
              /\ Last(Append(way, x)) = x
  <1>1. way \in Seq(Model) /\ way # <<>>
    BY DEF Way
  <1>2. Len(way) \in Nat \ {0} /\ Last(way) \in Model
    BY WayEnds
  <1>3. ASSUME NEW x \in Model
        PROVE  /\ Append(way, x) \in Way /\ Len(Append(way, x)) = Len(way) + 1
               /\ Append(way, x)[Len(way) + 1] = x
               /\ \A i \in 1..Len(way) : Append(way, x)[i] = way[i]
               /\ Last(Append(way, x)) = x
    <2>1. /\ Append(way, x) \in Seq(Model) /\ Len(Append(way, x)) = Len(way) + 1
          /\ Append(way, x)[Len(way) + 1] = x
          /\ \A i \in 1..Len(way) : Append(way, x)[i] = way[i]
      BY <1>1, AppendProperties
    <2>2. Append(way, x) # <<>>
      BY <1>2, <2>1, EmptySeq
    <2> QED
      BY <2>1, <2>2 DEF Way, Last
  <1>4. way = [i \in 1..Len(way) |-> way[i]] /\ \A i \in 1..Len(way) : way[i] \in Model
    BY <1>1, LenProperties, ElementOfSeq
  <1> QED
    BY <1>1, <1>2, <1>3, <1>4

\* What the walk finds for a way, from what it has found for those that are longer.
DepthOf(rules, visit, way) ==
  IF Meets(way) \/ Len(way) > MaxAttempts THEN 0
  ELSE DepthFrom({visit[Append(way, Plain[t])] : t \in ToSet(rules[Last(way)])})
Walked(rules, visit) == \A way \in Way : visit[way] = DepthOf(rules, visit, way)

\* The same depths for longer ways give the same depth.
LEMMA DepthSame ==
  ASSUME NEW rules \in [Model -> Seq(Name)], NEW f, NEW g, NEW way \in Way,
         \A w \in Way : Len(w) = Len(way) + 1 => f[w] = g[w]
  PROVE  DepthOf(rules, f, way) = DepthOf(rules, g, way)
  <1>1. \A t \in ToSet(rules[Last(way)]) : Plain[t] \in Model
    BY WayIs, LeadsToModel, Names
  <1>2. \A t \in ToSet(rules[Last(way)]) : f[Append(way, Plain[t])] = g[Append(way, Plain[t])]
    BY <1>1, WayIs
  <1>3. {f[Append(way, Plain[t])] : t \in ToSet(rules[Last(way)])}
          = {g[Append(way, Plain[t])] : t \in ToSet(rules[Last(way)])}
    BY <1>2
  <1> QED
    BY <1>3 DEF DepthOf

\* The walk is well-defined: a way that is too long is not followed.
LEMMA WalkedExists ==
  ASSUME NEW rules \in [Model -> Seq(Name)]
  PROVE  \E visit : visit = [way \in Way |-> DepthOf(rules, visit, way)]
  <1> DEFINE Solved(f, n) == \A way \in Way : Len(way) > n => f[way] = DepthOf(rules, f, way)
             Levels == {n \in Nat : \E f : Solved(f, n)}
  <1>0. MaxAttempts \in Nat
    BY RoutingConstants
  <1>1. MaxAttempts \in Levels
    <2> DEFINE f == [way \in Way |-> 0]
    <2>1. \A way \in Way : f[way] = 0
      OBVIOUS
    <2> HIDE DEF f
    <2>2. Solved(f, MaxAttempts)
      BY <1>0, <2>1 DEF DepthOf
    <2> QED
      BY <1>0, <2>2
  <1>2. PICK n \in Levels : \A k \in Levels : n <= k
    <2> HIDE DEF Levels
    <2>1. Levels \in SUBSET Nat
      BY DEF Levels
    <2> QED
      BY <1>1, <2>1, Least
  <1>3. PICK f : Solved(f, n)
    BY <1>2
  <1>4. n = 0
    <2> SUFFICES ASSUME n # 0 PROVE FALSE
      OBVIOUS
    <2>0. n \in Nat /\ n - 1 \in Nat
      OBVIOUS
    <2> DEFINE g == [way \in Way |-> IF Len(way) > n THEN f[way] ELSE DepthOf(rules, f, way)]
    <2>1. \A way \in Way : g[way] = IF Len(way) > n THEN f[way] ELSE DepthOf(rules, f, way)
      OBVIOUS
    <2> HIDE DEF g
    <2>2. ASSUME NEW way \in Way, Len(way) > n - 1 PROVE g[way] = DepthOf(rules, g, way)
      <3>1. \A w \in Way : Len(w) = Len(way) + 1 => g[w] = f[w]
        BY <2>0, <2>1, <2>2, WayIs
      <3>2. DepthOf(rules, f, way) = DepthOf(rules, g, way)
        BY <3>1, DepthSame
      <3>3. g[way] = DepthOf(rules, f, way)
        BY <1>3, <2>1
      <3> QED
        BY <3>2, <3>3
    <2>3. n - 1 \in Levels
      BY <2>0, <2>2
    <2> QED
      BY <1>2, <2>0, <2>3
  <1> DEFINE visit == [way \in Way |-> f[way]]
  <1>5. \A way \in Way : visit[way] = f[way]
    OBVIOUS
  <1>6. \A way \in Way : f[way] = DepthOf(rules, visit, way)
    <2> TAKE way \in Way
    <2>1. f[way] = DepthOf(rules, f, way)
      BY <1>3, <1>4, WayIs
    <2> HIDE DEF visit
    <2> QED
      BY <1>5, <2>1, DepthSame
  <1>7. visit = [way \in Way |-> DepthOf(rules, visit, way)]
    <2> DEFINE z == [way \in Way |-> DepthOf(rules, visit, way)]
    <2> HIDE DEF z
    <2> SUFFICES visit = z
      BY DEF z
    <2>1. z = [way \in Way |-> z[way]] /\ \A way \in Way : z[way] = DepthOf(rules, visit, way)
      BY DEF z
    <2> QED
      BY <1>6, <2>1
  <1> HIDE DEF visit
  <1> QED
    BY <1>7

\* So the depths are those it finds.
LEMMA DepthsAre ==
  ASSUME NEW rules \in [Model -> Seq(Name)]
  PROVE  \E visit : Walked(rules, visit) /\ \A m \in Model : Depths(rules)[m] = visit[<<m>>]
  <1> DEFINE visit[way \in Way] ==
               IF Meets(way) \/ Len(way) > MaxAttempts THEN 0
               ELSE DepthFrom({visit[Append(way, Plain[t])] : t \in ToSet(rules[Last(way)])})
  <1>1. Depths(rules) = [m \in Model |-> visit[<<m>>]]
    BY DEF Depths
  <1>2. \E f : f = [way \in Way |->
               IF Meets(way) \/ Len(way) > MaxAttempts THEN 0
               ELSE DepthFrom({f[Append(way, Plain[t])] : t \in ToSet(rules[Last(way)])})]
    BY WalkedExists DEF DepthOf
  <1>3. visit = [way \in Way |->
               IF Meets(way) \/ Len(way) > MaxAttempts THEN 0
               ELSE DepthFrom({visit[Append(way, Plain[t])] : t \in ToSet(rules[Last(way)])})]
    BY <1>2 DEF visit
  <1> HIDE DEF visit
  <1>4. Walked(rules, visit)
    BY <1>3 DEF Walked, DepthOf
  <1> QED
    BY <1>1, <1>4

\* What a depth says: it is in its bounds, some chain is as long and none is longer.
Longest(rules, m, d) ==
  /\ d \in 1..MaxAttempts /\ Reached(rules, m, d)
  /\ \A k \in Nat \ {0} : Reached(rules, m, k) => k <= d

\* A depth other than 0 is the length of the longest chain.
LEMMA DepthsSound ==
  ASSUME NEW rules \in [Model -> Seq(Name)], NEW visit, Walked(rules, visit),
         NEW way \in Way, visit[way] # 0
  PROVE  Longest(rules, Last(way), visit[way])
  <1> DEFINE Bad == {w \in Way : visit[w] # 0 /\ ~Longest(rules, Last(w), visit[w])}
             Room(w) == MaxAttempts - Len(w)
             Rooms == {Room(w) : w \in Bad}
  <1>0. MaxAttempts \in Nat \ {0}
    BY RoutingConstants
  <1>1. ASSUME NEW w \in Bad
        PROVE  /\ w \in Way /\ visit[w] # 0 /\ ~Longest(rules, Last(w), visit[w])
               /\ ~Meets(w) /\ Len(w) <= MaxAttempts
               /\ Room(w) \in Nat
    <2>1. w \in Way /\ visit[w] # 0 /\ visit[w] = DepthOf(rules, visit, w)
      BY DEF Walked
    <2>2. ~Meets(w) /\ Len(w) <= MaxAttempts
      BY <2>1, <1>0, WayIs DEF DepthOf
    <2>3. Room(w) \in Nat
      BY <2>1, <2>2, <1>0, WayEnds
    <2>4. ~Longest(rules, Last(w), visit[w])
      OBVIOUS
    <2> HIDE DEF Bad, Room
    <2> QED
      BY <2>1, <2>2, <2>3, <2>4
  <1> SUFFICES ASSUME Bad # {} PROVE FALSE
    OBVIOUS
  <1>2. PICK w \in Bad : \A x \in Bad : Room(w) <= Room(x)
    <2>1. Rooms \in SUBSET Nat /\ Rooms # {}
      <3> HIDE DEF Bad, Room
      <3> QED
        BY <1>1
    <2>2. PICK n \in Rooms : \A k \in Rooms : n <= k
      <3> HIDE DEF Rooms
      <3> QED
        BY <2>1, Least
    <2> HIDE DEF Bad, Room
    <2> QED
      BY <2>2
  <1> DEFINE m == Last(w)
             targets == ToSet(rules[m])
             nexts == {visit[Append(w, Plain[t])] : t \in targets}
             D == Deepest({0} \cup nexts)
  <1>3. /\ w \in Way /\ m \in Model /\ Len(w) \in Nat /\ visit[w] # 0
        /\ ~Longest(rules, m, visit[w])
    BY <1>1, WayIs
  <1>4. /\ 0 \notin nexts /\ ~(D >= MaxAttempts) /\ visit[w] = 1 + D
    <2>1. visit[w] = DepthFrom(nexts)
      <3>1. visit[w] = DepthOf(rules, visit, w)
        BY <1>3 DEF Walked
      <3>2. ~Meets(w) /\ ~(Len(w) > MaxAttempts)
        BY <1>0, <1>1, <1>3
      <3> QED
        BY <3>1, <3>2 DEF DepthOf
    <2> HIDE DEF nexts
    <2> QED
      BY <1>3, <2>1 DEF DepthFrom
  <1>5. ASSUME NEW t \in targets
        PROVE  /\ Plain[t] \in Model /\ Leads(rules, m, Plain[t])
               /\ Longest(rules, Plain[t], visit[Append(w, Plain[t])])
    <2> DEFINE x == Plain[t]
               longer == Append(w, x)
    <2>1. x \in Model /\ Leads(rules, m, x)
      BY <1>3, LeadsToModel, Names DEF Leads
    <2>2. longer \in Way /\ Len(longer) = Len(w) + 1 /\ Last(longer) = x
      BY <1>3, <2>1, WayIs
    <2>3. visit[longer] # 0
      BY <1>4
    <2>4. longer \notin Bad
      <3>1. Room(longer) < Room(w)
        BY <1>0, <1>3, <2>2
      <3>2. Room(longer) \in Int /\ Room(w) \in Int
        BY <1>0, <1>3, <2>2
      <3> HIDE DEF Bad, Room, longer
      <3> QED
        BY <1>2, <3>1, <3>2
    <2> HIDE DEF longer, x
    <2>5. Longest(rules, x, visit[longer])
      BY <2>2, <2>3, <2>4
    <2> QED
      BY <2>1, <2>5 DEF longer, x
  <1>6. \A n \in nexts : \E x \in Model : Leads(rules, m, x) /\ Longest(rules, x, n)
    <2> HIDE DEF m
    <2> QED
      BY <1>5
  <1>7. \A x : Leads(rules, m, x) => \E n \in nexts : Longest(rules, x, n)
    <2> HIDE DEF m
    <2> QED
      BY <1>5 DEF Leads
  <1> HIDE DEF nexts, targets, Bad
  <1>8. /\ D \in {0} \cup nexts /\ \A n \in nexts : n <= D
        /\ D \in Nat /\ D < MaxAttempts
    <2>1. \A n \in {0} \cup nexts : n \in Nat /\ n <= MaxAttempts
      BY <1>0, <1>6 DEF Longest
    <2>2. ({0} \cup nexts) \in SUBSET Nat /\ {0} \cup nexts # {}
      BY <2>1
    <2>3. D \in {0} \cup nexts /\ \A n \in {0} \cup nexts : n <= D
      BY <1>0, <2>1, <2>2, DeepestIs
    <2> HIDE DEF D
    <2>4. D \in Nat
      BY <2>1, <2>3
    <2>5. D < MaxAttempts
      BY <1>0, <1>4, <2>4
    <2>6. \A n \in nexts : n <= D
      BY <2>3
    <2> QED
      BY <2>3, <2>4, <2>5, <2>6
  <1> HIDE DEF D
  <1>9. Reached(rules, m, 1 + D)
    <2>1. CASE D = 0
      BY <1>3, <2>1, ChainOfOne
    <2>2. CASE D # 0
      <3>1. PICK x \in Model : Leads(rules, m, x) /\ Longest(rules, x, D)
        BY <1>6, <1>8, <2>2
      <3>2. Reached(rules, m, D + 1)
        BY <1>3, <1>8, <2>2, <3>1, ChainLonger DEF Longest
      <3>3. D + 1 = 1 + D
        BY <1>8
      <3> QED
        BY <3>2, <3>3
    <2> QED
      BY <2>1, <2>2
  <1>10. ASSUME NEW k \in Nat \ {0}, Reached(rules, m, k) PROVE k <= 1 + D
    <2>1. CASE k = 1
      BY <1>8, <2>1
    <2>2. CASE k # 1
      <3>1. PICK j \in Nat \ {0} : k = j + 1
        <4>1. k - 1 \in Nat \ {0} /\ k = (k - 1) + 1
          BY <2>2
        <4> QED
          BY <4>1
      <3>2. PICK s \in Chains(rules, j + 1) : s[1] = m
        BY <1>10, <3>1 DEF Reached
      <3>3. Leads(rules, m, s[2]) /\ Reached(rules, s[2], j)
        BY <3>2, ChainShorter
      <3>4. PICK n \in nexts : Longest(rules, s[2], n)
        BY <1>7, <3>3
      <3>5. j <= n /\ n <= D /\ n \in Nat
        BY <1>0, <1>8, <3>3, <3>4 DEF Longest
      <3> QED
        BY <1>8, <3>1, <3>5
    <2> QED
      BY <2>1, <2>2
  <1>11. Longest(rules, m, 1 + D)
    BY <1>0, <1>8, <1>9, <1>10 DEF Longest
  <1> QED
    BY <1>3, <1>4, <1>11

\* From a model on a cycle chains of any length lead on.
LEMMA CycleReaches ==
  ASSUME NEW rules, NEW S \in SUBSET Model,
         \A m \in S : \E x \in S : Leads(rules, m, x)
  PROVE  \A k \in Nat \ {0} : \A m \in S : Reached(rules, m, k)
  <1> DEFINE Short == {k \in Nat \ {0} : \E m \in S : ~Reached(rules, m, k)}
  <1> SUFFICES ASSUME Short # {} PROVE FALSE
    OBVIOUS
  <1>1. PICK k \in Short : \A j \in Short : k <= j
    <2>1. Short \in SUBSET Nat
      OBVIOUS
    <2> HIDE DEF Short
    <2> QED
      BY <2>1, Least
  <1>2. PICK m \in S : ~Reached(rules, m, k)
    BY <1>1
  <1>3. k \in Nat \ {0} /\ k # 1
    BY <1>2, ChainOfOne
  <1>4. PICK j \in Nat \ {0} : k = j + 1
    <2>1. k - 1 \in Nat \ {0} /\ k = (k - 1) + 1
      BY <1>3
    <2> QED
      BY <2>1
  <1>5. PICK x \in S : Leads(rules, m, x)
    OBVIOUS
  <1>6. Reached(rules, x, j)
    <2>1. j \notin Short
      <3> HIDE DEF Short
      <3> QED
        BY <1>1, <1>4
    <2> QED
      BY <2>1
  <1> QED
    BY <1>2, <1>4, <1>5, <1>6, ChainLonger

\* A way along rules that is refused is a chain that is too long, or leads to one.
IsChain(rules, way) ==
  \A i \in 1..(Len(way) - 1) : Leads(rules, way[i], way[i + 1])
TooLong(rules) == Chains(rules, MaxAttempts + 1) # {}

LEMMA CyclesAreEndless ==
  ASSUME NEW rules, NEW way \in Way, IsChain(rules, way), Meets(way)
  PROVE  TooLong(rules)
  <1> DEFINE n == Len(way)
  <1>1. /\ n \in Nat \ {0} /\ \A i \in 1..n : way[i] \in Model
        /\ way \in Seq(Model) /\ Last(way) = way[n]
    BY WayIs DEF Last
  <1>2. PICK j \in 1..(n - 1) : way[j] = way[n]
    <2>1. \A i \in 1..(n - 1) : way[i] \in Model
      BY <1>1
    <2>2. /\ Front(way) \in Seq(Model)
          /\ Len(Front(way)) = IF 1 <= n - 1 THEN n - 1 - 1 + 1 ELSE 0
          /\ \A i \in 1..(n - 1 - 1 + 1) : Front(way)[i] = way[1 + i - 1]
      BY <1>1, <2>1, SubSeqProperties DEF Front
    <2>3. DOMAIN Front(way) = 1..(n - 1)
      BY <1>1, <2>2, LenProperties
    <2>4. PICK i \in 1..(n - 1) : Front(way)[i] = way[n]
      BY <1>1, <2>3 DEF Meets, ToSet
    <2>5. Front(way)[i] = way[i]
      BY <1>1, <2>2
    <2> QED
      BY <2>4, <2>5
  <1> DEFINE S == {way[i] : i \in j..(n - 1)}
  <1>3. S \in SUBSET Model /\ way[j] \in S
    BY <1>1, <1>2
  <1>4. ASSUME NEW i \in j..(n - 1) PROVE \E x \in S : Leads(rules, way[i], x)
    <2>1. Leads(rules, way[i], way[i + 1])
      BY <1>1, <1>2 DEF IsChain
    <2>2. way[i + 1] \in S
      <3>1. CASE i = n - 1
        BY <1>1, <1>2, <1>3, <3>1
      <3>2. CASE i # n - 1
        BY <1>1, <1>2, <3>2
      <3> QED
        BY <3>1, <3>2
    <2> QED
      BY <2>1, <2>2
  <1>5. \A m \in S : \E x \in S : Leads(rules, m, x)
    BY <1>4
  <1> HIDE DEF S
  <1>6. MaxAttempts + 1 \in Nat \ {0}
    BY RoutingConstants
  <1>7. Reached(rules, way[j], MaxAttempts + 1)
    BY <1>3, <1>5, <1>6, CycleReaches
  <1> QED
    BY <1>7 DEF Reached, TooLong

\* A depth of 0 has its reason in a chain that is too long.
LEMMA DepthsComplete ==
  ASSUME NEW rules \in [Model -> Seq(Name)], NEW visit, Walked(rules, visit),
         NEW way \in Way, IsChain(rules, way), Len(way) <= MaxAttempts + 1, visit[way] = 0
  PROVE  TooLong(rules)
  <1> DEFINE Bad == {w \in Way : /\ IsChain(rules, w) /\ Len(w) <= MaxAttempts + 1
                                 /\ visit[w] = 0}
             Room(w) == MaxAttempts + 1 - Len(w)
             Rooms == {Room(w) : w \in Bad}
  <1> SUFFICES ASSUME ~TooLong(rules) PROVE FALSE
    OBVIOUS
  <1>0. MaxAttempts \in Nat \ {0}
    BY RoutingConstants
  <1>1. PICK w \in Bad : \A x \in Bad : Room(w) <= Room(x)
    <2>1. Rooms \in SUBSET Nat
      <3>1. \A x \in Bad : x \in Way /\ Len(x) <= MaxAttempts + 1
        OBVIOUS
      <3>2. \A x \in Bad : MaxAttempts + 1 - Len(x) \in Nat
        BY <1>0, <3>1, WayEnds
      <3> HIDE DEF Bad
      <3> QED
        BY <3>2
    <2>2. Rooms # {}
      <3>1. way \in Bad
        OBVIOUS
      <3> HIDE DEF Bad, Room
      <3> QED
        BY <3>1
    <2>3. PICK n \in Rooms : \A k \in Rooms : n <= k
      <3> HIDE DEF Rooms
      <3> QED
        BY <2>1, <2>2, Least
    <2> HIDE DEF Bad, Room
    <2> QED
      BY <2>3
  <1>2. /\ w \in Way /\ Len(w) \in Nat \ {0} /\ Last(w) \in Model
        /\ IsChain(rules, w) /\ Len(w) <= MaxAttempts + 1 /\ visit[w] = 0
    BY WayIs
  <1>3. ~Meets(w)
    BY <1>2, CyclesAreEndless
  <1>4. Len(w) <= MaxAttempts
    <2> SUFFICES ASSUME Len(w) = MaxAttempts + 1 PROVE FALSE
      BY <1>0, <1>2
    <2>1. w \in [1..(MaxAttempts + 1) -> Model]
      BY <1>2, WayIs
    <2>2. w \in Chains(rules, MaxAttempts + 1)
      BY <1>2, <2>1 DEF Chains, IsChain, Leads
    <2> QED
      BY <2>2 DEF TooLong
  <1> DEFINE m == Last(w)
             targets == ToSet(rules[m])
             nexts == {visit[Append(w, Plain[t])] : t \in targets}
             D == Deepest({0} \cup nexts)
  <1>5. visit[w] = DepthFrom(nexts)
    <2>1. visit[w] = DepthOf(rules, visit, w)
      BY <1>2 DEF Walked
    <2> QED
      BY <1>0, <1>2, <1>3, <1>4, <2>1 DEF DepthOf
  <1>6. ASSUME NEW t \in targets
        PROVE  /\ Plain[t] \in Model /\ Leads(rules, m, Plain[t])
               /\ Longest(rules, Plain[t], visit[Append(w, Plain[t])])
    <2> DEFINE x == Plain[t]
               longer == Append(w, x)
    <2>1. x \in Model /\ Leads(rules, m, x)
      BY <1>2, LeadsToModel, Names DEF Leads
    <2>2. /\ longer \in Way /\ Len(longer) = Len(w) + 1 /\ Last(longer) = x
          /\ longer[Len(w) + 1] = x /\ \A i \in 1..Len(w) : longer[i] = w[i]
      BY <1>2, <2>1, WayIs
    <2> HIDE DEF longer, x
    <2>3. IsChain(rules, longer)
      <3>1. Leads(rules, w[Len(w)], x)
        BY <2>1 DEF Last
      <3>2. ASSUME NEW i \in 1..(Len(longer) - 1) PROVE Leads(rules, longer[i], longer[i + 1])
        <4>1. CASE i = Len(w)
          BY <1>2, <2>2, <3>1, <4>1
        <4>2. CASE i # Len(w)
          <5>1. i \in 1..(Len(w) - 1) /\ i \in 1..Len(w) /\ i + 1 \in 1..Len(w)
            BY <1>2, <2>2, <4>2
          <5>2. Leads(rules, w[i], w[i + 1])
            BY <1>2, <5>1 DEF IsChain
          <5> QED
            BY <2>2, <5>1, <5>2
        <4> QED
          BY <4>1, <4>2
      <3> QED
        BY <3>2 DEF IsChain
    <2>4. longer \notin Bad
      <3>1. Room(longer) < Room(w) /\ Room(longer) \in Int /\ Room(w) \in Int
        BY <1>0, <1>2, <2>2
      <3> HIDE DEF Bad, Room
      <3> QED
        BY <1>1, <3>1
    <2>5. visit[longer] # 0
      BY <1>0, <1>2, <1>4, <2>2, <2>3, <2>4
    <2>6. Longest(rules, x, visit[longer])
      BY <2>2, <2>5, DepthsSound
    <2> QED
      BY <2>1, <2>6 DEF longer, x
  <1>7. \A n \in nexts : \E x \in Model : Leads(rules, m, x) /\ Longest(rules, x, n)
    <2> HIDE DEF m
    <2> QED
      BY <1>6
  <1> HIDE DEF nexts, targets, Bad, m
  <1>8. D \in {0} \cup nexts /\ D \in Nat
    <2>1. \A n \in {0} \cup nexts : n \in Nat /\ n <= MaxAttempts
      BY <1>0, <1>7 DEF Longest
    <2>2. ({0} \cup nexts) \in SUBSET Nat /\ {0} \cup nexts # {}
      BY <2>1
    <2>3. D \in {0} \cup nexts
      BY <1>0, <2>1, <2>2, DeepestIs
    <2> HIDE DEF D
    <2> QED
      BY <2>1, <2>3
  <1>9. 0 \notin nexts
    BY <1>7 DEF Longest
  <1>10. ~(D >= MaxAttempts)
    <2> SUFFICES ASSUME D >= MaxAttempts PROVE FALSE
      OBVIOUS
    <2> HIDE DEF D
    <2>1. D # 0
      BY <1>0, <1>8
    <2>2. PICK x \in Model : Leads(rules, m, x) /\ Longest(rules, x, D)
      BY <1>7, <1>8, <2>1
    <2>3. D = MaxAttempts /\ Reached(rules, x, D)
      BY <1>0, <1>8, <2>2 DEF Longest
    <2>4. m \in Model
      BY <1>2 DEF m
    <2>5. Reached(rules, m, MaxAttempts + 1)
      BY <1>0, <2>2, <2>3, <2>4, ChainLonger
    <2> QED
      BY <2>5 DEF Reached, TooLong
  <1>11. visit[w] = 1 + D
    BY <1>5, <1>9, <1>10 DEF DepthFrom
  <1> HIDE DEF D
  <1> QED
    BY <1>2, <1>8, <1>11

\* A config's rules are let through just when no chain is too long: with more than
\* MaxAttempts models, or, since a cycle has such chains, without an end.
LEMMA ValidRulesAre ==
  ASSUME NEW rules \in [Model -> Seq(Name)]
  PROVE  /\ ValidRules(rules) => ~TooLong(rules)
         /\ ~ValidRules(rules) => TooLong(rules) \/ \E m \in Model : Crowded(rules[m])
  <1>0. MaxAttempts \in Nat \ {0}
    BY RoutingConstants
  <1>1. PICK visit : Walked(rules, visit) /\ \A m \in Model : Depths(rules)[m] = visit[<<m>>]
    BY DepthsAre
  <1>2. ASSUME NEW m \in Model
        PROVE  /\ <<m>> \in Way /\ Len(<<m>>) = 1 /\ Last(<<m>>) = m
               /\ IsChain(rules, <<m>>)
    <2>1. <<m>> \in Seq(Model) /\ Len(<<m>>) = 1 /\ <<m>>[1] = m
      OBVIOUS
    <2>2. <<m>> # <<>>
      BY <2>1
    <2> QED
      BY <2>1, <2>2 DEF Way, Last, IsChain
  <1>3. ASSUME ValidRules(rules), TooLong(rules) PROVE FALSE
    <2>1. PICK s \in Chains(rules, MaxAttempts + 1) : TRUE
      BY <1>3 DEF TooLong
    <2> DEFINE m == s[1]
    <2>2. m \in Model /\ Leads(rules, m, s[2]) /\ Reached(rules, m, MaxAttempts + 1)
      BY <1>0, <2>1, ChainShorter DEF Reached
    <2> HIDE DEF m
    <2>3. rules[m] # <<>>
      BY <2>2 DEF Leads, ToSet
    <2>4. visit[<<m>>] # 0
      BY <1>1, <1>3, <2>2, <2>3 DEF ValidRules
    <2>5. Longest(rules, m, visit[<<m>>])
      BY <1>1, <1>2, <2>2, <2>4, DepthsSound
    <2> QED
      BY <1>0, <2>2, <2>5 DEF Longest
  <1>4. ASSUME ~ValidRules(rules), ~TooLong(rules), \A m \in Model : ~Crowded(rules[m])
        PROVE  FALSE
    <2>1. ASSUME NEW m \in Model, rules[m] # <<>> PROVE Depths(rules)[m] # 0
      <3>1. visit[<<m>>] # 0
        <4>1. Len(<<m>>) <= MaxAttempts + 1
          BY <1>0, <1>2
        <4> QED
          BY <1>1, <1>2, <1>4, <4>1, DepthsComplete
      <3> QED
        BY <1>1, <3>1
    <2>2. ASSUME NEW m \in Model
          PROVE  /\ Len(rules[m]) < MaxAttempts
                 /\ IsInjective([i \in DOMAIN rules[m] |-> Plain[rules[m][i]]])
      <3>1. Len(rules[m]) \in Nat
        BY LenProperties
      <3>2. Len(rules[m]) < MaxAttempts
        BY <1>0, <1>4, <3>1 DEF Crowded
      <3>3. \A j, k \in DOMAIN rules[m] : j # k => Plain[rules[m][j]] # Plain[rules[m][k]]
        BY <1>4 DEF Crowded
      <3> QED
        BY <3>2, <3>3 DEF IsInjective
    <2> QED
      BY <1>4, <2>1, <2>2 DEF ValidRules
  <1> QED
    BY <1>3, <1>4

------------------------------------------------------------------------------
\* Configs that are refused

\* A config that is let through has an end, and one that is not has a fault of its own.
LEMMA ValidEnds ==
  ASSUME NEW i \in Config
  PROVE  /\ Valid(Cfg[i]) => i \notin Endless
         /\ ~Valid(Cfg[i]) => i \in Endless \/ AtFault(Cfg[i])
  <1> DEFINE c == Cfg[i]
  <1>1. c.rules \in [Model -> Seq(Name)]
    BY ServiceConstants DEF IsConfig
  <1>2. i \in Endless <=> TooLong(c.rules)
    BY DEF Endless, TooLong
  <1>3. ASSUME Valid(c), TooLong(c.rules) PROVE FALSE
    <2>1. CASE c.mode = "client"
      <3>1. c.rules = NoRules
        BY <1>3, <2>1 DEF Valid, ValidMode
      <3>2. PICK s \in Chains(c.rules, MaxAttempts + 1) : TRUE
        BY <1>3 DEF TooLong
      <3>3. s[1] \in Model /\ Leads(c.rules, s[1], s[2])
        BY <3>2, ChainShorter, RoutingConstants
      <3> QED
        BY <3>1, <3>3 DEF NoRules, Leads, ToSet
    <2>2. CASE c.mode # "client"
      BY <1>1, <1>3, <2>2, ValidRulesAre DEF Valid
    <2> QED
      BY <2>1, <2>2
  <1>4. ASSUME ~Valid(c) PROVE TooLong(c.rules) \/ AtFault(c)
    <2>1. \/ ~c.sane \/ ~ValidMode(c) \/ ~ValidHosts(c.hosts) \/ ~ValidProjects(c)
          \/ ~ValidRules(c.rules)
      BY <1>4 DEF Valid
    <2>2. ~ValidRules(c.rules) => TooLong(c.rules) \/ \E m \in Model : Crowded(c.rules[m])
      BY <1>1, ValidRulesAre
    <2> HIDE DEF c
    <2> QED
      BY <2>1, <2>2 DEF AtFault
  <1> QED
    BY <1>2, <1>3, <1>4

\* A fault of a config, given the one in force.
Faulty(i) == i \in Garbled \cup Endless \/ AtFault(Cfg[i])

\* While the file keeps the fingerprint a round began with, what the round has read of it
\* is what is there.
Fresh(w) ==
  /\ w.at \in {"load"} \cup Reading => w.stamp \in Nat /\ w.stamp <= file.stamp
  /\ w.at \in Reading /\ w.stamp = file.stamp => w.config = file.config
  /\ w.at = "compare" /\ w.stamp = file.stamp => w.plain = file.plain

\* What was refused and is still there has a fault.
Refusal == outcome = "refused" =>
  /\ seen \in Nat /\ seen <= file.stamp
  /\ seen = file.stamp => Faulty(file.config)

FaultsInv ==
  /\ file.config \in Config /\ "others" \in DOMAIN left /\ left.others \subseteq Config
  /\ Fresh(process["watcher"]) /\ Refusal

\* It holds initially.
LEMMA InitFaults == Init => FaultsInv
  <1> SUFFICES ASSUME Init PROVE FaultsInv
    OBVIOUS
  <1>1. PICK s \in Starts : file.config = s.config /\ left = s.left
    BY DEF Init
  <1>2. process["watcher"].at = "rest" /\ outcome = "taken"
    BY DEF Init, Process, AtRest
  <1> QED
    BY <1>1, <1>2, ServiceConstants DEF FaultsInv, Fresh, Refusal, Reading

\* The faults of a config change only with the mode of the one in force.
LEMMA FaultyStays ==
  ASSUME Cfg[inForce'].mode = Cfg[inForce].mode, NEW i
  PROVE  Faulty(i)' <=> Faulty(i)
  BY DEF Faulty, AtFault

\* The mode of the config in force stays.
LEMMA ModeStays ==
  ASSUME NEW p, NEW how, NEW c, Finishes(p, how, c)
  PROVE  Cfg[inForce'].mode = Cfg[inForce].mode
  BY DEF Finishes

\* What is left to write stays what it was.
LEMMA OthersStay ==
  ASSUME FaultsInv, NEW what, what # "others", Spend(what) \/ UNCHANGED left
  PROVE  "others" \in DOMAIN left' /\ left'.others \subseteq Config
  BY DEF FaultsInv, Spend

\* A write to the file: whatever was read or refused is of an older one.
LEMMA WriteFaults ==
  ASSUME FilesInv, FaultsInv, file'.stamp = file.stamp + 1, file'.config \in Config,
         "others" \in DOMAIN left' /\ left'.others \subseteq Config,
         process'["watcher"] = process["watcher"] \/ process'["watcher"] = AtRest,
         outcome' = "refused" => seen' \in Nat /\ seen' <= file.stamp
  PROVE  FaultsInv'
  <1>1. file.stamp \in Nat
    BY DEF FilesInv
  <1>2. Refusal'
    BY <1>1 DEF Refusal
  <1>3. Fresh(process["watcher"])'
    <2>1. CASE process'["watcher"] = AtRest
      BY <2>1 DEF Fresh, Reading, AtRest
    <2>2. CASE process'["watcher"] = process["watcher"]
      <3> DEFINE w == process["watcher"]
      <3>1. w.at \in {"load"} \cup Reading => w.stamp \in Nat /\ w.stamp <= file.stamp
        BY DEF FaultsInv, Fresh
      <3>2. /\ w.at \in {"load"} \cup Reading => w.stamp \in Nat /\ w.stamp <= file'.stamp
            /\ w.at \in Reading => w.stamp # file'.stamp
        BY <1>1, <3>1
      <3>3. w.at = "compare" => w.at \in Reading
        BY DEF Reading
      <3> QED
        BY <2>2, <3>2, <3>3 DEF Fresh
    <2> QED
      BY <2>1, <2>2
  <1> QED
    BY <1>2, <1>3 DEF FaultsInv

\* A step that leaves the file alone.
LEMMA FileStays ==
  ASSUME FaultsInv, UNCHANGED file, Cfg[inForce'].mode = Cfg[inForce].mode,
         "others" \in DOMAIN left' /\ left'.others \subseteq Config,
         Fresh(process'["watcher"]),
         \/ UNCHANGED <<outcome, seen>>
         \/ outcome' = "refused" => /\ seen' \in Nat /\ seen' <= file.stamp
                                    /\ seen' = file.stamp => Faulty(file.config)
  PROVE  FaultsInv'
  <1>1. Fresh(process["watcher"])'
    BY DEF Fresh
  <1>2. Faulty(file.config) => Faulty(file.config)'
    BY FaultyStays
  <1>3. Refusal'
    BY <1>2 DEF Refusal, FaultsInv
  <1> QED
    BY <1>1, <1>3 DEF FaultsInv

\* The end of the watcher's round.
LEMMA FinishesFaults ==
  ASSUME IInv, FaultsInv, UNCHANGED file, Spend("faults") \/ UNCHANGED left,
         NEW how, NEW c, Finishes("watcher", how, c),
         process["watcher"].at \in {"load"} \cup Reading,
         /\ process["watcher"].stamp = file.stamp /\ how \notin {"busy", "failed"}
         /\ how = "taken" => Cfg[c].mode # Cfg[inForce].mode
         => Faulty(file.config)
  PROVE  FaultsInv'
  <1> DEFINE w == process["watcher"]
  <1>1. /\ process' = [process EXCEPT !["watcher"] = AtRest] /\ seen' = w.stamp
        /\ outcome' = "refused" => /\ how \notin {"busy", "failed"}
                                   /\ how = "taken" => Cfg[c].mode # Cfg[inForce].mode
    BY DEF Finishes, Go, Handled
  <1>2. process'["watcher"] = AtRest
    BY <1>1 DEF IInv, FilesInv, Process
  <1>3. Fresh(process'["watcher"])
    BY <1>2 DEF Fresh, Reading, AtRest
  <1>4. w.stamp \in Nat /\ w.stamp <= file.stamp
    BY DEF FaultsInv, Fresh
  <1>5. Cfg[inForce'].mode = Cfg[inForce].mode
    BY ModeStays
  <1>6. "others" \in DOMAIN left' /\ left'.others \subseteq Config
    BY OthersStay
  <1> QED
    BY <1>1, <1>3, <1>4, <1>5, <1>6, FileStays

\* The watcher goes on with what it has read of the file.
LEMMA GoFaults ==
  ASSUME IInv, FaultsInv, UNCHANGED <<file, inForce, outcome, seen>>,
         Spend("faults") \/ UNCHANGED left, NEW to, Go("watcher", to), Fresh(to)
  PROVE  FaultsInv'
  <1>1. process'["watcher"] = to
    BY DEF Go, IInv, FilesInv, Process
  <1>2. "others" \in DOMAIN left' /\ left'.others \subseteq Config
    BY OthersStay
  <1> QED
    BY <1>1, <1>2, FileStays

\* What becomes of what is left.
LEMMA ProtectSpends ==
  ASSUME NEW p, Protect(p)
  PROVE  Spend("faults") \/ UNCHANGED left
  BY DEF Protect, Load, Inspect, Lock, ReadOriginal, Compare, Replace, Breaks, Others

\* The other process does nothing that concerns the watcher but replace the file.
LEMMA EncrypterFaults ==
  ASSUME IInv, ConfigsInv, FaultsInv, Protect("encrypter")
  PROVE  FaultsInv'
  <1> DEFINE p == "encrypter"
  <1>1. \A x \in Process : process[x].at \in Reading => Loaded(process[x].config)
    BY DEF ConfigsInv
  <1>0. Spend("faults") \/ UNCHANGED left
    BY ProtectSpends
  <1>2. UNCHANGED <<inForce, outcome, seen>> /\ \E to : Go(p, to)
    BY DEF Protect, Load, Inspect, Lock, ReadOriginal, Compare, Replace, Breaks, Finishes
  <1>3. process'["watcher"] = process["watcher"]
    BY <1>2 DEF Go, IInv, FilesInv, Process
  <1>4. "others" \in DOMAIN left' /\ left'.others \subseteq Config
    BY <1>0, OthersStay
  <1>5. CASE process[p].at = "replace" /\ file' = Encrypted(process[p])
    <2>1. process[p].at = "replace" /\ process[p].config \in Config
      BY <1>1, <1>5 DEF Reading, Process, Loaded
    <2>2. file' = [config |-> process[p].config, plain |-> FALSE, stamp |-> file.stamp + 1]
      BY <1>5 DEF Encrypted
    <2>3. outcome' = "refused" => seen' \in Nat /\ seen' <= file.stamp
      BY <1>2 DEF FaultsInv, Refusal
    <2> QED
      BY <1>3, <1>4, <2>1, <2>2, <2>3, WriteFaults DEF IInv
  <1>6. CASE UNCHANGED file
    <2>1. Fresh(process'["watcher"])
      BY <1>3 DEF FaultsInv
    <2> QED
      BY <1>2, <1>4, <1>6, <2>1, FileStays
  <1> QED
    BY <1>5, <1>6 DEF Protect, Load, Inspect, Lock, ReadOriginal, Compare, Replace, Breaks

\* The watcher refuses a config only for a fault.
LEMMA WatcherFaults ==
  ASSUME IInv, ConfigsInv, FaultsInv, Protect("watcher")
  PROVE  FaultsInv'
  <1> DEFINE w == process["watcher"]
  <1>0. /\ "watcher" \in Process /\ (Spend("faults") \/ UNCHANGED left)
        /\ file.config \in Config /\ "at" \in DOMAIN w
    BY ProtectSpends DEF IInv, FilesInv, Process, FaultsInv
  <1>1. /\ w.at \in {"load"} \cup Reading => w.stamp \in Nat /\ w.stamp <= file.stamp
        /\ w.at \in Reading /\ w.stamp = file.stamp => w.config = file.config
        /\ w.at = "compare" /\ w.stamp = file.stamp => w.plain = file.plain
        /\ w.at \in Reading => Loaded(w.config)
    BY <1>0 DEF FaultsInv, Fresh, ConfigsInv
  <1>2. file.config \notin Loads => Faulty(file.config)
    BY <1>0, ValidEnds DEF Loads, Faulty
  <1>3. \A c : c = file.config /\ Cfg[c].mode # Cfg[inForce].mode => Faulty(file.config)
    BY DEF Faulty, AtFault
  <1>4. CASE Load("watcher")
    <2>1. w.at = "load" /\ UNCHANGED file
      BY <1>4 DEF Load
    <2> DEFINE to == [at |-> "inspect", stamp |-> w.stamp, config |-> file.config]
    <2>2. CASE file.config \in Loads
      <3>1. Go("watcher", to) /\ UNCHANGED <<inForce, outcome, seen>>
        BY <1>4, <2>2 DEF Load
      <3>2. Fresh(to)
        BY <1>1, <2>1 DEF Fresh
      <3> HIDE DEF to
      <3> QED
        BY <1>0, <2>1, <3>1, <3>2, GoFaults
    <2>3. CASE file.config \notin Loads
      BY <1>0, <1>2, <1>4, <2>1, <2>3, FinishesFaults DEF Load
    <2> QED
      BY <2>2, <2>3
  <1>5. CASE Inspect("watcher")
    <2>1. w.at = "inspect" /\ w.at \in Reading /\ UNCHANGED file
      BY <1>5 DEF Inspect, Reading
    <2>2. CASE file.config \in Garbled
      BY <1>0, <1>5, <2>1, <2>2, FinishesFaults DEF Inspect, Faulty
    <2>3. CASE file.config \notin Garbled /\ ~file.plain
      <3>1. Finishes("watcher", "taken", w.config)
        BY <1>5, <2>3 DEF Inspect
      <3> QED
        BY <1>0, <1>1, <1>3, <2>1, <3>1, FinishesFaults
    <2>4. CASE file.config \notin Garbled /\ file.plain
      <3> DEFINE to == [w EXCEPT !.at = "lock"]
      <3>1. Go("watcher", to) /\ UNCHANGED <<inForce, outcome, seen>>
        BY <1>5, <2>4 DEF Inspect
      <3>2. to.at = "lock" /\ to.stamp = w.stamp /\ to.config = w.config
        BY <1>0
      <3> HIDE DEF to
      <3>3. Fresh(to)
        BY <1>1, <2>1, <3>2 DEF Fresh
      <3> QED
        BY <1>0, <2>1, <3>1, <3>3, GoFaults
    <2> QED
      BY <2>2, <2>3, <2>4
  <1>6. CASE Lock("watcher")
    <2>1. w.at = "lock" /\ w.at \in Reading /\ UNCHANGED file
      BY <1>6 DEF Lock, Reading
    <2>2. CASE lock = "free"
      <3> DEFINE to == [w EXCEPT !.at = "read"]
      <3>1. Go("watcher", to) /\ UNCHANGED <<inForce, outcome, seen>>
        BY <1>6, <2>2 DEF Lock
      <3>2. to.at = "read" /\ to.stamp = w.stamp /\ to.config = w.config
        BY <1>0
      <3> HIDE DEF to
      <3>3. Fresh(to)
        BY <1>1, <2>1, <3>2 DEF Fresh
      <3> QED
        BY <1>0, <2>1, <3>1, <3>3, GoFaults
    <2>3. CASE lock # "free"
      <3>1. Finishes("watcher", "busy", w.config)
        BY <1>6, <2>3 DEF Lock
      <3> QED
        BY <1>0, <2>1, <3>1, FinishesFaults
    <2> QED
      BY <2>2, <2>3
  <1>7. CASE ReadOriginal("watcher")
    <2>1. w.at = "read" /\ w.at \in Reading /\ UNCHANGED file
      BY <1>7 DEF ReadOriginal, Reading
    <2> DEFINE to == [at |-> "compare", stamp |-> w.stamp, config |-> file.config,
                      plain |-> file.plain]
    <2>2. CASE file.config \in Loads
      <3>1. Go("watcher", to) /\ UNCHANGED <<inForce, outcome, seen>>
        BY <1>7, <2>2 DEF ReadOriginal
      <3>2. Fresh(to)
        BY <1>1, <2>1 DEF Fresh
      <3> HIDE DEF to
      <3> QED
        BY <1>0, <2>1, <3>1, <3>2, GoFaults
    <2>3. CASE file.config \notin Loads
      <3>1. Finishes("watcher", "refused", file.config)
        BY <1>7, <2>3 DEF ReadOriginal
      <3> QED
        BY <1>0, <1>2, <2>1, <2>3, <3>1, FinishesFaults
    <2> QED
      BY <2>2, <2>3
  <1>8. CASE Compare("watcher")
    <2>1. w.at = "compare" /\ w.at \in Reading /\ UNCHANGED file
      BY <1>8 DEF Compare, Reading
    <2> DEFINE to == [at |-> "replace", stamp |-> w.stamp, config |-> w.config,
                      plain |-> w.plain, compared |-> file.stamp]
    <2>2. CASE IsOriginal(w)
      <3>1. Go("watcher", to) /\ UNCHANGED <<inForce, outcome, seen>>
        BY <1>8, <2>2 DEF Compare
      <3>2. Fresh(to)
        BY <1>1, <2>1 DEF Fresh
      <3> HIDE DEF to
      <3> QED
        BY <1>0, <2>1, <3>1, <3>2, GoFaults
    <2>3. CASE ~IsOriginal(w)
      <3>1. Finishes("watcher", "refused", w.config)
        BY <1>8, <2>3 DEF Compare
      <3>2. w.stamp # file.stamp
        BY <1>1, <2>1, <2>3 DEF IsOriginal
      <3> QED
        BY <1>0, <2>1, <3>1, <3>2, FinishesFaults
    <2> QED
      BY <2>2, <2>3
  <1>9. ASSUME NEW how, NEW c, Finishes("watcher", how, c), w.at = "replace",
               file' = Encrypted(w)
        PROVE  FaultsInv'
    <2>1. w.at = "replace" /\ w.at \in Reading
      BY <1>9 DEF Reading
    <2>2. file' = [config |-> w.config, plain |-> FALSE, stamp |-> file.stamp + 1]
      BY <1>9 DEF Encrypted
    <2>3. Finishes("watcher", how, c)
      BY <1>9
    <2>4. seen' = w.stamp /\ process' = [process EXCEPT !["watcher"] = AtRest]
      BY <2>3 DEF Finishes, Go, Handled
    <2>5. process'["watcher"] = AtRest
      BY <2>4 DEF IInv, FilesInv, Process
    <2>6. "others" \in DOMAIN left' /\ left'.others \subseteq Config
      BY <1>0, OthersStay
    <2>7. file'.stamp = file.stamp + 1 /\ file'.config \in Config
      BY <1>1, <2>1, <2>2 DEF Loaded
    <2>8. outcome' = "refused" => seen' \in Nat /\ seen' <= file.stamp
      BY <1>1, <2>1, <2>4
    <2> QED
      BY <2>5, <2>6, <2>7, <2>8, WriteFaults DEF IInv
  <1>10. CASE Replace("watcher")
    BY <1>9, <1>10 DEF Replace
  <1>11. CASE Breaks("watcher")
    <2>1. w.at \in {"load"} \cup Reading /\ Finishes("watcher", "failed", file.config)
      BY <1>11 DEF Breaks, Reading
    <2>2. CASE UNCHANGED file
      BY <1>0, <2>1, <2>2, FinishesFaults
    <2>3. CASE w.at = "replace" /\ file' = Encrypted(w)
      BY <1>9, <2>1, <2>3
    <2> QED
      BY <1>11, <2>2, <2>3 DEF Breaks
  <1> QED
    BY <1>4, <1>5, <1>6, <1>7, <1>8, <1>10, <1>11 DEF Protect

\* One step of the system, by the disjuncts of Next.
LEMMA NextFaults ==
  ASSUME IInv, ConfigsInv, FaultsInv, [Next]_vars
  PROVE  FaultsInv'
  <1> DEFINE Quiet == UNCHANGED <<file, process, inForce, outcome, seen>>
             Kept == "others" \in DOMAIN left' /\ left'.others \subseteq Config
  <1>1. ASSUME Quiet, Kept PROVE FaultsInv'
    <2>1. Fresh(process'["watcher"])
      BY <1>1 DEF FaultsInv
    <2> QED
      BY <1>1, <2>1, FileStays
  <1>2. CASE Edit
    <2>1. PICK c \in left.others, plain \in BOOLEAN :
            file' = [config |-> c, plain |-> plain, stamp |-> file.stamp + 1]
      BY <1>2 DEF Edit
    <2>2. c \in Config /\ UNCHANGED <<process, outcome, seen>>
      BY <1>2 DEF Edit, FaultsInv
    <2>3. Kept
      BY <1>2, OthersStay DEF Edit
    <2>4. outcome' = "refused" => seen' \in Nat /\ seen' <= file.stamp
      BY <2>2 DEF FaultsInv, Refusal
    <2> QED
      BY <2>1, <2>2, <2>3, <2>4, WriteFaults DEF IInv
  <1>3. CASE Ensure \/ Revoke \/ (SecondPasses /\ UNCHANGED process) \/ UNCHANGED vars
    <2>1. Quiet
      BY <1>3 DEF Ensure, Revoke, KeysBecome, SecondPasses, vars, fileVars
    <2>2. Kept
      BY <1>3, OthersStay DEF Ensure, Revoke, KeysBecome, SecondPasses, vars
    <2> QED
      BY <1>1, <2>1, <2>2
  <1>8. CASE SecondPasses /\ process["watcher"].at = "stamp"
    <2> DEFINE to == [process["watcher"] EXCEPT !.late = TRUE]
    <2>1. to.at = "stamp"
      BY <1>8 DEF IInv, FilesInv, Process
    <2>2. process'["watcher"] = to
      BY <1>8 DEF SecondPasses, IInv, FilesInv, Process
    <2> HIDE DEF to
    <2>3. Fresh(to)
      BY <2>1 DEF Fresh, Reading
    <2>4. Kept
      BY <1>8, OthersStay DEF SecondPasses
    <2> QED
      BY <1>8, <2>2, <2>3, <2>4, FileStays DEF SecondPasses
  <1>4. CASE RefreshKeys \/ StampKeys \/ Fingerprint
    <2> DEFINE started(stamp) == [at |-> "load", stamp |-> stamp]
    <2>1. \A to : to.at \in {"rest", "stamp", "keys"} => Fresh(to)
      BY DEF Fresh, Reading
    <2>2. CASE RefreshKeys
      BY <2>1, <2>2, GoFaults DEF RefreshKeys
    <2>3. CASE StampKeys
      BY <2>1, <2>3, GoFaults DEF StampKeys
    <2>4. CASE Fingerprint
      <3>1. PICK stamp \in {file.stamp, Unreadable} :
              /\ Spend("faults") \/ UNCHANGED left
              /\ Go("watcher", IF seen = stamp THEN AtRest ELSE started(stamp))
        BY <2>4 DEF Fingerprint
      <3>2. Fresh(AtRest) /\ Fresh(started(stamp))
        <4>1. stamp \in Nat /\ stamp <= file.stamp
          BY DEF IInv, FilesInv, Unreadable
        <4> QED
          BY <2>1, <4>1 DEF Fresh, Reading, AtRest
      <3>3. UNCHANGED <<file, inForce, outcome, seen>>
        BY <2>4 DEF Fingerprint
      <3> HIDE DEF started
      <3>4. CASE seen = stamp
        BY <3>1, <3>2, <3>3, <3>4, GoFaults
      <3>5. CASE seen # stamp
        BY <3>1, <3>2, <3>3, <3>5, GoFaults
      <3> QED
        BY <3>4, <3>5
    <2> QED
      BY <1>4, <2>2, <2>3, <2>4
  <1>5. CASE Encrypt
    <2>1. /\ process'["watcher"] = process["watcher"]
          /\ UNCHANGED <<file, inForce, outcome, seen>>
      BY <1>5 DEF Encrypt, Go, IInv, FilesInv, Process
    <2>2. Kept
      BY <1>5, OthersStay DEF Encrypt
    <2>3. Fresh(process'["watcher"])
      BY <2>1 DEF FaultsInv
    <2> QED
      BY <2>1, <2>2, <2>3, FileStays
  <1>6. ASSUME NEW r \in Caller, RequestStep(r) PROVE FaultsInv'
    <2>1. Quiet
      BY <1>6 DEF RequestStep, Come, Choose, Pay, Resolve, Forget, Resolved, Answer, Cells,
                  Files, fileVars
    <2>2. Spend("requests") \/ UNCHANGED left
      BY <1>6 DEF RequestStep, Come, Choose, Pay, Resolve, Forget, Resolved, Answer, Cells
    <2> QED
      BY <1>1, <2>1, <2>2, OthersStay
  <1>7. ASSUME NEW s \in Command, GrowsOld(s) PROVE FaultsInv'
    <2>1. Quiet
      BY <1>7 DEF GrowsOld, Files, fileVars
    <2> QED
      BY <1>1, <1>7, <2>1, OthersStay DEF GrowsOld
  <1> QED
    BY <1>2, <1>3, <1>4, <1>5, <1>6, <1>7, <1>8, EncrypterFaults, WatcherFaults
    DEF Next, Watcher, Encrypter, SecondPasses

\* Rules in force have no chain that is too long, and a config that is refused, where no
\* file, key or client failed, has a fault of its own: the walk that validates rules finds the cycles and the chains of more than
\* MaxAttempts models, and nothing else.
THEOREM RulesEnd == Spec => []ValidRulesEnd
  <1>1. IInv /\ ConfigsInv /\ RoutesInv /\ FaultsInv /\ [Next]_vars
          => ConfigsInv' /\ RoutesInv' /\ FaultsInv'
    BY NextRoutesInv, NextFaults
  <1>2. ConfigsInv /\ FaultsInv => ValidRulesEnd
    BY ValidEnds DEF ConfigsInv, Loaded, FaultsInv, Refusal, Faulty, ValidRulesEnd
  <1> QED
    BY <1>1, <1>2, InitRoutes, InitFaults, Inductive, PTL DEF Spec

------------------------------------------------------------------------------
\* The order of a plan

\* The head and the tail of two lists, one after the other.
LEMMA HeadTailConcat ==
  ASSUME NEW S, NEW s \in Seq(S), NEW t \in Seq(S), s # <<>>
  PROVE  /\ s \o t # <<>> /\ Head(s \o t) = Head(s)
         /\ Tail(s \o t) = Tail(s) \o t
  <1>1. /\ s \o t \in Seq(S) /\ Len(s \o t) = Len(s) + Len(t)
        /\ \A i \in 1..(Len(s) + Len(t)) :
             (s \o t)[i] = IF i <= Len(s) THEN s[i] ELSE t[i - Len(s)]
    BY ConcatProperties
  <1>2. Len(s) \in Nat \ {0} /\ Len(t) \in Nat
    BY LenProperties, EmptySeq
  <1>3. s \o t # <<>>
    BY <1>1, <1>2, EmptySeq
  <1>4. Head(s \o t) = Head(s)
    BY <1>1, <1>2
  <1>5. /\ Tail(s \o t) \in Seq(S) /\ Len(Tail(s \o t)) = Len(s) + Len(t) - 1
        /\ \A i \in 1..(Len(s) + Len(t) - 1) : Tail(s \o t)[i] = (s \o t)[i + 1]
    BY <1>1, <1>3, HeadTailProperties
  <1>6. /\ Tail(s) \in Seq(S) /\ Len(Tail(s)) = Len(s) - 1
        /\ \A i \in 1..(Len(s) - 1) : Tail(s)[i] = s[i + 1]
    BY HeadTailProperties
  <1>7. /\ Tail(s) \o t \in Seq(S) /\ Len(Tail(s) \o t) = Len(s) - 1 + Len(t)
        /\ \A i \in 1..(Len(s) - 1 + Len(t)) :
             (Tail(s) \o t)[i] = IF i <= Len(s) - 1 THEN Tail(s)[i] ELSE t[i - (Len(s) - 1)]
    BY <1>6, ConcatProperties
  <1>8. ASSUME NEW i \in 1..(Len(s) + Len(t) - 1)
        PROVE  Tail(s \o t)[i] = (Tail(s) \o t)[i]
    <2>1. i \in 1..(Len(s) - 1 + Len(t)) /\ i + 1 \in 1..(Len(s) + Len(t))
      BY <1>2
    <2>2. Tail(s \o t)[i] = IF i + 1 <= Len(s) THEN s[i + 1] ELSE t[i + 1 - Len(s)]
      BY <1>1, <1>5, <2>1
    <2>3. CASE i <= Len(s) - 1
      BY <1>2, <1>6, <1>7, <2>1, <2>2, <2>3
    <2>4. CASE ~(i <= Len(s) - 1)
      <3>1. ~(i + 1 <= Len(s)) /\ i + 1 - Len(s) = i - (Len(s) - 1)
        BY <1>2, <2>4
      <3> QED
        BY <1>7, <2>1, <2>2, <2>4, <3>1
    <2> QED
      BY <2>3, <2>4
  <1>9. Tail(s \o t) = Tail(s) \o t
    <2>1. Len(Tail(s \o t)) = Len(Tail(s) \o t)
      BY <1>2, <1>5, <1>7
    <2> QED
      BY <1>5, <1>7, <1>8, <2>1, SeqEqual
  <1> QED
    BY <1>3, <1>4, <1>9

\* A reversed list.
LEMMA ReverseIs ==
  ASSUME NEW S, NEW s \in Seq(S)
  PROVE  /\ Reverse(s) \in Seq(S) /\ Len(Reverse(s)) = Len(s)
         /\ \A i \in 1..Len(s) : Reverse(s)[i] = s[Len(s) - i + 1]
  <1>1. Len(s) \in Nat
    BY LenProperties
  <1>2. \A i \in 1..Len(s) : s[Len(s) - i + 1] \in S
    BY <1>1, ElementOfSeq
  <1>3. Reverse(s) \in [1..Len(s) -> S]
    BY <1>2 DEF Reverse
  <1> QED
    BY <1>1, <1>3, LenProperties DEF Reverse

\* A reversed list begins with the last element.
LEMMA ReverseFront ==
  ASSUME NEW S, NEW s \in Seq(S), s # <<>>
  PROVE  /\ Reverse(s) # <<>> /\ Head(Reverse(s)) = Last(s)
         /\ Tail(Reverse(s)) = Reverse(Front(s))
  <1>1. Len(s) \in Nat \ {0}
    BY LenProperties, EmptySeq
  <1>2. /\ Reverse(s) \in Seq(S) /\ Len(Reverse(s)) = Len(s)
        /\ \A i \in 1..Len(s) : Reverse(s)[i] = s[Len(s) - i + 1]
    BY ReverseIs
  <1>3. Reverse(s) # <<>> /\ Head(Reverse(s)) = Last(s)
    BY <1>1, <1>2, EmptySeq DEF Last
  <1>4. \A i \in 1..(Len(s) - 1) : s[i] \in S
    BY <1>1, ElementOfSeq
  <1>5. /\ Front(s) \in Seq(S) /\ Len(Front(s)) = Len(s) - 1
        /\ \A i \in 1..(Len(s) - 1) : Front(s)[i] = s[i]
    <2>1. \A i \in 1..(Len(s) - 1 - 1 + 1) : SubSeq(s, 1, Len(s) - 1)[i] = s[1 + i - 1]
      BY <1>1, <1>4, SubSeqProperties
    <2> QED
      BY <1>1, <2>1, FrontIs DEF Front
  <1>6. /\ Reverse(Front(s)) \in Seq(S) /\ Len(Reverse(Front(s))) = Len(s) - 1
        /\ \A i \in 1..(Len(s) - 1) : Reverse(Front(s))[i] = Front(s)[Len(s) - 1 - i + 1]
    BY <1>5, ReverseIs
  <1>7. /\ Tail(Reverse(s)) \in Seq(S) /\ Len(Tail(Reverse(s))) = Len(s) - 1
        /\ \A i \in 1..(Len(s) - 1) : Tail(Reverse(s))[i] = Reverse(s)[i + 1]
    BY <1>2, <1>3, HeadTailProperties
  <1>8. ASSUME NEW i \in 1..(Len(s) - 1) PROVE Tail(Reverse(s))[i] = Reverse(Front(s))[i]
    <2>1. PICK k \in 1..(Len(s) - 1) : k = Len(s) - 1 - i + 1
      BY <1>1
    <2>2. i + 1 \in 1..Len(s) /\ Len(s) - (i + 1) + 1 = k
      BY <1>1, <2>1
    <2>3. Tail(Reverse(s))[i] = s[k]
      BY <1>2, <1>7, <2>2
    <2>4. Reverse(Front(s))[i] = s[k]
      BY <1>5, <1>6, <2>1
    <2> QED
      BY <2>3, <2>4
  <1>9. Tail(Reverse(s)) = Reverse(Front(s))
    BY <1>1, <1>6, <1>7, <1>8, SeqEqual
  <1> QED
    BY <1>3, <1>9

\* One list reversed over another comes before that other one reversed.
LEMMA ReverseOver ==
  ASSUME NEW S, NEW s \in Seq(S), NEW t \in Seq(S)
  PROVE  Reverse(s \o Reverse(t)) = t \o Reverse(s)
  <1> DEFINE u == Reverse(t)
             w == Reverse(s)
             z == s \o u
             l == Reverse(z)
             r == t \o w
  <1>0. \A x, y \in Seq(S) :
          /\ x \o y \in Seq(S) /\ Len(x \o y) = Len(x) + Len(y)
          /\ \A i \in 1..(Len(x) + Len(y)) :
               (x \o y)[i] = IF i <= Len(x) THEN x[i] ELSE y[i - Len(x)]
    BY ConcatProperties
  <1>1. PICK m \in Nat, n \in Nat : m = Len(s) /\ n = Len(t)
    BY LenProperties
  <1>2. /\ u \in Seq(S) /\ Len(u) = Len(t)
        /\ \A i \in 1..Len(t) : u[i] = t[Len(t) - i + 1]
    BY ReverseIs
  <1>3. /\ w \in Seq(S) /\ Len(w) = Len(s)
        /\ \A i \in 1..Len(s) : w[i] = s[Len(s) - i + 1]
    BY ReverseIs
  <1> HIDE DEF u, w
  <1>4. /\ z \in Seq(S) /\ Len(z) = Len(s) + Len(u)
        /\ \A i \in 1..(Len(s) + Len(u)) : z[i] = IF i <= Len(s) THEN s[i] ELSE u[i - Len(s)]
    BY <1>0, <1>2
  <1>5. /\ r \in Seq(S) /\ Len(r) = Len(t) + Len(w)
        /\ \A i \in 1..(Len(t) + Len(w)) : r[i] = IF i <= Len(t) THEN t[i] ELSE w[i - Len(t)]
    BY <1>0, <1>3
  <1> HIDE DEF z, r
  <1>6. /\ l \in Seq(S) /\ Len(l) = Len(z)
        /\ \A i \in 1..Len(z) : l[i] = z[Len(z) - i + 1]
    BY <1>4, ReverseIs
  <1> HIDE DEF l
  <1>7. /\ Len(z) = m + n /\ Len(l) = m + n /\ Len(r) = n + m
        /\ \A i \in 1..n : u[i] = t[n - i + 1]
        /\ \A i \in 1..m : w[i] = s[m - i + 1]
        /\ \A i \in 1..(m + n) : z[i] = IF i <= m THEN s[i] ELSE u[i - m]
        /\ \A i \in 1..(n + m) : r[i] = IF i <= n THEN t[i] ELSE w[i - n]
        /\ \A i \in 1..(m + n) : l[i] = z[m + n - i + 1]
    BY <1>1, <1>2, <1>3, <1>4, <1>5, <1>6
  <1>8. ASSUME NEW i \in 1..(m + n) PROVE l[i] = r[i]
    <2> DEFINE k == m + n - i + 1
    <2>1. k \in 1..(m + n)
      BY <1>1
    <2>2. l[i] = z[k] /\ i \in 1..(n + m)
      <3>1. l[i] = z[m + n - i + 1]
        BY <1>7
      <3>2. i \in 1..(n + m)
        BY <1>1
      <3> QED
        BY <3>1, <3>2
    <2>3. CASE i <= n
      <3> DEFINE j == k - m
      <3>1. j \in 1..n
        BY <1>1, <2>1, <2>3
      <3>2. ~(k <= m) /\ n - j + 1 = i
        BY <1>1, <2>1, <2>3
      <3>3. l[i] = u[j]
        BY <1>7, <2>1, <2>2, <3>2
      <3> HIDE DEF j
      <3>4. u[j] = t[i]
        BY <1>7, <3>1, <3>2
      <3>5. r[i] = t[i]
        BY <1>7, <2>2, <2>3
      <3> QED
        BY <3>3, <3>4, <3>5
    <2>4. CASE ~(i <= n)
      <3> DEFINE j == i - n
      <3>1. j \in 1..m
        BY <1>1, <2>1, <2>4
      <3>2. k <= m /\ m - j + 1 = k
        BY <1>1, <2>1, <2>4
      <3>3. l[i] = s[k]
        BY <1>7, <2>1, <2>2, <3>2
      <3>4. r[i] = w[j]
        BY <1>7, <2>2, <2>4
      <3> HIDE DEF j
      <3>5. w[j] = s[k]
        BY <1>7, <3>1, <3>2
      <3> QED
        BY <3>3, <3>4, <3>5
    <2> QED
      BY <2>3, <2>4
  <1>9. l = r
    <2>1. Len(l) = Len(r) /\ Len(l) = m + n
      BY <1>1, <1>7
    <2> QED
      BY <1>5, <1>6, <1>8, <2>1, SeqEqual
  <1> QED
    BY <1>9 DEF l, r, u, w, z

\* The parts of a step of the order: the identity of the first name, what it leads to if
\* it is new, and what the other names lead to after that.
Through(v) == v.depth = 0 \/ v.names = <<>>
Ahead(c, q, v) == Identity(c, Head(v.names), IF v.done = <<>> THEN q ELSE Later(c, q))
Repeats(c, q, v) == \E j \in ToSet(v.done) : Same(Ahead(c, q, v), j)
Below(c, q, v) == [depth |-> v.depth - 1, done |-> Append(v.done, Ahead(c, q, v)),
                   names |-> Targets(c, Ahead(c, q, v).model)]
Rest(v, done) == [depth |-> v.depth, done |-> done, names |-> Tail(v.names)]
Led(c, q, f, v) == IF Repeats(c, q, v) THEN v.done ELSE f[Below(c, q, v)]
OrderOf(c, q, f, v) == IF Through(v) THEN v.done ELSE f[Rest(v, Led(c, q, f, v))]

\* What they are.
LEMMA VisitIs ==
  ASSUME NEW v \in Visits
  PROVE  /\ v = [depth |-> v.depth, done |-> v.done, names |-> v.names]
         /\ v.depth \in Nat /\ v.depth <= Identities + 1 /\ v.done \in Seq(Candidate)
         /\ v.names \in Seq(Name) /\ Len(v.names) \in Nat /\ Len(v.done) \in Nat
  BY LenProperties DEF Visits

\* There are only so many identities.
LEMMA IdentitiesAre == Identities \in Nat /\ IsFiniteSet(Name \X Project)
                         /\ Cardinality(Name \X Project) = Identities
  BY RoutingConstants, FS_CardinalityType, FS_Product DEF Identities

\* Both go on in a visit, the one with less depth, the other with fewer names.
LEMMA VisitSteps ==
  ASSUME NEW c, IsConfig(c), NEW q, NEW v \in Visits, ~Through(v)
  PROVE  /\ Ahead(c, q, v) \in Candidate
         /\ Below(c, q, v) \in Visits /\ Below(c, q, v).depth = v.depth - 1
         /\ Below(c, q, v).done = Append(v.done, Ahead(c, q, v))
         /\ Below(c, q, v).done \in Seq(Candidate)
         /\ Len(Below(c, q, v).done) = Len(v.done) + 1
         /\ \A done \in Seq(Candidate) :
              /\ Rest(v, done) \in Visits /\ Rest(v, done).depth = v.depth
              /\ Rest(v, done).done = done /\ Len(Rest(v, done).names) = Len(v.names) - 1
  <1>1. /\ v.depth \in Nat /\ v.depth # 0 /\ v.depth <= Identities + 1
        /\ v.done \in Seq(Candidate) /\ v.names \in Seq(Name) /\ v.names # <<>>
        /\ v.depth - 1 \in 0..(Identities + 1) /\ v.depth \in 0..(Identities + 1)
    BY VisitIs, IdentitiesAre DEF Through
  <1>2. Head(v.names) \in Name /\ Tail(v.names) \in Seq(Name)
        /\ Len(Tail(v.names)) = Len(v.names) - 1
    BY <1>1, HeadTailProperties
  <1> DEFINE i == Ahead(c, q, v)
  <1>3. i \in Candidate /\ i.model \in Model
    BY <1>2, IdentityIs DEF Ahead
  <1> HIDE DEF i
  <1>4. Targets(c, i.model) \in Seq(Name)
    BY <1>3, Names DEF Targets, IsConfig
  <1>5. Append(v.done, i) \in Seq(Candidate) /\ Len(Append(v.done, i)) = Len(v.done) + 1
    BY <1>1, <1>3, AppendProperties
  <1>6. Below(c, q, v) = [depth |-> v.depth - 1, done |-> Append(v.done, i),
                          names |-> Targets(c, i.model)]
    BY DEF Below, i
  <1>7. Below(c, q, v) \in Visits
    BY <1>1, <1>4, <1>5, <1>6 DEF Visits
  <1>8. \A done \in Seq(Candidate) : Rest(v, done) \in Visits
    BY <1>1, <1>2 DEF Visits, Rest
  <1>9. \A done : /\ Rest(v, done).depth = v.depth /\ Rest(v, done).done = done
                  /\ Rest(v, done).names = Tail(v.names)
    BY DEF Rest
  <1>10. /\ Below(c, q, v).depth = v.depth - 1 /\ Below(c, q, v).done = Append(v.done, i)
         /\ Len(Below(c, q, v).done) = Len(v.done) + 1
    BY <1>5, <1>6
  <1>11. ASSUME NEW done \in Seq(Candidate)
         PROVE  Len(Rest(v, done).names) = Len(v.names) - 1
    BY <1>2, <1>9
  <1> QED
    BY <1>3, <1>5, <1>7, <1>8, <1>9, <1>10, <1>11 DEF i

\* Candidates without a repetition; and a list of them that goes on from another.
Distinct(s) == \A j, k \in 1..Len(s) : Same(s[j], s[k]) => j = k
GoesOn(s, t) ==
  /\ t \in Seq(Candidate) /\ Len(s) <= Len(t) /\ \A k \in 1..Len(s) : t[k] = s[k]
  /\ Distinct(s) => Distinct(t)

\* Going on is transitive, and a list goes on with a candidate that is not in it.
LEMMA GoesOnFurther ==
  ASSUME NEW s \in Seq(Candidate), NEW t, NEW u, GoesOn(s, t), GoesOn(t, u)
  PROVE  GoesOn(s, u)
  <1>1. Len(s) \in Nat /\ Len(t) \in Nat /\ Len(u) \in Nat
    BY LenProperties DEF GoesOn
  <1>2. \A k \in 1..Len(s) : k \in 1..Len(t) /\ t[k] = s[k] /\ u[k] = t[k]
    BY <1>1 DEF GoesOn
  <1> QED
    BY <1>1, <1>2 DEF GoesOn

LEMMA GoesOnByOne ==
  ASSUME NEW s \in Seq(Candidate), NEW i \in Candidate, ~(\E j \in ToSet(s) : Same(i, j))
  PROVE  GoesOn(s, Append(s, i))
  <1> DEFINE t == Append(s, i)
  <1>1. /\ t \in Seq(Candidate) /\ Len(t) = Len(s) + 1 /\ t[Len(s) + 1] = i
        /\ \A k \in 1..Len(s) : t[k] = s[k]
    BY AppendProperties
  <1>2. Len(s) \in Nat /\ DOMAIN s = 1..Len(s)
    BY LenProperties
  <1>3. \A k \in 1..Len(s) : ~Same(i, s[k]) /\ ~Same(s[k], i)
    BY <1>2 DEF ToSet, Same
  <1> HIDE DEF t
  <1>4. ASSUME Distinct(s), NEW j \in 1..Len(t), NEW k \in 1..Len(t), Same(t[j], t[k])
        PROVE  j = k
    <2>1. CASE j \in 1..Len(s) /\ k \in 1..Len(s)
      BY <1>1, <1>4, <2>1 DEF Distinct
    <2>2. CASE j = Len(s) + 1 /\ k # Len(s) + 1
      <3>1. k \in 1..Len(s)
        BY <1>1, <1>2, <2>2
      <3> QED
        BY <1>1, <1>3, <1>4, <2>2, <3>1
    <2>3. CASE k = Len(s) + 1 /\ j # Len(s) + 1
      <3>1. j \in 1..Len(s)
        BY <1>1, <1>2, <2>3
      <3> QED
        BY <1>1, <1>3, <1>4, <2>3, <3>1
    <2>4. \A x \in 1..Len(t) : x \in 1..Len(s) \/ x = Len(s) + 1
      BY <1>1, <1>2
    <2> QED
      BY <2>1, <2>2, <2>3, <2>4
  <1>5. Len(s) <= Len(t)
    BY <1>1, <1>2
  <1>6. Distinct(s) => Distinct(t)
    BY <1>4 DEF Distinct
  <1> QED
    BY <1>1, <1>5, <1>6 DEF GoesOn, t

\* Without repetitions there are no more candidates than identities.
LEMMA DistinctAreFew ==
  ASSUME NEW s \in Seq(Candidate), Distinct(s)
  PROVE  Len(s) <= Identities
  <1> DEFINE f == [k \in 1..Len(s) |-> <<s[k].model, s[k].project>>]
  <1>1. Len(s) \in Nat /\ \A k \in 1..Len(s) : s[k] \in Candidate
    BY LenProperties, ElementOfSeq
  <1>2. f \in [1..Len(s) -> Name \X Project]
    BY <1>1 DEF Candidate
  <1>3. \A j, k \in 1..Len(s) : f[j] = f[k] => j = k
    BY DEF Distinct, Same
  <1>4. f \in Injection(1..Len(s), Name \X Project)
    BY <1>2, <1>3 DEF Injection, IsInjective
  <1> HIDE DEF f
  <1>5. Cardinality(1..Len(s)) <= Cardinality(Name \X Project)
    BY <1>4, IdentitiesAre, FS_Injection
  <1>6. Cardinality(1..Len(s)) = Len(s)
    <2>1. Cardinality(1..Len(s)) = IF 1 > Len(s) THEN 0 ELSE Len(s) - 1 + 1
      BY <1>1, FS_Interval
    <2> QED
      BY <1>1, <2>1
  <1> QED
    BY <1>5, <1>6, IdentitiesAre

\* What the order finds goes on from what was done, without a new repetition.
LEMMA OrderGoesOn ==
  ASSUME NEW c, IsConfig(c), NEW q, NEW f, NEW n \in Nat,
         \A v \in Visits : v.depth <= n => f[v] = OrderOf(c, q, f, v)
  PROVE  \A v \in Visits : v.depth <= n => GoesOn(v.done, f[v])
  <1> DEFINE Bad == {v \in Visits : v.depth <= n /\ ~GoesOn(v.done, f[v])}
  <1> SUFFICES ASSUME Bad # {} PROVE FALSE
    OBVIOUS
  <1> DEFINE depths == [v \in Bad |-> v.depth]
             lengths == [v \in Bad |-> Len(v.names)]
  <1>1. PICK v \in Bad : \A w \in Bad : /\ v.depth <= w.depth
                                        /\ v.depth = w.depth => Len(v.names) <= Len(w.names)
    <2>1. depths \in [Bad -> Nat] /\ lengths \in [Bad -> Nat]
      BY VisitIs
    <2>2. \A x \in Bad : depths[x] = x.depth /\ lengths[x] = Len(x.names)
      OBVIOUS
    <2> HIDE DEF depths, lengths, Bad
    <2>3. PICK x \in Bad : \A y \in Bad : /\ depths[x] <= depths[y]
                                          /\ depths[x] = depths[y] => lengths[x] <= lengths[y]
      BY <2>1, LeastOfTwo
    <2> QED
      BY <2>2, <2>3
  <1>2. v \in Visits /\ v.depth <= n /\ ~GoesOn(v.done, f[v]) /\ f[v] = OrderOf(c, q, f, v)
    OBVIOUS
  <1>3. ASSUME NEW w \in Visits, w.depth <= n,
               w.depth < v.depth \/ (w.depth = v.depth /\ Len(w.names) < Len(v.names))
        PROVE  GoesOn(w.done, f[w])
    <2>1. w \notin Bad
      <3> HIDE DEF Bad
      <3> QED
        BY <1>1, <1>2, <1>3, VisitIs
    <2> QED
      BY <1>3, <2>1
  <1> HIDE DEF Bad
  <1>4. v.done \in Seq(Candidate) /\ v.depth \in Nat /\ Len(v.names) \in Nat
    BY <1>2, VisitIs
  <1>5. ~Through(v)
    <2>1. GoesOn(v.done, v.done)
      BY <1>4, LenProperties DEF GoesOn
    <2> QED
      BY <1>2, <2>1 DEF OrderOf
  <1> DEFINE led == Led(c, q, f, v)
  <1>6. GoesOn(v.done, led)
    <2>1. CASE Repeats(c, q, v)
      BY <1>4, <2>1, LenProperties DEF GoesOn, Led
    <2>2. CASE ~Repeats(c, q, v)
      <3> DEFINE b == Below(c, q, v)
      <3>1. /\ Ahead(c, q, v) \in Candidate /\ b \in Visits /\ b.depth = v.depth - 1
            /\ b.done = Append(v.done, Ahead(c, q, v))
        BY <1>2, <1>5, VisitSteps
      <3> HIDE DEF b
      <3>2. GoesOn(b.done, f[b])
        <4>1. b.depth <= n /\ b.depth < v.depth
          BY <1>2, <1>4, <3>1
        <4> QED
          BY <1>3, <3>1, <4>1
      <3>3. GoesOn(v.done, b.done)
        BY <1>4, <2>2, <3>1, GoesOnByOne DEF Repeats
      <3>4. led = f[b]
        BY <2>2 DEF Led, b
      <3> QED
        BY <1>4, <3>2, <3>3, <3>4, GoesOnFurther
    <2> QED
      BY <2>1, <2>2
  <1> HIDE DEF led
  <1> DEFINE r == Rest(v, led)
  <1>7. r \in Visits /\ r.depth = v.depth /\ r.done = led /\ Len(r.names) = Len(v.names) - 1
    <2>1. led \in Seq(Candidate)
      BY <1>6 DEF GoesOn
    <2> QED
      BY <1>2, <1>5, <2>1, VisitSteps
  <1>8. f[v] = f[r]
    BY <1>2, <1>5 DEF OrderOf, led
  <1> HIDE DEF r
  <1>9. GoesOn(led, f[r])
    BY <1>2, <1>3, <1>4, <1>7
  <1> QED
    BY <1>2, <1>4, <1>6, <1>8, <1>9, GoesOnFurther

\* The order is well-defined: each name that is followed has less depth, or fewer names
\* beside it.
LEMMA OrderExists ==
  ASSUME NEW c, IsConfig(c), NEW q
  PROVE  \E f : f = [v \in Visits |-> OrderOf(c, q, f, v)]
  <1> DEFINE N == Identities + 1
             Solved(f, n) == \A v \in Visits : v.depth <= n => f[v] = OrderOf(c, q, f, v)
             Levels == {n \in 0..N : \E f : Solved(f, N - n)}
  <1>0. N \in Nat /\ \A v \in Visits : v.depth \in 0..N
    BY IdentitiesAre, VisitIs
  <1> HIDE DEF N
  <1>1. N \in Levels
    <2> DEFINE f == [v \in Visits |-> v.done]
    <2>1. Solved(f, 0)
      BY <1>0 DEF OrderOf, Through
    <2>2. N - N = 0
      BY <1>0
    <2> HIDE DEF f
    <2> QED
      BY <1>0, <2>1, <2>2
  <1>2. PICK n \in Levels : \A k \in Levels : n <= k
    <2>1. Levels \in SUBSET Nat
      BY <1>0
    <2> HIDE DEF Levels
    <2> QED
      BY <1>1, <2>1, Least
  <1>3. n \in 0..N /\ \E f : Solved(f, N - n)
    OBVIOUS
  <1>4. PICK f : Solved(f, N - n)
    BY <1>3
  <1>5. n = 0
    <2> SUFFICES ASSUME n # 0 PROVE FALSE
      OBVIOUS
    <2> DEFINE d == N - n
    <2>0. d \in Nat /\ d + 1 \in 0..N /\ n - 1 \in 0..N /\ N - (n - 1) = d + 1
      BY <1>0, <1>3
    <2>00. Solved(f, d)
      BY <1>4
    <2> HIDE DEF d
    <2> DEFINE S == {v \in Visits : v.depth = d + 1}
               final == {v \in S : v.names = <<>>}
               next == [v \in S |-> Rest(v, Led(c, q, f, v))]
               out == [v \in S |-> v.done]
    <2>1. ASSUME NEW v \in Visits, ~Through(v), v.depth <= d + 1
          PROVE  Led(c, q, f, v) \in Seq(Candidate) /\ Below(c, q, v) \in Visits
                 /\ Below(c, q, v).depth <= d
      <3> DEFINE b == Below(c, q, v)
      <3>1. b \in Visits /\ b.depth = v.depth - 1 /\ v.depth \in Nat /\ v.done \in Seq(Candidate)
        BY <2>1, VisitSteps, VisitIs
      <3> HIDE DEF b
      <3>2. b.depth <= d
        BY <2>0, <2>1, <3>1
      <3>3. GoesOn(b.done, f[b])
        BY <2>0, <2>00, <3>1, <3>2, OrderGoesOn
      <3>4. f[b] \in Seq(Candidate)
        BY <3>3 DEF GoesOn
      <3> QED
        BY <3>1, <3>2, <3>4 DEF Led, b
    <2>2. \A v \in S : v \notin final => next[v] \in S
      <3> TAKE v \in S
      <3> HAVE v \notin final
      <3>1. v \in Visits /\ ~Through(v) /\ v.depth <= d + 1
        BY <2>0 DEF Through
      <3>2. /\ Rest(v, Led(c, q, f, v)) \in Visits
            /\ Rest(v, Led(c, q, f, v)).depth = v.depth
        BY <2>1, <3>1, VisitSteps
      <3> QED
        BY <3>2
    <2>3. PICK h : Solves(h, S, final, next, out)
      <3> HIDE DEF S, final, next, out
      <3> QED
        BY <2>2, TailRecursion
    <2>4. ASSUME NEW v \in S
          PROVE  h[v] = IF v.names = <<>> THEN v.done ELSE h[Rest(v, Led(c, q, f, v))]
      BY <2>3 DEF Solves
    <2> DEFINE g == [v \in Visits |-> IF v.depth <= d THEN f[v] ELSE h[v]]
    <2>5. \A v \in Visits : g[v] = IF v.depth <= d THEN f[v] ELSE h[v]
      OBVIOUS
    <2> HIDE DEF g
    <2>6. ASSUME NEW v \in Visits, ~Through(v), v.depth <= d + 1
          PROVE  Led(c, q, g, v) = Led(c, q, f, v)
      BY <2>1, <2>5, <2>6 DEF Led
    <2>7. ASSUME NEW v \in Visits, v.depth <= d + 1
          PROVE  g[v] = OrderOf(c, q, g, v)
      <3> DEFINE r == Rest(v, Led(c, q, f, v))
      <3>1. CASE ~Through(v)
        <4>1. r \in Visits /\ r.depth = v.depth
          BY <2>1, <2>7, <3>1, VisitSteps
        <4>2. OrderOf(c, q, g, v) = g[r]
          BY <2>6, <2>7, <3>1 DEF OrderOf
        <4>3. CASE v.depth <= d
          <5>1. f[v] = f[r]
            BY <2>00, <3>1, <4>3 DEF OrderOf
          <5>2. g[v] = f[v] /\ g[r] = f[r]
            BY <2>5, <4>1, <4>3
          <5> QED
            BY <4>2, <5>1, <5>2
        <4>4. CASE ~(v.depth <= d)
          <5>1. v \in S /\ v.names # <<>>
            BY <1>0, <2>0, <2>7, <3>1, <4>4 DEF Through
          <5>2. h[v] = h[r]
            BY <2>4, <5>1
          <5>3. g[v] = h[v] /\ g[r] = h[r]
            BY <2>5, <4>1, <4>4
          <5> QED
            BY <4>2, <5>2, <5>3
        <4> QED
          BY <4>3, <4>4
      <3>2. CASE Through(v)
        <4>1. CASE v.depth <= d
          BY <2>00, <2>5, <3>2, <4>1 DEF OrderOf
        <4>2. CASE ~(v.depth <= d)
          <5>1. v \in S /\ v.names = <<>>
            BY <1>0, <2>0, <2>7, <3>2, <4>2 DEF Through
          <5> QED
            BY <2>4, <2>5, <3>2, <4>2, <5>1 DEF OrderOf
        <4> QED
          BY <4>1, <4>2
      <3> QED
        BY <3>1, <3>2
    <2>8. n - 1 \in Levels
      <3>1. Solved(g, N - (n - 1))
        BY <2>0, <2>7
      <3> QED
        BY <2>0, <3>1
    <2>9. n <= n - 1
      <3> HIDE DEF Levels
      <3> QED
        BY <1>2, <2>8
    <2> QED
      BY <2>0, <2>9, <1>3
  <1>6. \A v \in Visits : f[v] = OrderOf(c, q, f, v)
    BY <1>0, <1>4, <1>5
  <1> DEFINE g == [v \in Visits |-> f[v]]
  <1>7. \A v \in Visits : g[v] = f[v]
    OBVIOUS
  <1>8. ASSUME NEW v \in Visits PROVE f[v] = OrderOf(c, q, g, v)
    <2>1. CASE Through(v)
      BY <1>6, <2>1 DEF OrderOf
    <2>2. CASE ~Through(v)
      <3> HIDE DEF g
      <3> DEFINE b == Below(c, q, v)
      <3>1. b \in Visits /\ v.done \in Seq(Candidate)
        BY <2>2, VisitSteps, VisitIs
      <3>2. GoesOn(b.done, f[b])
        <4>1. \A x \in Visits : x.depth <= N => f[x] = OrderOf(c, q, f, x)
          BY <1>6
        <4>2. b.depth <= N
          BY <1>0, <3>1
        <4> HIDE DEF b
        <4> QED
          BY <1>0, <3>1, <4>1, <4>2, OrderGoesOn
      <3>3. Led(c, q, f, v) \in Seq(Candidate) /\ Led(c, q, g, v) = Led(c, q, f, v)
        BY <1>7, <3>1, <3>2 DEF Led, GoesOn
      <3>4. Rest(v, Led(c, q, f, v)) \in Visits
        BY <2>2, <3>3, VisitSteps
      <3> QED
        BY <1>6, <1>7, <2>2, <3>3, <3>4 DEF OrderOf
    <2> QED
      BY <2>1, <2>2
  <1>9. g = [v \in Visits |-> OrderOf(c, q, g, v)]
    <2> DEFINE z == [v \in Visits |-> OrderOf(c, q, g, v)]
    <2>1. z = [v \in Visits |-> z[v]] /\ \A v \in Visits : z[v] = OrderOf(c, q, g, v)
      OBVIOUS
    <2> HIDE DEF z
    <2>2. g = z
      BY <1>8, <2>1
    <2> QED
      BY <2>2 DEF z
  <1> HIDE DEF g
  <1> QED
    BY <1>9

\* What Preorder finds is what some function finds that obeys its equation.
Orders(c, q, f) == \A v \in Visits : f[v] = OrderOf(c, q, f, v)
Start(q) == [depth |-> Identities + 1, done |-> <<>>, names |-> <<q.name>>]

LEMMA PreorderIs ==
  ASSUME NEW c, IsConfig(c), NEW q
  PROVE  \E f : Orders(c, q, f) /\ Preorder(c, q) = f[Start(q)]
  <1> DEFINE found(f, v) ==
        IF v.depth = 0 \/ v.names = <<>> THEN v.done
        ELSE LET i == Identity(c, Head(v.names), IF v.done = <<>> THEN q ELSE Later(c, q))
                 after == IF \E j \in ToSet(v.done) : Same(i, j) THEN v.done
                          ELSE f[[depth |-> v.depth - 1, done |-> Append(v.done, i),
                                  names |-> Targets(c, i.model)]]
             IN f[[depth |-> v.depth, done |-> after, names |-> Tail(v.names)]]
             visit[v \in Visits] == found(visit, v)
  <1>1. Preorder(c, q) = visit[Start(q)]
    BY DEF Preorder, Start
  <1>2. \A f, v : found(f, v) = OrderOf(c, q, f, v)
    BY DEF OrderOf, Through, Led, Rest, Below, Repeats, Ahead
  <1> HIDE DEF found
  <1>3. \E f : f = [v \in Visits |-> found(f, v)]
    <2>1. PICK f : f = [v \in Visits |-> OrderOf(c, q, f, v)]
      BY OrderExists
    <2>2. f = [v \in Visits |-> found(f, v)]
      <3>1. [v \in Visits |-> found(f, v)] = [v \in Visits |-> OrderOf(c, q, f, v)]
        BY <1>2
      <3> QED
        BY <2>1, <3>1
    <2> QED
      BY <2>2
  <1>4. visit = [v \in Visits |-> found(visit, v)]
    BY <1>3 DEF visit
  <1> HIDE DEF visit
  <1>5. Orders(c, q, visit)
    BY <1>2, <1>4 DEF Orders
  <1> QED
    BY <1>1, <1>5

\* It goes on from what was done.
LEMMA OrdersGoOn ==
  ASSUME NEW c, IsConfig(c), NEW q, NEW f, Orders(c, q, f), NEW v \in Visits
  PROVE  GoesOn(v.done, f[v])
  <1>1. \A w \in Visits : w.depth <= Identities + 1 => f[w] = OrderOf(c, q, f, w)
    BY DEF Orders
  <1>2. v.depth <= Identities + 1 /\ Identities + 1 \in Nat
    BY VisitIs, IdentitiesAre
  <1> QED
    BY <1>1, <1>2, OrderGoesOn

\* More depth than there are identities left makes no difference.
Deep(v) == v.depth > Identities - Len(v.done) /\ Distinct(v.done)
Alike(v, w) == v.done = w.done /\ v.names = w.names

LEMMA DepthIsEnough ==
  ASSUME NEW c, IsConfig(c), NEW q, NEW f, Orders(c, q, f),
         NEW v0 \in Visits, NEW w0 \in Visits, Deep(v0), Deep(w0), Alike(v0, w0)
  PROVE  f[v0] = f[w0]
  <1> DEFINE Bad == {p \in Visits \X Visits : /\ Deep(p[1]) /\ Deep(p[2]) /\ Alike(p[1], p[2])
                                              /\ f[p[1]] # f[p[2]]}
             lefts == [p \in Bad |-> Identities - Len(p[1].done)]
             lengths == [p \in Bad |-> Len(p[1].names)]
  <1> SUFFICES ASSUME Bad # {} PROVE FALSE
    <2>1. <<v0, w0>> \in Visits \X Visits /\ <<v0, w0>>[1] = v0 /\ <<v0, w0>>[2] = w0
      OBVIOUS
    <2>2. f[v0] # f[w0] => <<v0, w0>> \in Bad
      BY <2>1
    <2> QED
      BY <2>2
  <1>0. Identities \in Nat
    BY IdentitiesAre
  <1>1. \A x \in Visits : Distinct(x.done) => Identities - Len(x.done) \in Nat
    <2>1. \A x \in Visits : x.done \in Seq(Candidate) /\ Len(x.done) \in Nat
      BY VisitIs
    <2>2. \A x \in Visits : Distinct(x.done) => Len(x.done) <= Identities
      BY <2>1, DistinctAreFew
    <2> QED
      BY <1>0, <2>1, <2>2
  <1>2. PICK p \in Bad : \A z \in Bad :
          /\ Identities - Len(p[1].done) <= Identities - Len(z[1].done)
          /\ Identities - Len(p[1].done) = Identities - Len(z[1].done)
               => Len(p[1].names) <= Len(z[1].names)
    <2>1. \A z \in Bad : z[1] \in Visits /\ Distinct(z[1].done)
      BY DEF Deep
    <2> HIDE DEF Bad
    <2>2. lefts \in [Bad -> Nat] /\ lengths \in [Bad -> Nat]
      BY <1>1, <2>1, VisitIs
    <2>3. \A z \in Bad : lefts[z] = Identities - Len(z[1].done) /\ lengths[z] = Len(z[1].names)
      OBVIOUS
    <2> HIDE DEF lefts, lengths
    <2>4. PICK x \in Bad : \A y \in Bad : /\ lefts[x] <= lefts[y]
                                          /\ lefts[x] = lefts[y] => lengths[x] <= lengths[y]
      BY <2>2, LeastOfTwo
    <2> QED
      BY <2>3, <2>4
  <1>3. PICK v \in Visits, w \in Visits : p = <<v, w>>
    OBVIOUS
  <1>4. /\ Deep(v) /\ Deep(w) /\ Alike(v, w) /\ f[v] # f[w]
        /\ f[v] = OrderOf(c, q, f, v) /\ f[w] = OrderOf(c, q, f, w)
    BY <1>3 DEF Orders
  <1>5. /\ v.depth \in Nat /\ w.depth \in Nat /\ v.done \in Seq(Candidate)
        /\ Len(v.done) \in Nat /\ Len(v.names) \in Nat
        /\ v.depth > Identities - Len(v.done) /\ w.depth > Identities - Len(v.done)
        /\ Identities - Len(v.done) \in Nat /\ Distinct(v.done)
        /\ v.done = w.done /\ v.names = w.names
    BY <1>1, <1>4, VisitIs DEF Deep, Alike
  <1>6. ASSUME NEW x \in Visits, NEW y \in Visits, Deep(x), Deep(y), Alike(x, y),
               \/ Len(x.done) > Len(v.done)
               \/ Len(x.done) = Len(v.done) /\ Len(x.names) < Len(v.names)
        PROVE  f[x] = f[y]
    <2>1. /\ <<x, y>> \in Visits \X Visits /\ <<x, y>>[1] = x /\ <<x, y>>[2] = y
          /\ p[1] = v
      BY <1>3
    <2>2. Len(x.done) \in Nat /\ Len(x.names) \in Nat
      BY VisitIs
    <2>3. <<x, y>> \notin Bad
      <3> SUFFICES ASSUME <<x, y>> \in Bad PROVE FALSE
        OBVIOUS
      <3> HIDE DEF Bad
      <3>1. /\ Identities - Len(v.done) <= Identities - Len(x.done)
            /\ Identities - Len(v.done) = Identities - Len(x.done)
                 => Len(v.names) <= Len(x.names)
        BY <1>2, <2>1
      <3> QED
        <4>1. \/ Len(x.done) > Len(v.done)
              \/ Len(x.done) = Len(v.done) /\ Len(x.names) < Len(v.names)
          BY <1>6
        <4>2. Len(v.done) \in Nat /\ Len(v.names) \in Nat
          BY <1>5
        <4> QED
          BY <1>0, <2>2, <3>1, <4>1, <4>2
    <2> QED
      BY <1>6, <2>1, <2>3
  <1> HIDE DEF Bad
  <1>7. ~Through(v) /\ ~Through(w)
    <2>1. v.depth # 0 /\ w.depth # 0
      BY <1>5
    <2> QED
      BY <1>4, <1>5, <2>1 DEF Through, OrderOf
  <1>8. Ahead(c, q, v) = Ahead(c, q, w) /\ (Repeats(c, q, v) <=> Repeats(c, q, w))
    BY <1>5 DEF Ahead, Repeats
  <1> DEFINE led == Led(c, q, f, v)
  <1>9. GoesOn(v.done, led) /\ led = Led(c, q, f, w)
        /\ (Repeats(c, q, v) \/ Len(led) > Len(v.done))
    <2>1. CASE Repeats(c, q, v)
      <3>1. led = v.done /\ Led(c, q, f, w) = v.done
        BY <1>5, <1>8, <2>1 DEF Led
      <3> QED
        BY <1>5, <2>1, <3>1 DEF GoesOn
    <2>2. CASE ~Repeats(c, q, v)
      <3> DEFINE x == Below(c, q, v)
                 y == Below(c, q, w)
      <3>1. /\ x \in Visits /\ y \in Visits
            /\ x.depth = v.depth - 1 /\ y.depth = w.depth - 1
            /\ x.done = Append(v.done, Ahead(c, q, v)) /\ Len(x.done) = Len(v.done) + 1
            /\ Ahead(c, q, v) \in Candidate
        BY <1>7, VisitSteps
      <3>2. x.done = y.done /\ x.names = y.names
        BY <1>5, <1>8 DEF Below
      <3>3. led = f[x] /\ Led(c, q, f, w) = f[y]
        BY <1>8, <2>2 DEF Led
      <3> HIDE DEF x, y, led
      <3>4. GoesOn(v.done, x.done)
        BY <1>5, <2>2, <3>1, GoesOnByOne DEF Repeats
      <3>5. Distinct(x.done)
        BY <1>5, <3>4 DEF GoesOn
      <3>6. Deep(x) /\ Deep(y)
        <4>1. Len(v.done) \in Nat /\ v.depth \in Nat /\ w.depth \in Nat
          BY <1>5
        <4>2. /\ x.depth > Identities - Len(x.done)
              /\ y.depth > Identities - Len(x.done)
          BY <1>0, <1>5, <3>1, <4>1
        <4> QED
          BY <3>2, <3>5, <4>2 DEF Deep
      <3>7. f[x] = f[y]
        BY <1>5, <1>6, <3>1, <3>2, <3>6 DEF Alike
      <3>8. GoesOn(x.done, f[x])
        BY <3>1, OrdersGoOn
      <3>9. GoesOn(v.done, led)
        BY <1>5, <3>3, <3>4, <3>8, GoesOnFurther
      <3>10. Len(led) > Len(v.done)
        BY <1>5, <3>1, <3>3, <3>8, LenProperties DEF GoesOn
      <3> QED
        BY <3>3, <3>7, <3>9, <3>10
    <2> QED
      BY <2>1, <2>2
  <1> HIDE DEF led
  <1> DEFINE x == Rest(v, led)
             y == Rest(w, led)
  <1>10. /\ x \in Visits /\ y \in Visits /\ x.depth = v.depth /\ y.depth = w.depth
         /\ x.done = led /\ y.done = led /\ Len(x.names) = Len(v.names) - 1
         /\ led \in Seq(Candidate) /\ Distinct(led)
         /\ Len(led) \in Nat /\ Len(led) >= Len(v.done)
    <2>1. led \in Seq(Candidate) /\ Distinct(led) /\ Len(v.done) <= Len(led)
      BY <1>5, <1>9 DEF GoesOn
    <2>2. Len(led) \in Nat
      BY <2>1, LenProperties
    <2> QED
      BY <1>5, <1>7, <2>1, <2>2, VisitSteps
  <1>11. x.names = y.names
    BY <1>5 DEF Rest
  <1>12. f[v] = f[x] /\ f[w] = f[y]
    BY <1>4, <1>7, <1>9 DEF OrderOf, led
  <1> HIDE DEF x, y
  <1>13. Deep(x) /\ Deep(y)
    BY <1>0, <1>5, <1>10 DEF Deep
  <1>14. f[x] = f[y]
    <2>1. Len(x.done) > Len(v.done) \/ (Len(x.done) = Len(v.done) /\ Len(x.names) < Len(v.names))
      BY <1>5, <1>10
    <2> QED
      BY <1>6, <1>10, <1>11, <1>13, <2>1 DEF Alike
  <1> QED
    BY <1>4, <1>12, <1>14

\* A visit with more names at the end, and one of those after something was done.
Longer(v, more) == [depth |-> v.depth, done |-> v.done, names |-> v.names \o more]
Onto(v, done, more) == [depth |-> v.depth, done |-> done, names |-> more]

\* What two lists of names lead to, one after the other.
LEMMA OrderJoins ==
  ASSUME NEW c, IsConfig(c), NEW q, NEW f, Orders(c, q, f), NEW v0 \in Visits,
         NEW more \in Seq(Name)
  PROVE  f[Longer(v0, more)] = f[Onto(v0, f[v0], more)]
  <1> DEFINE long(v) == [depth |-> v.depth, done |-> v.done, names |-> v.names \o more]
             short(v) == [depth |-> v.depth, done |-> f[v], names |-> more]
             Bad == {v \in Visits : f[long(v)] # f[short(v)]}
             Sizes == {Len(v.names) : v \in Bad}
  <1>0. ASSUME NEW v \in Visits
        PROVE  /\ long(v) \in Visits /\ short(v) \in Visits /\ f[v] \in Seq(Candidate)
               /\ f[v] = OrderOf(c, q, f, v)
               /\ f[long(v)] = OrderOf(c, q, f, long(v))
    <2>1. f[v] \in Seq(Candidate)
      BY OrdersGoOn DEF GoesOn
    <2>2. v.names \o more \in Seq(Name) /\ v.depth \in 0..(Identities + 1)
          /\ v.done \in Seq(Candidate)
      BY VisitIs, IdentitiesAre, ConcatProperties
    <2>3. long(v) \in Visits /\ short(v) \in Visits
      BY <2>1, <2>2 DEF Visits
    <2> HIDE DEF long, short
    <2> QED
      BY <2>1, <2>3 DEF Orders
  <1> SUFFICES ASSUME Bad # {} PROVE FALSE
    BY DEF Longer, Onto
  <1>1. PICK v \in Bad : \A w \in Bad : Len(v.names) <= Len(w.names)
    <2>1. Sizes \in SUBSET Nat
      BY VisitIs
    <2> HIDE DEF Bad
    <2>2. Sizes # {}
      OBVIOUS
    <2>3. PICK n \in Sizes : \A k \in Sizes : n <= k
      <3> HIDE DEF Sizes
      <3> QED
        BY <2>1, <2>2, Least
    <2> QED
      BY <2>3
  <1>2. /\ v \in Visits /\ f[long(v)] # f[short(v)]
        /\ v.depth \in Nat /\ v.names \in Seq(Name) /\ v.done \in Seq(Candidate)
        /\ Len(v.names) \in Nat
    BY VisitIs
  <1>3. CASE v.depth = 0
    <2>1. f[v] = v.done /\ f[long(v)] = v.done
      BY <1>0, <1>2, <1>3 DEF OrderOf, Through
    <2>2. f[short(v)] = OrderOf(c, q, f, short(v))
      BY <1>0, <1>2 DEF Orders
    <2>3. f[short(v)] = f[v]
      BY <1>3, <2>2 DEF OrderOf, Through
    <2> QED
      BY <1>2, <2>1, <2>3
  <1>4. CASE v.names = <<>>
    <2>1. f[v] = v.done
      BY <1>0, <1>2, <1>4 DEF OrderOf, Through
    <2>2. v.names \o more = more
      BY <1>4, ConcatEmptySeq
    <2> QED
      BY <1>2, <2>1, <2>2
  <1>5. CASE v.depth # 0 /\ v.names # <<>>
    <2> DEFINE l == long(v)
    <2>1. ~Through(v)
      BY <1>5 DEF Through
    <2>2. /\ l \in Visits /\ l.depth = v.depth /\ l.done = v.done /\ l.names = v.names \o more
      BY <1>0, <1>2
    <2>3. /\ v.names \o more # <<>> /\ Head(v.names \o more) = Head(v.names)
          /\ Tail(v.names \o more) = Tail(v.names) \o more
      BY <1>2, <1>5, HeadTailConcat
    <2> HIDE DEF l
    <2>4. ~Through(l) /\ Led(c, q, f, l) = Led(c, q, f, v)
      BY <1>5, <2>2, <2>3 DEF Through, Led, Repeats, Ahead, Below
    <2> DEFINE led == Led(c, q, f, v)
               r == Rest(v, led)
    <2>5. led \in Seq(Candidate)
      <3>1. Below(c, q, v) \in Visits
        BY <1>2, <2>1, VisitSteps
      <3>2. f[Below(c, q, v)] \in Seq(Candidate)
        BY <3>1, OrdersGoOn DEF GoesOn
      <3> QED
        BY <1>2, <3>2 DEF Led
    <2> HIDE DEF led
    <2>6. r \in Visits /\ Len(r.names) = Len(v.names) - 1 /\ r.depth = v.depth /\ r.done = led
      BY <1>2, <2>1, <2>5, VisitSteps
    <2>7. f[v] = f[r]
      BY <1>0, <1>2, <2>1 DEF OrderOf, led
    <2>8. long(r) = Rest(l, led)
      BY <2>2, <2>3 DEF Rest
    <2>9. f[l] = f[long(r)]
      <3>1. f[l] = OrderOf(c, q, f, l)
        BY <2>2 DEF Orders
      <3> HIDE DEF long, r
      <3> QED
        BY <2>4, <2>8, <3>1 DEF OrderOf, led
    <2>10. r \notin Bad
      <3> HIDE DEF Bad, r
      <3> QED
        BY <1>1, <1>2, <2>6
    <2>11. f[long(r)] = f[short(r)]
      BY <2>6, <2>10
    <2>12. short(r) = short(v)
      BY <2>6, <2>7
    <2> QED
      BY <1>2, <2>9, <2>11, <2>12 DEF l
  <1> QED
    BY <1>3, <1>4, <1>5

\* The order that a walk has before it: what it has done, and then what the names that are
\* pending, the last one first, lead to. Each step of the walk leaves it as it is.
OfWalk(w) == [depth |-> Identities + 1, done |-> w.done, names |-> Reverse(w.pending)]

LEMMA OrderOfWalk ==
  ASSUME NEW c, IsConfig(c), NEW q, NEW f, Orders(c, q, f),
         NEW w \in Walks, w.pending # <<>>, Distinct(w.done)
  PROVE  /\ f[OfWalk(Stepped(c, q, w))] = f[OfWalk(w)]
         /\ Distinct(Stepped(c, q, w).done)
  <1> DEFINE v == OfWalk(w)
             i == Upcoming(c, q, w)
             front == Front(w.pending)
             x == Stepped(c, q, w)
             targets == Targets(c, i.model)
  <1>1. /\ w.pending \in Seq(Name) /\ w.done \in Seq(Candidate)
        /\ w = [pending |-> w.pending, done |-> w.done] /\ Len(w.done) \in Nat
    BY LenProperties DEF Walks
  <1>2. /\ Reverse(w.pending) \in Seq(Name) /\ Reverse(w.pending) # <<>>
        /\ Head(Reverse(w.pending)) = Last(w.pending)
        /\ Tail(Reverse(w.pending)) = Reverse(front)
    BY <1>1, ReverseIs, ReverseFront
  <1>3. front \in Seq(Name) /\ Reverse(front) \in Seq(Name)
    BY <1>1, FrontIs, ReverseIs
  <1>4. i \in Candidate /\ i.model \in Model
    BY SteppedIs
  <1>5. targets \in Seq(Name)
    BY <1>4, Names DEF Targets, IsConfig
  <1>6. Identities \in Nat /\ Identities + 1 \in 0..(Identities + 1)
        /\ Identities \in 0..(Identities + 1) /\ Identities + 1 # 0
        /\ Identities + 1 - 1 = Identities
    BY IdentitiesAre
  <1>7. /\ v \in Visits /\ v.depth = Identities + 1 /\ v.done = w.done
        /\ v.names = Reverse(w.pending)
    BY <1>1, <1>2, <1>6 DEF OfWalk, Visits
  <1> HIDE DEF v
  <1>8. /\ ~Through(v) /\ Ahead(c, q, v) = i
        /\ Repeats(c, q, v) <=> \E j \in ToSet(w.done) : Same(i, j)
    BY <1>2, <1>6, <1>7 DEF Through, Ahead, Repeats, Upcoming, AskedFor
  <1>9. f[v] = f[Rest(v, Led(c, q, f, v))]
    BY <1>7, <1>8 DEF Orders, OrderOf
  <1>10. \A done : Rest(v, done) = [depth |-> Identities + 1, done |-> done,
                                    names |-> Reverse(front)]
    BY <1>2, <1>7 DEF Rest
  <1>11. x = IF \E j \in ToSet(w.done) : Same(i, j)
             THEN [pending |-> front, done |-> w.done]
             ELSE [pending |-> front \o Reverse(targets), done |-> Append(w.done, i)]
    <2> HIDE DEF i
    <2>1. Pushed(c, i, w, Reverse(targets))
            = IF \E j \in ToSet(w.done) : Same(i, j)
              THEN [pending |-> front, done |-> w.done]
              ELSE [pending |-> front \o Reverse(targets), done |-> Append(w.done, i)]
      BY <1>1 DEF Pushed
    <2> QED
      BY <2>1 DEF Stepped, After, i
  <1> HIDE DEF i, x, front, targets
  <1>12. CASE \E j \in ToSet(w.done) : Same(i, j)
    <2>1. x.pending = front /\ x.done = w.done
      BY <1>11, <1>12
    <2>2. Led(c, q, f, v) = w.done
      BY <1>7, <1>8, <1>12 DEF Led
    <2>3. f[OfWalk(x)] = f[v]
      BY <1>9, <1>10, <2>1, <2>2 DEF OfWalk
    <2> QED
      BY <2>1, <2>3 DEF v, x
  <1>13. CASE ~(\E j \in ToSet(w.done) : Same(i, j))
    <2> DEFINE done == Append(w.done, i)
               a == [depth |-> Identities + 1, done |-> done, names |-> targets]
               b == [depth |-> Identities, done |-> done, names |-> targets]
    <2>1. x.pending = front \o Reverse(targets) /\ x.done = done
      BY <1>11, <1>13
    <2>2. GoesOn(w.done, done) /\ done \in Seq(Candidate) /\ Len(done) = Len(w.done) + 1
      BY <1>1, <1>4, <1>13, GoesOnByOne, AppendProperties
    <2>3. Distinct(done)
      BY <2>2 DEF GoesOn
    <2>4. Led(c, q, f, v) = f[b]
      <3>1. Below(c, q, v) = b
        <4>1. v.depth - 1 = Identities
          BY <1>6, <1>7
        <4>2. Append(v.done, Ahead(c, q, v)) = done
              /\ Targets(c, Ahead(c, q, v).model) = targets
          BY <1>7, <1>8 DEF targets
        <4> HIDE DEF done
        <4> QED
          BY <4>1, <4>2 DEF Below
      <3> QED
        BY <1>8, <1>13, <3>1 DEF Led
    <2> HIDE DEF done
    <2>5. a \in Visits /\ b \in Visits
      BY <1>5, <1>6, <2>2 DEF Visits
    <2>6. Deep(a) /\ Deep(b) /\ Alike(a, b)
      <3>1. Identities + 1 > Identities - Len(done) /\ Identities > Identities - Len(done)
        BY <1>1, <1>6, <2>2
      <3> QED
        BY <2>3, <3>1 DEF Deep, Alike
    <2>7. f[a] = f[b]
      <3> HIDE DEF a, b
      <3> QED
        BY <2>5, <2>6, DepthIsEnough
    <2>8. f[[depth |-> Identities + 1, done |-> done, names |-> targets \o Reverse(front)]]
            = f[[depth |-> Identities + 1, done |-> f[a], names |-> Reverse(front)]]
      <3>1. a.depth = Identities + 1 /\ a.done = done /\ a.names = targets
        OBVIOUS
      <3> HIDE DEF a
      <3>2. f[Longer(a, Reverse(front))] = f[Onto(a, f[a], Reverse(front))]
        BY <1>3, <2>5, OrderJoins
      <3> QED
        BY <3>1, <3>2 DEF Longer, Onto
    <2> HIDE DEF a, b
    <2>9. Reverse(front \o Reverse(targets)) = targets \o Reverse(front)
      BY <1>3, <1>5, ReverseOver
    <2>10. f[OfWalk(x)] = f[v]
      BY <1>9, <1>10, <2>1, <2>4, <2>7, <2>8, <2>9 DEF OfWalk
    <2> QED
      BY <2>1, <2>3, <2>10 DEF v, x
  <1> QED
    BY <1>12, <1>13

\* Every state of the walk ends with a beginning of the order it has before it, all of it
\* if there is room for more candidates.
LEMMA WalkOrder ==
  ASSUME NEW c, IsConfig(c), NEW q, NEW f, Orders(c, q, f), NEW walk, Walking(c, q, walk),
         NEW w0 \in Walks, Distinct(w0.done), Len(w0.done) <= MaxAttempts, walk[w0] # <<>>
  PROVE  /\ f[OfWalk(w0)] \in Seq(Candidate) /\ walk[w0] \in Seq(Candidate)
         /\ Len(walk[w0]) <= Len(f[OfWalk(w0)])
         /\ \A k \in 1..Len(walk[w0]) : walk[w0][k] = f[OfWalk(w0)][k]
         /\ Len(walk[w0]) < MaxAttempts => walk[w0] = f[OfWalk(w0)]
  <1> DEFINE Begins(s, t) == /\ t \in Seq(Candidate) /\ s \in Seq(Candidate)
                             /\ Len(s) <= Len(t) /\ \A k \in 1..Len(s) : s[k] = t[k]
                             /\ Len(s) < MaxAttempts => s = t
             Fine(w) == Begins(walk[w], f[OfWalk(w)])
             Bad == {w \in Walks : /\ Distinct(w.done) /\ Len(w.done) <= MaxAttempts
                                   /\ walk[w] # <<>> /\ ~Fine(w)}
  <1> SUFFICES ASSUME Bad # {} PROVE FALSE
    OBVIOUS
  <1>1. MaxAttempts \in Nat /\ \A w \in Walks : Len(w.done) \in Nat /\ Len(w.pending) \in Nat
    BY RoutingConstants, LenProperties DEF Walks
  <1>2. PICK w \in Bad : \A x \in Bad :
          /\ Len(x.done) <= Len(w.done)
          /\ Len(x.done) = Len(w.done) => Len(w.pending) <= Len(x.pending)
    <2>1. Bad \subseteq Walks /\ \A x \in Bad : Len(x.done) <= MaxAttempts
      OBVIOUS
    <2> HIDE DEF Bad
    <2> QED
      BY <2>1, WalkEnds
  <1> HIDE DEF Fine
  <1>3. /\ w \in Walks /\ Distinct(w.done) /\ Len(w.done) <= MaxAttempts
        /\ walk[w] # <<>> /\ ~Fine(w) /\ walk[w] = WalkOf(c, q, walk, w)
    BY DEF Walking
  <1>4. OfWalk(w) \in Visits /\ OfWalk(w).done = w.done /\ w.done \in Seq(Candidate)
    <2>1. Reverse(w.pending) \in Seq(Name) /\ w.done \in Seq(Candidate)
      BY <1>3, ReverseIs DEF Walks
    <2>2. Identities + 1 \in 0..(Identities + 1)
      BY IdentitiesAre
    <2> QED
      BY <2>1, <2>2 DEF OfWalk, Visits
  <1>5. GoesOn(w.done, f[OfWalk(w)])
    BY <1>4, OrdersGoOn
  <1>6. ~Planned(w)
    <2> SUFFICES ASSUME Planned(w) PROVE FALSE
      OBVIOUS
    <2>1. walk[w] = w.done
      BY <1>3 DEF WalkOf
    <2>2. w.pending = <<>> => f[OfWalk(w)] = w.done
      <3> SUFFICES ASSUME w.pending = <<>> PROVE f[OfWalk(w)] = w.done
        OBVIOUS
      <3>1. Reverse(w.pending) = <<>>
        <4>1. Len(Reverse(w.pending)) = Len(w.pending) /\ Reverse(w.pending) \in Seq(Name)
          BY <1>3, ReverseIs DEF Walks
        <4> QED
          BY <4>1, EmptySeq
      <3>2. Through(OfWalk(w))
        BY <3>1 DEF Through, OfWalk
      <3> QED
        BY <1>4, <3>2 DEF Orders, OrderOf
    <2>3. Len(w.done) < MaxAttempts => f[OfWalk(w)] = w.done
      BY <1>1, <1>3, <2>2 DEF Planned
    <2>4. Fine(w)
      BY <1>4, <1>5, <2>1, <2>3 DEF Fine, GoesOn
    <2> QED
      BY <1>3, <2>4
  <1> DEFINE x == Stepped(c, q, w)
  <1>7. w.pending # <<>> /\ Len(w.done) < MaxAttempts
    BY <1>1, <1>3, <1>6 DEF Planned
  <1>8. walk[w] = walk[x]
    <2>1. ~Stuck(c, q, w)
      BY <1>3, <1>6 DEF WalkOf
    <2> QED
      BY <1>3, <1>6, <2>1 DEF WalkOf
  <1>9. /\ x \in Walks /\ Distinct(x.done) /\ f[OfWalk(x)] = f[OfWalk(w)]
        /\ \/ x.done = w.done /\ Len(x.pending) = Len(w.pending) - 1
           \/ Len(x.done) = Len(w.done) + 1
    <2>1. Len(Append(w.done, Upcoming(c, q, w))) = Len(w.done) + 1
      BY <1>3, <1>4, <1>7, SteppedIs, AppendProperties
    <2> QED
      BY <1>3, <1>7, <2>1, SteppedIs, OrderOfWalk
  <1> HIDE DEF x
  <1>10. x \in Bad
    <2>1. Len(x.done) <= MaxAttempts
      BY <1>1, <1>3, <1>7, <1>9
    <2>2. ~Fine(x)
      BY <1>3, <1>8, <1>9 DEF Fine
    <2> QED
      BY <1>3, <1>8, <1>9, <2>1, <2>2
  <1> HIDE DEF Bad
  <1>11. /\ Len(x.done) <= Len(w.done)
         /\ Len(x.done) = Len(w.done) => Len(w.pending) <= Len(x.pending)
    BY <1>2, <1>10
  <1>12. Len(w.done) \in Nat /\ Len(x.done) \in Nat /\ Len(w.pending) \in Nat
         /\ Len(x.pending) \in Nat
    BY <1>1, <1>3, <1>9
  <1> QED
    BY <1>9, <1>11, <1>12

\* So a plan is a beginning of the order that the fallbacks are described in.
LEMMA WalkIsPreorder ==
  ASSUME NEW c, IsConfig(c), NEW q, q.name \in Name, Walk(c, q) # <<>>
  PROVE  /\ Walk(c, q) = SubSeq(Preorder(c, q), 1, Len(Walk(c, q)))
         /\ Len(Walk(c, q)) < MaxAttempts => Walk(c, q) = Preorder(c, q)
  <1>1. PICK walk : Walking(c, q, walk) /\ Walk(c, q) = walk[Outset(q)]
    BY WalkExists
  <1>2. PICK f : Orders(c, q, f) /\ Preorder(c, q) = f[Start(q)]
    BY PreorderIs
  <1> DEFINE w == Outset(q)
  <1>3. /\ w \in Walks /\ w.done = <<>> /\ w.pending = <<q.name>>
    BY EmptySeq DEF Walks, Outset
  <1>4. Reverse(<<q.name>>) = <<q.name>>
    <2> DEFINE s == <<q.name>>
    <2>1. s \in Seq(Name) /\ Len(s) = 1 /\ s[1] = q.name
      OBVIOUS
    <2> HIDE DEF s
    <2>2. /\ Reverse(s) \in Seq(Name) /\ Len(Reverse(s)) = Len(s)
          /\ \A i \in 1..Len(s) : Reverse(s)[i] = s[Len(s) - i + 1]
      BY <2>1, ReverseIs
    <2>3. \A i \in 1..Len(s) : Reverse(s)[i] = s[i]
      BY <2>1, <2>2
    <2>4. Reverse(s) = s
      BY <2>1, <2>2, <2>3, SeqEqual
    <2> QED
      BY <2>4 DEF s
  <1>5. OfWalk(w) = Start(q)
    BY <1>3, <1>4 DEF OfWalk, Start
  <1>6. Distinct(w.done) /\ Len(w.done) <= MaxAttempts
    BY <1>3, RoutingConstants DEF Distinct
  <1> HIDE DEF w
  <1> DEFINE s == Walk(c, q)
             t == Preorder(c, q)
  <1>7. /\ t \in Seq(Candidate) /\ s \in Seq(Candidate) /\ Len(s) <= Len(t)
        /\ \A k \in 1..Len(s) : s[k] = t[k]
        /\ Len(s) < MaxAttempts => s = t
    BY <1>1, <1>2, <1>3, <1>5, <1>6, WalkOrder DEF w
  <1> HIDE DEF s, t
  <1>8. Len(s) \in Nat /\ Len(t) \in Nat
    BY <1>7, LenProperties
  <1>9. s = SubSeq(t, 1, Len(s))
    <2> DEFINE n == Len(s)
               u == SubSeq(t, 1, n)
    <2>1. \A i \in 1..n : t[i] \in Candidate
      BY <1>7, <1>8, ElementOfSeq
    <2>2. u \in Seq(Candidate)
          /\ Len(u) = (IF 1 <= n THEN n - 1 + 1 ELSE 0)
          /\ \A i \in 1..(n - 1 + 1) : u[i] = t[1 + i - 1]
      BY <1>8, <2>1, SubSeqProperties
    <2>3. Len(u) = Len(s)
      BY <1>8, <2>2
    <2>4. \A i \in 1..Len(s) : u[i] = s[i]
      BY <1>7, <1>8, <2>2
    <2> HIDE DEF u
    <2>5. u = s
      BY <1>7, <2>2, <2>3, <2>4, SeqEqual
    <2> QED
      BY <2>5 DEF u
  <1> QED
    BY <1>7, <1>9 DEF s, t

\* However a client's requests and the reloads of the config interleave, a request that may
\* be repeated is tried on the first MaxAttempts of the candidates in the order that
\* docs/fallbacks.md describes: the stack of the walk keeps that order, skips what was met
\* and leaves nothing out.
THEOREM PlansInOrder == Spec => []PlanIsPreorder
  <1>1. IInv /\ ConfigsInv /\ RoutesInv /\ [Next]_vars => ConfigsInv' /\ RoutesInv'
    BY NextRoutesInv
  <1>2. ASSUME RoutesInv PROVE PlanIsPreorder
    <2> SUFFICES ASSUME NEW r \in Caller, requests[r].phase = "tries", requests[r].at = 1,
                        HasFallbacks(Effective(Cfg[requests[r].config], HostKey)),
                        ~requests[r].q.stateful, requests[r].q.shape # "uri"
                 PROVE  LET c == Effective(Cfg[requests[r].config], HostKey)
                            q == requests[r].q
                        IN /\ requests[r].plan = SubSeq(Preorder(c, q), 1, Len(requests[r].plan))
                           /\ Len(requests[r].plan) < MaxAttempts
                                => requests[r].plan = Preorder(c, q)
      BY DEF PlanIsPreorder
    <2> DEFINE c == Effective(Cfg[requests[r].config], HostKey)
               q == requests[r].q
               plan == requests[r].plan
    <2>1. /\ requests[r].config \in Config /\ q.name \in Name /\ plan = Candidates(c, q)
          /\ Len(plan) \in Nat /\ 1 \in 1..Len(plan)
      BY <1>2 DEF RoutesInv, Routed
    <2>2. IsConfig(c)
      BY <2>1, EffectiveIs, ServiceConstants
    <2>3. HasFallbacks(c) /\ ~q.stateful /\ q.shape # "uri"
      OBVIOUS
    <2> HIDE DEF c, q, plan
    <2>4. plan = Walk(c, q)
      BY <2>1, <2>3 DEF Candidates, Chain, Repeatable
    <2>5. plan # <<>>
      BY <2>1
    <2>6. /\ plan = SubSeq(Preorder(c, q), 1, Len(plan))
          /\ Len(plan) < MaxAttempts => plan = Preorder(c, q)
      BY <2>1, <2>2, <2>4, <2>5, WalkIsPreorder
    <2> QED
      BY <2>6 DEF c, q, plan
  <1> QED
    BY <1>1, <1>2, InitRoutes, Inductive, PTL DEF Spec

==============================================================================
