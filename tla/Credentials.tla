------------------------------ MODULE Credentials ------------------------------
(***************************************************************************)
(* The resolver of API keys (credentials.rs): a bounded cache of cells,    *)
(* one per source that is a command. Whoever holds the mutex of a cell     *)
(* reads its value, takes over a failure that is younger than its own      *)
(* call, or runs the command; the others wait.                             *)
(*                                                                         *)
(* Two clocks age a value: one that stops while the machine sleeps and the *)
(* wall clock. clock counts calls and failures, so that instants compare.  *)
(***************************************************************************)
EXTENDS Naturals, FiniteSets, Functions

CONSTANTS
  Caller,      \* requests
  Command,     \* sources that are commands
  Capacity     \* cells the cache holds

ASSUME CredentialConstants == Capacity \in Nat \ {0}

VARIABLES
  cells,   \* source -> its cell: when it was made, its value, its last failure
  calls,   \* caller -> its call
  clock

cellVars == <<cells, calls, clock>>

\* A value is young by each of the clocks or not.
NoValue == [there |-> FALSE, young |-> FALSE, wallYoung |-> FALSE]
NewCell == [made |-> clock, value |-> NoValue, failed |-> 0]

\* sawFailure: the call has seen a command of its source fail since it began.
NoCall == [phase |-> "none"]
Ended(k, how) == [phase |-> "ended", how |-> how, sawFailure |-> k.sawFailure]
InCell(r) == calls[r].phase \in {"waits", "runs"}

CredentialsInit ==
  /\ cells = << >>
  /\ calls = [r \in Caller |-> NoCall] /\ clock = 1

AnyCell(s) == TRUE  \* mutant: a cell makes room whoever uses it

\* Nobody has a reference to the cell but the cache.
Idle(s) == \A r \in Caller : InCell(r) => calls[r].source # s

\* Make a cell for the source, if need be in the place of an idle one.
Ask(r, s) ==
  /\ clock' = clock + 1
  /\ LET call(made) == [phase |-> "waits", source |-> s, made |-> made,
                        started |-> clock, sawFailure |-> FALSE]
     IN \/ /\ s \in DOMAIN cells
           /\ calls' = [calls EXCEPT ![r] = call(cells[s].made)]
           /\ UNCHANGED cells
        \/ /\ s \notin DOMAIN cells /\ Cardinality(DOMAIN cells) < Capacity
           /\ cells' = [x \in DOMAIN cells \cup {s} |-> IF x = s THEN NewCell ELSE cells[x]]
           /\ calls' = [calls EXCEPT ![r] = call(clock)]
        \/ /\ s \notin DOMAIN cells /\ Cardinality(DOMAIN cells) >= Capacity
           /\ \E old \in DOMAIN cells :
                /\ Idle(old)
                /\ cells' = [x \in (DOMAIN cells \ {old}) \cup {s} |->
                               IF x = s THEN NewCell ELSE cells[x]]
           /\ calls' = [calls EXCEPT ![r] = call(clock)]
        \/ /\ s \notin DOMAIN cells /\ Cardinality(DOMAIN cells) >= Capacity
           /\ \A old \in DOMAIN cells : ~Idle(old)
           /\ calls' = [calls EXCEPT ![r] = [phase |-> "ended", how |-> "busy", sawFailure |-> FALSE]]
           /\ UNCHANGED cells

\* The mutex of a cell belongs to who runs its command.
Free(r) == \A x \in Caller : calls[x].phase = "runs" =>
             calls[x].source # calls[r].source \/ calls[x].made # calls[r].made

\* The cell a call has, which is the cache's as long as nobody makes room with it.
Cell(k) == IF k.source \in DOMAIN cells /\ cells[k.source].made = k.made THEN cells[k.source]
           ELSE [made |-> k.made, value |-> NoValue, failed |-> 0]

AnyFailure(k) == Cell(k).failed # 0  \* mutant: the failure may be older than the call
SharesFailure(k) == Cell(k).failed > k.started

Enter(r) ==
  /\ calls[r].phase = "waits" /\ Free(r)
  /\ LET k == calls[r]
         v == Cell(k).value
     IN calls' = [calls EXCEPT ![r] =
          IF v.there /\ v.young /\ v.wallYoung THEN Ended(k, "value")
          ELSE IF SharesFailure(k) THEN Ended(k, "shared")
          ELSE [k EXCEPT !.phase = "runs"]]
  /\ UNCHANGED <<cells, clock>>

\* What becomes of a cell that the cache no longer has concerns nobody.
Keep(k, cell) == cells' = IF k.source \in DOMAIN cells /\ cells[k.source].made = k.made
                          THEN [cells EXCEPT ![k.source] = cell]
                          ELSE cells

Succeeds(r) ==
  /\ calls[r].phase = "runs"
  /\ Keep(calls[r], [Cell(calls[r]) EXCEPT
             !.value = [there |-> TRUE, young |-> TRUE, wallYoung |-> TRUE], !.failed = 0])
  /\ calls' = [calls EXCEPT ![r] = Ended(@, "value")]
  /\ UNCHANGED clock

\* The command cannot start, fails, says nothing or too much, or takes 30 seconds.
RunFails(r) ==
  /\ calls[r].phase = "runs"
  /\ Keep(calls[r], [Cell(calls[r]) EXCEPT !.failed = clock])
  /\ clock' = clock + 1
  /\ calls' = [x \in Caller |->
       IF x = r THEN Ended([calls[r] EXCEPT !.sawFailure = TRUE], "failed")
       ELSE IF InCell(x) /\ calls[x].source = calls[r].source
            THEN [calls[x] EXCEPT !.sawFailure = TRUE]
       ELSE calls[x]]

\* The caller goes away; the group of its command is killed and nothing is kept.
Leaves(r) ==
  /\ InCell(r)
  /\ calls' = [calls EXCEPT ![r] = Ended(@, "left")]
  /\ UNCHANGED <<cells, clock>>

\* A value grows old while the machine runs, or while it sleeps.
Ages(s) ==
  /\ s \in DOMAIN cells /\ cells[s].value.there /\ cells[s].value.wallYoung
  /\ \E awake \in BOOLEAN :
       cells' = [cells EXCEPT ![s].value.wallYoung = FALSE, ![s].value.young = @ /\ ~awake]
  /\ UNCHANGED <<calls, clock>>

------------------------------------------------------------------------------
\* No command is run twice at a time, however many callers want its key and however
\* the cache makes room: a command may ask a person, or a service that counts, and
\* the promise is single flight per source, not per cell.
OneCommandPerSource ==
  \A x, y \in Caller : calls[x].phase = "runs" /\ calls[y].phase = "runs" =>
                         x = y \/ calls[x].source # calls[y].source

\* Who did not run the command itself gets an error of a command only if it was there
\* when the command failed: a failure is shared with the callers of its time and never
\* remembered for later ones.
FailuresAreShared ==
  \A r \in Caller : calls[r].phase = "ended" /\ calls[r].how = "shared" => calls[r].sawFailure
==============================================================================
