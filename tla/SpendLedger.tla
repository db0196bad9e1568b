------------------------------ MODULE SpendLedger ------------------------------
(***************************************************************************)
(* The spend ledger (spend.rs): the tracker's bounded queue and its writer *)
(* thread, which may lose what it is given, and the import that makes up   *)
(* for it from the request log's database and from the session files of    *)
(* the Codex and Claude command lines. Several processes import (the       *)
(* proxy's /usage/v1/spend and `hey-proxy usage spend`), each with the     *)
(* cursors it loaded at its start. A transaction of SQLite is one step.    *)
(* Token counts are small numbers, prices whole numbers in a half unit.    *)
(***************************************************************************)
EXTENDS Integers, Sequences, FiniteSets, FiniteSetsExt, SequencesExt, Functions

CONSTANTS
  Importer,     \* the processes that import and report
  Request,      \* requests through the proxy
  UsageOf,      \* per request, what its answer reports in turn, each with more
  CodexLines,   \* the lines the Codex session comes to hold, one usage or model each
  ClaudeLines,  \* those of the Claude session
  Rates,        \* per model [input, cached, output, write, hour, long], prices of a token
  ProviderOf,   \* per model, its provider
  Begins,       \* how many lines each session has before
  Commands,     \* what else is sent to the writer: readings of limits, flushes
  QueueSize,    \* 8192 commands, and a batch the writer has taken
  BatchSize     \* 256 commands

Lines == [codex |-> CodexLines, claude |-> ClaudeLines]

\* record_from_proxy_entry: an entry without tokens is no record.
Counts(u) == u.input > 0 \/ u.output > 0

ASSUME ConstantsOK ==
  /\ QueueSize \in Nat \ {0} /\ BatchSize \in Nat \ {0} /\ IsFiniteSet(Request)
  /\ \A r \in Request : UsageOf[r] \in Seq([model : DOMAIN Rates, input : Nat, cached : Nat,
                                            writes : Nat, hour : Nat, output : Nat])
  /\ \A s \in DOMAIN Lines : Lines[s] \in Seq(Range(Lines[s])) /\ Begins[s] \in 0..Len(Lines[s])
  /\ \A u \in Range(ClaudeLines) \cup {l \in Range(CodexLines) : l.kind # "model"} :
       u.input \in Nat /\ u.output \in Nat
  /\ Begins \in [DOMAIN Lines -> Nat] /\ \A c \in Commands : c.kind \in {"snapshot", "flush"}

\* What has counted goes on counting: the tokens of an answer do not go back to none.
ASSUME UsageGrows ==
  \A r \in Request : \A n \in DOMAIN UsageOf[r], m \in DOMAIN UsageOf[r] :
    n < m /\ Counts(UsageOf[r][n]) => Counts(UsageOf[r][m])

VARIABLES
  known,     \* per request, how many of its usages the proxy has heard
  queue,     \* SpendTracker.sender's channel
  overtaken, \* the keys whose row was what its source holds when another was put over it
  torn,      \* the sources whose cursor stands for rows that were deleted, or never read
  logged,    \* per request, the usage in the log database, its WAL included
  main,      \* the same of the database file, whose time and size are the cursor
  length,    \* per session file, its lines so far
  ledger,    \* spend_ledger, by record_key
  latest,    \* the last row of subscription_snapshots
  cursors,   \* sync_cursors
  priced,    \* whether spend_meta has this version of the prices
  import     \* per importer, where sync_local_sources is

tracker == <<known, queue, overtaken, torn>>
sources == <<logged, main, length>>
store   == <<ledger, latest, cursors, priced>>
vars    == <<tracker, sources, store, import>>

Sources == {"log", "codex", "claude"}

------------------------------------------------------------------------------
\* Prices.

Least(a, b) == IF a < b THEN a ELSE b
Less(a, b)  == IF a < b THEN 0 ELSE a - b
Double(long)  == IF long THEN 4 ELSE 2   \* 2.0 and 1.0 in half units
AndAHalf(long) == IF long THEN 3 ELSE 2  \* 1.5 and 1.0

Priced(model, uncached, cached, writes, hour, output, long) ==
  LET r == Rates[model] IN
  Double(long) * (uncached * r.input + cached * r.cached
                  + (writes - hour) * r.write + hour * r.hour)
  + AndAHalf(long) * output * r.output

\* The price of reported usage, and what it would be without a cache. The price book
\* leaves parts that exceed the whole unpriced; this clips them.
Costs(u) ==
  LET cached == Least(u.cached, u.input)
      writes == Least(u.writes, Less(u.input, cached))
      long   == Rates[u.model].long > 0 /\ u.input > Rates[u.model].long
      cost   == Priced(u.model, Less(Less(u.input, cached), writes), cached, writes,
                       Least(u.hour, writes), u.output, long)
      whole  == Priced(u.model, u.input, 0, 0, 0, u.output, long)
  IN  [cost |-> cost, uncached |-> Max({whole, cost})]

Record(u) == [provider |-> ProviderOf[u.model], tokens |-> u.input + u.output,
              cost |-> Costs(u).cost, uncached |-> Costs(u).uncached]

\* upsert_spend_record: a row that is there already is replaced.
Upsert(old, new) ==
  [k \in DOMAIN old \cup DOMAIN new |-> IF k \in DOMAIN new THEN new[k] ELSE old[k]]

------------------------------------------------------------------------------
\* What the sources hold, as rows for the ledger: a function from keys to records.

Counted(log) == {r \in Request : log[r] > 0 /\ Counts(UsageOf[r][log[r]])}
LogRows(log) ==
  [k \in {<<"proxy", r>> : r \in Counted(log)} |-> Record(UsageOf[k[2]][log[k[2]]])]

\* Mutant of CodexLine: a total that is reported again counts again.
CodexLineAgain(at, line) ==
  IF line.kind = "model" THEN [at EXCEPT !.model = line.model]
  ELSE LET u == [model |-> at.model, input |-> line.input, cached |-> line.cached,
                 writes |-> line.writes, hour |-> 0, output |-> line.output]
       IN  [at EXCEPT !.rows  = IF Counts(line) THEN Append(@, Record(u)) ELSE @,
                      !.limit = IF line.limit > 0 THEN line.limit ELSE @]

\* One line of a Codex session. The running total tells a repeated report from a new one.
CodexLine(at, line) ==
  IF line.kind = "model" THEN [at EXCEPT !.model = line.model]
  ELSE LET new == Counts(line) /\ (line.total = 0 \/ line.total # at.total)
           u   == [model |-> at.model, input |-> line.input, cached |-> line.cached,
                   writes |-> line.writes, hour |-> 0, output |-> line.output]
       IN  [at EXCEPT !.total = IF new THEN line.total ELSE @,
                      !.rows  = IF new THEN Append(@, Record(u)) ELSE @,
                      !.limit = IF line.limit > 0 THEN line.limit ELSE @]
Codex[n \in 0..Len(CodexLines)] ==
  IF n = 0 THEN [model |-> "gpt", total |-> 0, rows |-> <<>>, limit |-> 0]
           ELSE CodexLine(Codex[n - 1], CodexLines[n])
CodexRows == [n \in DOMAIN Codex |->
  [k \in {<<"codex_cli", i>> : i \in DOMAIN Codex[n].rows} |-> Codex[n].rows[k[2]]]]

\* A message is reported once per chunk of its stream; the last report counts.
ClaudeLine(at, line) ==
  IF Counts(line) THEN Upsert(at, [k \in {<<"claude_cli", line.id>>} |-> Record(line)]) ELSE at
ClaudeRows[n \in 0..Len(ClaudeLines)] ==
  IF n = 0 THEN <<>> ELSE ClaudeLine(ClaudeRows[n - 1], ClaudeLines[n])

\* The rows of a source when there is this much of it, how much there is, and how much
\* its file shows: the log's WAL is not in the file.
RowsAt(s, v) == CASE s = "log"    -> LogRows(v)
                  [] s = "codex"  -> CodexRows[v]
                  [] s = "claude" -> ClaudeRows[v]
Now(s)  == IF s = "log" THEN logged ELSE length[s]
Seen(s) == IF s = "log" THEN main ELSE length[s]
Rows(s) == RowsAt(s, Now(s))

\* The time and size of a file change with every line appended to it; those of the log
\* database only when SQLite copies the WAL into it.
Stat(s) == <<Seen(s)>>
Never == <<>>

------------------------------------------------------------------------------
Idle == [at |-> "idle", todo |-> <<>>, loaded |-> [s \in Sources |-> Never], stat |-> Never,
         rows |-> <<>>, limit |-> 0, cut |-> FALSE]

Init ==
  /\ known = [r \in Request |-> 0] /\ queue = <<>> /\ overtaken = {} /\ torn = {}
  /\ logged = [r \in Request |-> 0] /\ main = logged
  /\ length = Begins
  /\ ledger = <<>> /\ latest = 0 /\ cursors = [s \in Sources |-> Never]
  /\ priced \in BOOLEAN
  /\ import = [p \in Importer |-> Idle]

------------------------------------------------------------------------------
\* The tracker. try_send never waits.

Sent(r, n) == [kind |-> "record", request |-> r, usage |-> n]

\* An answer reports usage, or more of it: it is sent to the ledger's writer (and to the
\* log's, see Logs).
Reports(r) ==
  /\ known[r] < Len(UsageOf[r])
  /\ known' = [known EXCEPT ![r] = @ + 1]
  /\ IF Counts(UsageOf[r][known'[r]])
       THEN IF Len(queue) < QueueSize
              THEN queue' = Append(queue, Sent(r, known'[r]))
              ELSE UNCHANGED queue
       ELSE UNCHANGED queue
  /\ UNCHANGED <<overtaken, torn, sources, store, import>>

\* A reading of a subscription's limits, or a flush, is sent. (One of each at a time.)
Sends(command) ==
  /\ Len(queue) < QueueSize /\ \A c \in Range(queue) : c.kind # command.kind
  /\ queue' = Append(queue, command)
  /\ UNCHANGED <<known, overtaken, torn, sources, store, import>>

Snapshots(cs) == SelectSeq(cs, LAMBDA c : c.kind = "snapshot")

\* The rows of a batch: each request's at the last usage in it.
Recorded(cs) == {i \in DOMAIN cs : cs[i].kind = "record"}
RowsOf(cs) ==
  LET last(r) == Max({i \in Recorded(cs) : cs[i].request = r})
  IN  [k \in {<<"proxy", cs[i].request>> : i \in Recorded(cs)} |->
         Record(UsageOf[k[2]][cs[last(k[2])].usage])]

Since(r) == {n \in 1..known[r] : n >= main[r]}

\* Whether a row is what its source holds, or of a request's usages one not older than
\* that in the log's file; and the rows that were, and that older ones are put over.
Current(k, row) == \/ \E s \in {"codex", "claude"} : k \in DOMAIN Rows(s) /\ row = Rows(s)[k]
                   \/ \E r \in Request : /\ k = <<"proxy", r>>
                                         /\ \E n \in Since(r) : row = Record(UsageOf[r][n])
Overtaken(rows) == {k \in DOMAIN rows \cap DOMAIN ledger :
                      Current(k, ledger[k]) /\ ~Current(k, rows[k])}

\* What the writer thread has taken counts as the head of the queue until its transaction
\* ends: it takes what is there, up to a batch.
Batch(n) == SubSeq(queue, 1, n)
Ended(n) == queue' = SubSeq(queue, n + 1, Len(queue))
Batches  == 1..Least(Len(queue), BatchSize)

\* The transaction commits...
Writes ==
  /\ \E n \in Batches :
       /\ Ended(n)
       /\ overtaken' = overtaken \cup Overtaken(RowsOf(Batch(n)))
       /\ ledger' = Upsert(ledger, RowsOf(Batch(n)))
       /\ latest' = IF Snapshots(Batch(n)) = <<>> THEN latest ELSE Last(Snapshots(Batch(n))).reading
  /\ UNCHANGED <<known, torn, sources, cursors, priced, import>>

\* ...or cannot begin or commit, and the batch is gone. Either way the flushes in it are
\* answered, and whoever waits on one goes on.
WriteFails ==
  /\ \E n \in Batches : Ended(n)
  /\ UNCHANGED <<known, overtaken, torn, sources, store, import>>

------------------------------------------------------------------------------
\* The sources, which others write: LogWriter, SQLite's checkpoints, the command lines.

Logs(r) ==
  /\ logged[r] < known[r]
  /\ logged' = [logged EXCEPT ![r] = known[r]]
  /\ UNCHANGED <<tracker, main, length, store, import>>

Checkpoint ==
  /\ main # logged /\ main' = logged
  /\ UNCHANGED <<tracker, logged, length, store, import>>

Appends(s) ==
  /\ length[s] < Len(Lines[s])
  /\ length' = [length EXCEPT ![s] = @ + 1]
  /\ UNCHANGED <<tracker, logged, main, store, import>>

------------------------------------------------------------------------------
\* sync_local_sources. The statements of a reset are not one transaction, and nothing keeps
\* another import from going on between them, or resetting too.

Goes(p, to) == import' = [import EXCEPT ![p] = [@ EXCEPT !.at = to]]

\* The sources to go through. A report of the last days leaves out old session files.
Starts(p, all) ==
  /\ import[p].at = "idle"
  /\ import' = [import EXCEPT ![p] = [Idle EXCEPT
       !.at = IF priced THEN "loading" ELSE "emptying",
       !.todo = IF all THEN <<"log", "codex", "claude">> ELSE <<"log">>]]
  /\ UNCHANGED <<tracker, sources, store>>

\* The prices have changed: everything is imported again.
Empties(p) ==
  /\ import[p].at = "emptying" /\ Goes(p, "clearing")
  /\ cursors' = [s \in Sources |-> Never] /\ torn' = {}
  /\ UNCHANGED <<known, queue, overtaken, sources, ledger, latest, priced>>
Clears(p) ==
  /\ import[p].at = "clearing" /\ Goes(p, "pricing")
  /\ ledger' = <<>> /\ overtaken' = {} /\ torn' = {s \in Sources : cursors[s] # Never}
  /\ UNCHANGED <<known, queue, sources, latest, cursors, priced>>
Prices(p) ==
  /\ import[p].at = "pricing" /\ Goes(p, "loading")
  /\ priced' = TRUE
  /\ UNCHANGED <<tracker, sources, ledger, latest, cursors>>

\* The cursors are read, once. (It keeps those it has still to compare.)
Loads(p) ==
  /\ import[p].at = "loading"
  /\ import' = [import EXCEPT ![p] = [@ EXCEPT !.at = "next", !.loaded =
       [s \in Sources |-> IF s \in Range(import[p].todo) THEN cursors[s] ELSE Never]]]
  /\ UNCHANGED <<tracker, sources, store>>

\* should_sync_file: the time and size of the next source, and whether they are new.
Looks(p) ==
  /\ import[p].at = "next" /\ import[p].todo # <<>>
  /\ LET s == Head(import[p].todo) IN
       import' = [import EXCEPT ![p] =
         IF @.loaded[s] = Stat(s)
           THEN [@ EXCEPT !.loaded[s] = Never, !.todo = Tail(import[p].todo)]
           ELSE [@ EXCEPT !.loaded[s] = Never, !.at = "reading", !.stat = Stat(s)]]
  /\ UNCHANGED <<tracker, sources, store>>

\* The source is read, after its time and size: it may have grown. An error ends the
\* reading of a session, or leaves a row of the log out, and is not told from the end.
Parts(s) == IF s = "log"
              THEN {[r \in Request |-> IF r \in R THEN logged[r] ELSE 0] : R \in SUBSET Request}
              ELSE 0..length[s]
Opens(p) ==
  /\ import[p].at = "reading"
  /\ LET s == Head(import[p].todo) IN \E part \in Parts(s) :
       import' = [import EXCEPT ![p] = [@ EXCEPT !.at = "writing", !.rows = RowsAt(s, part),
                    !.limit = IF s = "codex" THEN Codex[part].limit ELSE 0,
                    !.cut = RowsAt(s, part) # Rows(s)]]
  /\ UNCHANGED <<tracker, sources, store>>

Turned(p) == import' = [import EXCEPT ![p] = [@ EXCEPT !.at = "next", !.todo = Tail(import[p].todo),
                                               !.stat = Never, !.rows = <<>>, !.limit = 0,
                                               !.cut = FALSE]]

\* Mutant of Commits: the time and size are taken when the rows are written.
CommitsLateStat(p) ==
  /\ import[p].at = "writing" /\ Turned(p)
  /\ ledger' = Upsert(ledger, import[p].rows) /\ overtaken' = overtaken \ DOMAIN import[p].rows
  /\ cursors' = [cursors EXCEPT ![Head(import[p].todo)] = Stat(Head(import[p].todo))]
  /\ torn' = IF import[p].cut THEN torn \cup {Head(import[p].todo)} ELSE torn \ {Head(import[p].todo)}
  /\ latest' = IF import[p].limit > 0 THEN import[p].limit ELSE latest
  /\ UNCHANGED <<known, queue, sources, priced>>

\* The rows and the cursor are committed together...
Commits(p) ==
  /\ import[p].at = "writing" /\ Turned(p)
  /\ ledger' = Upsert(ledger, import[p].rows) /\ overtaken' = overtaken \ DOMAIN import[p].rows
  /\ cursors' = [cursors EXCEPT ![Head(import[p].todo)] = import[p].stat]
  /\ torn' = IF import[p].cut THEN torn \cup {Head(import[p].todo)} ELSE torn \ {Head(import[p].todo)}
  /\ latest' = IF import[p].limit > 0 THEN import[p].limit ELSE latest
  /\ UNCHANGED <<known, queue, sources, priced>>

\* ...or fail: a session file that fails leaves what it had written to the transaction of
\* its chunk, without a cursor; nothing is left of a log database.
CommitFails(p) ==
  /\ import[p].at = "writing" /\ Turned(p)
  /\ \E ks \in SUBSET DOMAIN import[p].rows : LET rows == [k \in ks |-> import[p].rows[k]] IN
       /\ Head(import[p].todo) = "log" => ks = {}
       /\ ledger' = Upsert(ledger, rows) /\ overtaken' = overtaken \cup Overtaken(rows)
  /\ UNCHANGED <<known, queue, torn, sources, latest, cursors, priced>>

Ends(p) ==
  /\ import[p].at = "next" /\ import[p].todo = <<>>
  /\ import' = [import EXCEPT ![p] = Idle]
  /\ UNCHANGED <<tracker, sources, store>>

\* A statement of the reset fails, or the process ends: the rest is not done.
Stops(p) ==
  /\ import[p].at # "idle" /\ import' = [import EXCEPT ![p] = Idle]
  /\ UNCHANGED <<tracker, sources, store>>

------------------------------------------------------------------------------
\* generate_spend_report: the sums over the ledger, of a provider and of all.
Sum(part, S) == SumFunction([k \in S |-> ledger[k][part]])
Summary(S) ==
  [requests |-> Cardinality(S), tokens |-> Sum("tokens", S),
   cost |-> Sum("cost", S), uncached |-> Sum("uncached", S)]
ByProvider == [p \in Range(ProviderOf) |-> Summary({k \in DOMAIN ledger : ledger[k].provider = p})]
Report == Summary(DOMAIN ledger)

------------------------------------------------------------------------------
Import(p) == \/ \E all \in BOOLEAN : Starts(p, all)
             \/ Empties(p) \/ Clears(p) \/ Prices(p) \/ Loads(p)
             \/ Looks(p) \/ Opens(p) \/ Commits(p) \/ CommitFails(p) \/ Ends(p) \/ Stops(p)

Next ==
  \/ \E r \in Request : Reports(r) \/ Logs(r)
  \/ \E c \in Commands : Sends(c)
  \/ Writes \/ WriteFails
  \/ Checkpoint \/ \E s \in {"codex", "claude"} : Appends(s)
  \/ \E p \in Importer : Import(p)

Spec == Init /\ [][Next]_vars

------------------------------------------------------------------------------
\* Properties.

TypeOK ==
  /\ Len(queue) <= QueueSize
  /\ \A c \in Range(queue) : c.kind \in {"record", "snapshot", "flush"}
  /\ \A r \in Request : logged[r] \in 0..known[r] /\ main[r] \in 0..logged[r]
  /\ \A k \in DOMAIN ledger : /\ k[1] \in {"proxy", "codex_cli", "claude_cli"}
                               /\ ledger[k].cost \in 0..ledger[k].uncached
  /\ \A p \in Importer : import[p].at = "idle" => import[p] = Idle

\* A cursor that still matches its session file means that every row of the file is in the
\* ledger: should_sync_file will not look at it again. Files grow between the look and the
\* reading, transactions fail, importers overlap, and each may empty the ledger for a new
\* version of the prices. Not so in two cases, torn: an importer deletes the rows (and not
\* the cursor) that another has brought since the first deleted the cursors; an error of
\* reading was taken for the end of the file. Nor for the row of a message that an importer
\* of the shorter file puts over that of the longer one in a transaction that fails half way.
CursorsAreHonest ==
  \A s \in {"codex", "claude"} : cursors[s] = Stat(s) /\ s \notin torn =>
    LET rows == Rows(s) IN \A k \in DOMAIN rows :
      k \in DOMAIN ledger /\ (k \in overtaken \/ ledger[k] = rows[k])

\* Whatever the queue or the writer lost, once an import would find nothing new the report
\* has every turn of Codex and every message of Claude once and at its last usage, and no
\* other; and every request of the log's file once and at a usage not older than there. It
\* has all that was heard of and at the last usage when the file has: the WAL is not looked
\* at. The usage is not so for a row that was overtaken (a request whose earlier usage,
\* still in the queue, was written over what an import had brought), and nothing is so of
\* a source that is torn.
Distinct(i) == LET line == CodexLines[i] IN
  /\ line.kind # "model" /\ Counts(line)
  /\ \/ line.total = 0
     \/ \A j \in 1..(i - 1) : \/ CodexLines[j].kind = "model" \/ ~Counts(CodexLines[j])
                              \/ CodexLines[j].total # line.total
                              \/ \E k \in (j + 1)..(i - 1) : /\ CodexLines[k].kind # "model"
                                                             /\ Counts(CodexLines[k])
                                                             /\ CodexLines[k].total # line.total
Turns(n)    == {i \in 1..n : Distinct(i)}
Messages(n) == {i \in 1..n :
  /\ Counts(ClaudeLines[i])
  /\ \A j \in (i + 1)..n : Counts(ClaudeLines[j]) => ClaudeLines[j].id # ClaudeLines[i].id}
Heard   == Counted(known)
Size(u) == u.input + u.output
TokensOf(f, S) == SumFunction([i \in S |-> Size(f[i])])

Booked == {r \in Request : <<"proxy", r>> \in DOMAIN ledger}

Settled == torn = {} /\ \A s \in Sources : cursors[s] = Stat(s)
SettledReportIsRight ==
  Settled => LET turns    == Turns(length["codex"])
                 messages == Messages(length["claude"])
                 booked   == [r \in Booked |-> ledger[<<"proxy", r>>].tokens]
             IN
    /\ Counted(main) \subseteq Booked /\ Booked \subseteq Heard
    /\ Report.requests = Cardinality(Booked) + Cardinality(turns) + Cardinality(messages)
    /\ overtaken = {} =>
         /\ \A r \in Booked : \E n \in Since(r) : booked[r] = Size(UsageOf[r][n])
         /\ Report.tokens = SumFunction(booked) + TokensOf(CodexLines, turns)
                            + TokensOf(ClaudeLines, messages)
==============================================================================
