# A TLA+ model of hey-proxy

hey-proxy is a local proxy in Rust between coding clients and model providers. It
forwards OpenAI, Codex and Claude traffic over HTTP and WebSocket, translates for
Gemini, recovers refused requests, falls back to other models, keeps subscription
tokens fresh, and logs what happened to every request.

This directory models the parts of it in which order, concurrency, failure and time
decide whether the program is right. TLC checks each module on small instances; for all eight
parts TLAPS proves safety properties for every value of the constants, and that one
implements an abstract specification.

    tlc -workers 2 -config OAuthOneProcess.cfg MCOAuthTokens.tla
    tlapm HttpForwardProofs.tla

`PROJECT.json` lists the runs, what each definition translates (file, lines, symbol), the
hazards of the code and the properties that cover them, and for every property a mutant:
a plausible bug, as an operator beside the definition it would replace, that breaks it.
A mutant's comment in a module begins with `mutant:`. No specification uses one.

## Inventory

Paths are relative to the repository's `src/`, except docs.

| Component | State | Operations | Hard part |
|---|---|---|---|
| Token managers: `claude_auth.rs`, `codex_auth.rs`, their `cache.rs` | credential file, lock file beside it, per process a cache entry with a version, a gate (async mutex) that holds a back-off | token, rejected, background check, refresh, login | several processes and a login around one file; a provider that rotates refresh tokens; crashes; waits |
| HTTP forwarding: `proxy.rs`, `proxy/recovery.rs`, `proxy/capacity.rs` | one request's attempt, retry budget, buffered prelude | send, classify, repeat, pass on | repeating only what the upstream did not begin; one answer for the client; time budget |
| Fallback: `fallback.rs`, `proxy/fallback.rs` | rules; a request's stack of names and candidates | validate, plan, inspect | cycles, aliases, order; commitment to a model |
| WebSocket relay: `proxy/websocket.rs`, `proxy/logs/websocket.rs` | queue, prelude buffer, recovery budget, tracker of responses | receive, send, recover, reconnect, attribute | two independent peers, ambiguous disconnects, interleaved responses |
| Log store: `proxy/logs/store.rs`, `lifecycle.rs`, `logs.rs` | entries by ID, order of the recent ones | begin, update, observe, finish, complete | many ways to end, once; eviction of what is still running |
| Log writer: `proxy/logs/database.rs` | bounded queue, health counters, batch, SQLite, lock file | enqueue, flush, drain, commit, recover | lossy queue, failing commits, restarts, overlapping processes |
| Credential resolver: `credentials.rs` | cells per command source, at most 128, value and failure with two clocks | resolve, ADC headers | single flight, eviction, shared failures |
| Config and access keys: `config.rs`, `config/secrets.rs`, `access.rs`, watcher in `proxy.rs` | snapshot, fingerprint, keys with their age | refresh, snapshot, accepts | stale reads, fail-closed access |
| Claude and Codex routes: `proxy/claude.rs`, `proxy/codex.rs`, `paths.rs` | path cache | forward twice at most | one retry after 401, none of a started stream |
| Usage readings: `proxy/claude/usage.rs`, `proxy/codex/usage.rs`, `proxy/subscription.rs`, `usage/` | one cached reading, back-off, identity | reading, relay | identity changes with the token |
| Spend ledger: `spend.rs` | bounded queue, ledger by key, cursors by file | record, flush, sync, report | lossy batches, double import, files that grow while they are read |
| Rollout: `rollout.rs`, scripts | keys by host | deploy, provision | partial failure across machines |
| Gemini, Chat, Messages adapters: `gemini/`, `proxy/gemini.rs`, `proxy/chat/`, `proxy/messages/` | a stream's open items, sequence numbers, deferred events | feed, finish, fail, recover | incremental conversion, recovery inside a stream |
| Approvals, probes, guidance, replay, overview, queries, prices, CLI | none to speak of | | data mapping |

How they interact: a request passes the access check, takes an immutable snapshot of the
config, and begins an entry in the store, whose guard ends it exactly once. The route
asks a token manager or the credential resolver for a credential, plans its candidates
and forwards. Whatever the store changes that matters it hands, under its mutex, to the
writer's bounded queue without waiting; a thread drains it into SQLite. The relay does
the same for each logged message of a WebSocket. The usage an answer reports goes to the
spend ledger's queue in the same way. Nothing else is shared between requests.

What makes each right:

- token managers: one refresh at a time around one file, no rotated token presented
  again, no rejected token returned, no rollback of file or cache, no endless wait;
- forwarding: the client sees one attempt, nothing that may have been generated is
  generated again (without a chain), output commits the model, recovery ends in time;
- config and fallback: loaded rules end, the plan has the documented order, every candidate's
  project has a key;
- config reload: revoked keys open nothing, an editor's change is not thrown away, the file
  that can be taken comes into force;
- credential resolver: one command per source at a time, failures shared but not remembered;
- relay: the same as forwarding for every message, messages in order, outcomes right;
- store: each request ends once with the truth, the cache holds exactly what it should;
- spend ledger: a cursor vouches for what it skips, a settled report counts everything once;
- adapters: the client's stream is well formed however Gemini's is cut, nothing is lost or
  told twice, a failed turn commits nothing, and the history goes back to Gemini as it was;
- writer: a flush is durable, health tells the truth, the history is straight, recovery
  interrupts exactly what its session left, nothing is stuck.

## Modules

### OAuthTokens: the token manager

Source: `claude_auth.rs` `TokenManager::obtain` and `claude_auth/cache.rs`; the Codex pair
has the same control, and differs in when the login takes the lock (`LoginLocksFirst`) and in that
it can import the tokens of another program (`LoginImports`).

A token pair is the numbers of the grants its access and its refresh token come from.
`disk` is the credential file, `flock` the lock file's holder, `gateq[p]` the fair async
mutex of process p (holder first), `cooling[p]` its value, `cache[p]` and `check[p]` the
cache and the one background check that may still count (a write of the entry bumps the
version, so an older check ends without effect). `pc[r]` is where caller r's task is.
`Call` is `token` or `rejected`: a request of the Claude route, which reports a 401 at its first
attempt and none later (`Unauthorized`), or a reading of the usage, which never does. The
task then takes `EnterGate`, `Read`, `AfterLoad`,
`TakeLock`, `Read`, `AfterReload`, the exchange (`Grant` on the provider's side, `Answer`
or `ExchangeFails`), `Save` or `SaveFails`, `Publish`. A caller that is cancelled leaves
its task running (the code spawns it), so there is no action for it. `Crash` clears a
process's memory and its lock; `Remove` is the user deleting the file. `LoginLock`,
`LoginGrant`, `LoginSave` and `LoginFails` are the login. It is granted tokens of its own for a
code (`CodeBuysGrant`, after `ClaudeSignsIn` or `CodexSignsIn`), or takes those of another program,
which still has them and may have spent the refresh token (`CodexImports`). `granted`, `spent`,
`lost`, `expired`, `published` are the provider's side and history.

A refresh that the provider performed and whose answer was lost leaves a spent refresh
token in the file and nothing anybody could do about it: `lost` records those.

| Run | Instance | Shows |
|---|---|---|
| OAuthTwoProcesses | two processes with a caller each, login, a crash, 3 grants | `OneRefreshAtATime`, `NoRefreshTokenReplayed`, `FileNeverRollsBack` |
| OAuthOneProcess | two callers in a process, login, ageing entries, a crash, 2 grants | `RejectedNeverReturned`, `PublishedNeverRolledBack`, and that `EveryCallEnds` |
| OAuthFailedRefresh | one process | violates `FailedRefreshBacksOff` |

Bounds. Two parties beside the login are what a race on the lock needs; the proofs do
away with the bound. Three grants let a second refresh work on the outcome of a first
beside a login. Two callers show a waiter behind a holder; more only lengthen the queue.
Only process 2 may crash, and entries age only in the one-process run: the questions of
the lock do not depend on the cache.

Fairness: `WF_vars(Task(r))`. A task's every await is bounded in the code (30 s for the
exchange, 40 s for the lock file), and tokio runs what is ready. The login, the
provider and the background check owe nothing.

`FileNeverRollsBack` and `PublishedNeverRolledBack` compare grants by the order of issue,
which is the order of the file only when the login takes the lock first (Claude). The Codex
login is granted its tokens before it takes the lock, so a refresh beside it may be the
newer one and be overwritten; TLC shows that with `LoginLocksFirst = FALSE` both are false,
and they are not claimed of it. The other properties are proved for both orders. With an import
`NoRefreshTokenReplayed` is false as well, and is not claimed: what the other program has spent is
presented once more, and refused. The runs have Claude's order; with `LoginImports = TRUE` TLC
finds the replay, and that the calls still end.

### HttpForward: attempts of one request

Source: `proxy.rs` `forward_request`, `proxy/recovery.rs`, `proxy/capacity.rs`,
`proxy/fallback.rs` `forward`/`inspect`, `fallback.rs` `SsePrelude`.

`phase` is where the request is: `send` (no answer yet), `errorbody` (reading a body that
may mean a refusal), `prelude` (a stream before its output, with a time budget), `inspect`
(a candidate of a chain), `deliver`/`breaking` (passing on, the latter before an error),
and the ends. `Recovers` is `Recovery::retry`; `FailsOver` is the loop over the candidates;
`NewAttempt` drops the buffer. `buffer` and `client` keep each event with the attempt it is
of; `worked` and `heard` record at which attempts the upstream began and at which the
proxy saw output. The upstream may begin to work at every break without the proxy knowing.

Run HttpForward: chains of three, three attempts at one candidate, streams of three events.
Two attempts show every splice and repetition; three candidates have a middle one. Three
events are a prelude, an output and something after it, and reach the buffer's limit.

Fairness: only `BudgetEnds` (time passes) and `TimesOut` (a wait with a deadline returns).
The upstream owes nothing, which is the point of `BudgetEndsRecovery`.

In a chain an encoded body is not read, whatever the answer (`proxy/fallback.rs:212-218`), so that
a refusal in one is the client's: `Headers` lets any answer be delivered unread.

`Exchange` is what this promises a client, without buffers, bodies and budgets: it tries
models in the plan's order, gives nothing while it may try again, and settles on one attempt.
`KeepsPromise` is that HttpForward implements it, with `given` the attempts in `client` and
`stage` settled as soon as the phase is one of passing on; `HttpForwardProofs` proves it.

`NeverGeneratedTwice` is claimed without a chain. With one, the proxy goes on to another
model after a break before output, as `docs/fallbacks.md` says; `OutputCommits` and
`OneAnswer` are what holds then.

### WebSocketRelay: a client's socket and the upstream's

Source: `proxy/websocket.rs`, `proxy/logs/websocket.rs`.

Messages are numbered as they come, and are `create` (wants a response), `named` (logged,
no response of its own) or `plain`. `queue`, `current`, `buffered`, `carried`, `reconnects`
are the task's; `tracker` is `WebSocketTracker`; `log` the outcome of each guard;
`upstream` and `worked` what the upstream has and has begun. `Sends` pops the queue,
`PreludeEvent`/`Resend`/`GivesUp` recover refusals on the same connection, `Reconnects` keeps
only what was never sent, `Observe` is the tracker. Several responses may be in flight and
interleave.

Assumed of the upstream: it creates responses in the order of the messages, and
(`NamelessErrors = FALSE`) leaves the response's name out of an error only if it is the
only one in flight. Repeated handshakes carry no message, so only their outcome is an
action. The code's limit of 64 is one constant for queue and prelude; the model has two,
so that each can be reached in a small instance. When the task has returned, its budget is
cleared, which only merges final states.

| Run | Instance | Shows |
|---|---|---|
| WebSocketRelay | three messages, a queue of two, two sendings, one reconnection | `NeverWorkedTwice`, `OneAttempt`, `OutcomesRight`, `SentInOrder` |
| WebSocketNameless | two messages, `NamelessErrors = TRUE` | violates `OutcomesRight` |

Three messages are one recovered, one in flight beside it and one queued behind; with a
queue of two the limit is met.

### RequestLog: the store and its guards

Source: `proxy/logs/store.rs`, `proxy/logs/lifecycle.rs`, the terminal events of
`proxy/logs.rs` `UsageReader`.

`entries`, `order`, `nextId` are the cache under its lock, so that each operation is one
step. `phase` follows a request through its handler, its body, and the two late phases: a
body whose declared length was reached before its end was polled (`late`), and a socket
message that was failed past its guard (`returning`). `truth` records what the request
was, what it heard and how it ended; `saved` is the outcome in the last snapshot handed to
the writer, and what becomes of it is LogWriter's.

Run RequestLog: three requests, at most two of which are let in, a cache of two. Two
concurrent requests and a refused one meet every order of ends and evictions, and an entry
outlives its place.

### LogWriter: the persistent log

Source: `proxy/logs/database.rs`.

A session is one run of the proxy; sessions follow each other or overlap on one database.
`Log`, `Send`, `Logged` are `enqueue` with the shared counters in the code's order (pending
before the send; after it enqueued, or for a refused event pending and then dropped, each in a
step), `HealthCall` and `HealthLooks` are `health()`, which takes no lock and reads one counter
after the other, `FlushCall` .. `FlushTimesOut` the flush of a
shutdown, `Initialize` and `Refuse` the writer's start, `Receive`, `Park`, `Commit`,
`Committed`, `CommitFails`, `Answer` its loop, `Crash` and `Close` the ends. `db` has a row
per request, the timeline and the drop count, written in one transaction.

`HealthyMeansComplete` is about a whole health call: if it answers healthy and had read nothing
pending, every event whose enqueue had returned when the call began is in the database. More
would be false: an event that is being refused has left pending and is not yet counted as
dropped, and a call between the two answers healthy. (`Refuse` moves a refused event from one
count to the other in one step, for it does so after the last error has been set, which a
health call reads between them. The code's loads and stores are relaxed; the model
interleaves them in program order.)

| Run | Instance | Shows |
|---|---|---|
| LogWriter | two sessions, one of which may crash and fail | `FlushIsDurable`, `HealthyMeansComplete`, `DurableHistory`, `RecoveryIsExact` |
| LogWriterSettles | one session | `EventsSettle`, `DropsReachTheDatabase` |

Bounds. Queue and batch of two with three events overflow the queue, fill a batch and leave
a rest. The second session logs one event: it is there to recover, and to be kept out. Health
is asked for in the first (`Asking`) while it is alone and no flush waits (`AskedAlone`): the
call reads only what its own session's handlers and writer change. The proof has no such bound.

Fairness: the writer thread and a handler that has begun are scheduled, the flush interval
ends, and `SF_vars(Commit(s))`: SQLite does not fail for ever. A writer that gives up on a
closed session after 5 s of failures is `Lost`, and not claimed to settle.

### Service, Routing, Credentials: a running proxy around its files

Source: the watcher, `authenticate`, `rewrite` and `forward` of `proxy.rs`; `config.rs`,
`config/secrets.rs`, `access.rs`; `fallback.rs`, `proxy/fallback.rs`; `credentials.rs`.

`Routing` has no variables. `Valid` is what a config is refused for: `ValidRules` with the
recursion over the rules as a recursive function `Depths` of the way that led to a model (the code
keeps the models on it in a set, and a memo that changes no answer), `ValidProjects`, `ValidMode`, `ValidHosts`. `Rewritten` is what an alias makes of a name,
an effort and a shape; `Walk` the stack machine that plans the candidates; `Alone` the request
without rules.

`Credentials` is the cache of cells. `Ask` finds or makes a cell, if need be in the place of one
nobody holds; `Enter` is the caller that gets the cell's mutex; `Succeeds`, `RunFails` and `Leaves`
are how its command ends (the last is the caller that is dropped); `Ages` is a value that
grows old by the monotonic clock, the wall clock, or both.

`Service` composes the two with the files. `file` and `keysFile` are on disk, `inForce`, `seen` and
`access` in memory. The watcher's round is `RefreshKeys` (the file is read) and `StampKeys` (its
time is taken, and both are published), `Fingerprint` and then `protect` in its
steps `Load`, `Inspect`, `Lock`, `ReadOriginal`, `Compare`, `Replace`, which `Encrypt` (another
process) runs as well; an editor's `Edit` falls between any two. Each step of `protect` may also
fail for a fault of the system (`Breaks`): a file cannot be found, read, created, synced or renamed,
the key of the encryption is missing or not private, or no client can be built for the config. It
may do so with the file already replaced, when the directory cannot be synced. A fingerprint may be
missing (`Unreadable`). A request is let in by `Come`,
planned by `Choose` under the config in force then, and gets its key by `Pay` and the steps of
Credentials; `Answer` is its upstream, in as much as a plan goes on to its next candidate.

Run Service starts in one of six kinds of state, each with a budget (`left`) of what may still
happen: the editor (two edits), the watcher and the encrypter with five configs, in plain text
or not; the same with one edit and two faults of the system; a reload and two changes of the access keys under a request; three requests at a key
cache of one cell (128 in the code); a client's config and one without keys; and each of 648
rule tables of four models with seven rewritings, planned for up to three candidates (16 in
the code). Four models are one more than a chain may have, so chains that are just too long
exist. One cell is what two commands compete for.

`ValidRulesEnd` compares `Valid` with the chains as sets of sequences, in both directions;
`PlanIsPreorder` the stack machine with the recursive order of `docs/fallbacks.md`;
`RoutesHaveKeys` the validation with the rewriting. `OneCommandPerSource`, `FailuresAreShared`,
`RevokedIsRefused`, `EditsSurvive` and `SettlesOnFile` are about interleavings.

Fairness: the watcher's thread loops for ever and an encryption that has begun goes on.
Requests, editors and commands owe nothing.

What the run needs to be true, and a reader should know:

- A round that found the lock file taken, or in which anything failed, counts as having handled the
  file, so its change waits for the next one (`outcome` "busy" and "failed" are excluded from
  `SettlesOnFile`; `docs/configuration.md:86` says "normally"). One read that fails for a moment
  is enough to keep a good config out until it is written again.
- The comment in `accepts` says "Fail closed if the filesystem/watcher stalls". It does at every
  place but one: the time of the keys is taken after they are read (`proxy.rs:403-404`), so a read
  that takes long publishes keys that are old already, and opens the proxy with them for another second.
  `late` records such a stall and `RevokedIsRefused` excepts it; without the exception TLC finds
  the request that is let in.
- While the watcher is busy with a slow reload, access keys grow old and requests are
  refused, which is the safe side.
- An edit between the comparison and the rename is lost, which `EditsSurvive` does not deny.

### Conversation: the adapters for Gemini

Source: `gemini/`, `proxy/gemini.rs`, `proxy/chat/`, `proxy/messages/`.

A client talks in one of four shapes: Responses, Chat Completions, Messages over Chat (for
an OpenAI model or a Gemini model in its place), and Messages straight onto Gemini. Text is a
sequence of numbers of fragments, so that a lost, doubled or swapped one shows. Gemini calls a
tool by the name it was declared with or by another that means it alone (its plain name in a
namespace, `Aliases`), and the client is told of the tool (`Resolved`); the carrier (the sealed
native turn that a client keeps) has the name Gemini used. A carrier is opaque and opens under its
own key and model only. Arguments that break a strict schema are the empty ones. A hosted search
names paths in its arguments, and which tools these find is a choice (`SearchTurn`), the same for
all searches of a turn; a search without paths is an error.

| Module | Source | Models |
|---|---|---|
| GeminiTurn | `partial.rs`, `response.rs`, `validate.rs`, `replay.rs` | calls in pieces, a whole reply as items, sealed turns |
| ResponseStream | `gemini/stream.rs` | the converter as a record: `Feed`, `Finish`, `Fail`, recovery of a truncated call |
| GeminiRequest | `gemini/request.rs`, `gemini/tool_search.rs` | a history made into contents, the replay of carriers, the hosted search |
| ChatShape | `proxy/chat/` | events into chunks, items into a message, a history into items |
| MessagesShape | `proxy/messages/` | chunks or native events into blocks, a history into chat messages or contents |
| Conversation | `proxy/gemini.rs`, `proxy/chat.rs`, `proxy/messages.rs` | the state machine around them |
| ConversationProps | | the properties |

`Asks` converts the history and sends it; `Arrives` is a native event (with `more`, another one is
decoded from the same read before anything is sent); `Eof` finishes the reply or recovers it by
a second request in the same stream, which `Resumes`; `Interrupted` is a transport that breaks;
`Answers`, `Reasks` and `Searches` are whole replies and the turns of a hosted search; `Continues`
is the client, who keeps what it got (or strips what it cannot read), answers its calls, may
change the model and asks again. Ghosts: `native` is what Gemini said in the turn, `turns` what
the turns before have said, `used` the tokens of all attempts.

Run Conversation: 22 kinds of clients (shape, stream or whole, tools, strict schema, token
limit, searches with and without a schema, reasoning shown or not), each with an alphabet of
native events that reaches its branches; three events and two answered turns in a
conversation, two rounds of a hosted search (16 in the code), and three manners of going on:
keeping all, changing the model, and stripping with an instruction in the middle. Three events
are an attempt, its recovery and something after; the third request sees two turns of history.
The alphabets have calls by another name, arguments that break a strict schema, parts of other kinds
with and without a signature, and searches that find nothing, something or have no paths. These are
133,000 states.

`NeverRefused` excepts fields the docs refuse and, outside the Responses shape, carriers of
another route, as the docs say. Its third exception is a disagreement with the docs, which the run
shows to be needed: Gemini may call a client's search by its plain name, `tool_search`. The
call is accepted and told (`resolve_tool`, `response.rs:7-40`), and its result, which
`docs/compatibility.md:25` has the client replay, is refused with 400 if the carrier was kept, for
the result of a search is taken only if the carrier's call has the name the search was declared with
(`request.rs:828-832`). A client that drops the carrier is not refused.

`TurnsRestored` has an exception as well. A part that is neither text nor a call is shown to the
client as it is (`gemini_part`), with its signature, and comes back as the client has it
(`request.rs:762-797`): so that signature goes to another model after a change of the route,
while all others go back to their own model only.

Observed on the way, and not against any document: with calls suppressed, the carrier's call is
replayed without a result; a native Messages turn in which Gemini said nothing is replayed as an
empty content; a turn cut off in its last recovery keeps several generations' signatures; on a
conversion failure the events of the same read are dropped, which leaves a gap in the sequence
numbers. The properties are worded for that. So is `FailureCommitsNothing` for a hosted search: its
earlier turns are told as they end, and each that found something has its items done and, with
a strict schema, its text on the wire before a later turn fails. The response that failed lists what
was found and told, and may list the turn that failed too (`tool_search.rs:154` comes before the
searches that may fail). What a client keeps is what was declared done, which ends in what was found.

### SpendLedger: what was spent

Source: `spend.rs`.

`queue` is the tracker's bounded channel, which drops what does not fit; `Writes` and `WriteFails`
are a batch that commits or is gone, both of which answer the flushes in it. `logged` and `main`
are the request log and what of it has left the WAL (`Checkpoint`), `length` the lines of the Codex
and Claude sessions, which grow by `Appends`. An importer goes through `Loads`, and per source
`Looks` (time and size against the cursor loaded at the start), `Opens` (it may have grown since,
and the reading may end early) and `Commits` or `CommitFails`; when the prices have changed,
`Empties`, `Clears` and `Prices` come first, in steps of their own and whatever other importers do.
`Stops` is a failed statement of the reset or the end of the process. `CodexLine` and `ClaudeLine`
are the readers of session lines, `Record` a usage and its price, `Report` the sums.

Run SpendLedger: two importers beside the tracker, a request whose usage grows once, a Codex
session that repeats a total, a Claude session that grows by a second report of its message;
queue and batch of two, so that the queue overflows and a batch mixes. In the run imports
overlap, find a session grown and read only a part once the proxy is quiet and its log in the
database file, and one importer works at a time before (`OverlapWhenQuiet`): what an importer meets
of the tracker it meets alone as well. The proof needs no such bound.

The code does not keep the plain claim that a cursor which matches its file hides nothing, and
the model shows three ways it fails. Each is recorded in a variable of its own, the
properties except exactly what is recorded, and without the exceptions TLC finds them violated:

- `torn`, a reset beside another import. Two processes of the new version both find the old prices
  (`spend.rs:738`). The first empties cursors and ledger, and imports; then the second, which had
  emptied the cursors before, empties the ledger again (`spend.rs:745-748`). The first one's cursor
  now vouches for rows that are gone, until its file changes. Nothing serializes imports:
  `/usage/v1/spend` (`proxy/subscription.rs:218`) and `usage spend` each start one.
- `torn`, a reading cut short. A line that cannot be read ends a session (`map_while`,
  `spend.rs:962`), a row that cannot be read is left out of the log (`flatten`, `spend.rs:920`), and
  the cursor of the whole file is written all the same.
- `overtaken`, a row put over a newer one. A request's older usage, still in the queue, is
  written over the imported one, and its last usage is then lost; or an importer that had opened
  a Claude session before it grew fails half way (`CommitFails`) after another one committed
  the longer file, with a cursor that vouches for it. Such a row is there, with an older value.

`SettledReportIsRight` speaks of a state in which nothing is torn and an import would find nothing
new: every cursor has the time and size of its file. For the sessions the report is then exact. For the
proxy's requests it has every one of the log's database file and no usage older than there;
what is only in the WAL an import does not look for (`spend.rs:876`), so a request may be missing,
or be at an older usage, until a checkpoint.

## Where code and documentation differ

- OAuthFailedRefresh. `docs/claude-subscription.md:56` says that transient refresh failures
  back off. A refresh that the provider answered and whose save fails does not
  (`claude_auth.rs:315`): the next request presents the refresh token again at once.
- WebSocketNameless. With two responses in flight, an error that names none is attributed to
  neither (`proxy/logs/websocket.rs:54`): if the failed one was first in line, the next
  response created is taken for it, and the log's outcomes are wrong from there on, though
  a test of the repository expects each outcome with its message.
- A third is an exception of `NeverRefused` and has no run of its own: the result of a client's
  search that Gemini called by its plain name is refused (see Conversation).

## Proofs

The eight proof modules hold for every value of the constants that satisfies the assumption the
modelled module states (`ConstantsOK`; `RoutingConstants` and `ServiceConstants`;
`ConversationConstants`): any number of processes, callers, sessions, requests and messages, plans and
streams of any length, any limit. Each states an inductive invariant, which TLC has
checked as an invariant of the runs before it was proved, and derives the properties from it.

| Module | Theorems, and the property of a run each states |
|---|---|
| OAuthTokensProofs | `TypeCorrect`, `RefreshesExclude` (`OneRefreshAtATime`), `NoReplay` (`NoRefreshTokenReplayed`), `RejectedStaysRejected` (`RejectedNeverReturned`), `NoRollBack` (`PublishedNeverRolledBack`), `FileMovesForward` (`FileNeverRollsBack`) |
| HttpForwardProofs | `TypeCorrect`, `AnswerOfOneAttempt` (`OneAnswer`), `RecoveryIsSafe` (`NeverGeneratedTwice`), `Commitment` (`OutputCommits`), `ImplementsExchange` (`KeepsPromise`) |
| RequestLogProofs | `Types`, `CacheIsExact` (`CacheExact`), `OutcomesAreHonest` (`OutcomeHonest`), `OutcomesStick` (`FinalSticks`) |
| LogWriterProofs | `TypeCorrect`, `FlushesAreDurable` (`FlushIsDurable`), `HealthTellsTheTruth` (`HealthyMeansComplete`), `HistoryIsStraight` (`DurableHistory`), `RecoveryExact` (`RecoveryIsExact`) |
| WebSocketRelayProofs | `TypeCorrect`, `WorkIsNotRepeated` (`NeverWorkedTwice`), `AnswersOfOneAttempt` (`OneAttempt`), `OutcomesAreRight` (`OutcomesRight`), `OrderIsKept` (`SentInOrder`) |
| ServiceProofs | `SingleFlight` (`OneCommandPerSource`), `SharedWithItsTime` (`FailuresAreShared`), `RevocationBites` (`RevokedIsRefused`), `EditsAreKept` (`EditsSurvive`), `RoutesPaid` (`RoutesHaveKeys`), `RulesEnd` (`ValidRulesEnd`), `PlansInOrder` (`PlanIsPreorder`), `EncryptionsExclude` |
| SpendLedgerProofs | `LedgerInvariant`, `CursorsHideNothing` (`CursorsAreHonest`), `SettledReports` (`SettledReportIsRight`), `SettledLedger` |
| ConversationProofs | `ConversationKeeps`, `FailuresCommitNothing` (`FailureCommitsNothing`) |

Four theorems assume something of a constant, as their properties' runs do: `NoReplay` that the
login does not take over another program's tokens (`~LoginImports`), `NoRollBack` and
`FileMovesForward` that it takes the lock first, as Claude's does, and `OutcomesAreRight` that errors name their response while others are in flight (`~NamelessErrors`).
Without it each is false, as the model shows.

`OAuthTokensProofs` goes in layers. Types need `GateInv` (whoever works behind a gate is the
head of its queue, so the queue has a tail) and `HoldsInv` (an exchange has tokens). The lock
needs `LockInv`: `flock` is r exactly when r is in its locked section, and the login likewise.
No-replay needs `BoundInv` (grants are numbered, so a new one is spent nowhere), `FileInv` (a
spent token is in the file only while its successor is on the way), `HandInv` (what is about
to be presented or saved is not spent) and `LoginInv` (nobody else knows what a login is
about to save). That no rejected token is returned needs that every token known anywhere is
of a grant made (`KnownInv`), so that the next grant is newer than what a caller reported
(`AnswerInv`). That nothing rolls back needs the order of what is on its way: under the lock
the holder's grant is newer than the file (`FileInOrder`), and neither the file, nor what was
read from it behind the gate or by a check that still counts, is older than what has been
published (`CacheInOrder`). A superseded check may hold older tokens: that is what the
version is for.

`HttpForwardProofs`: `IInv` adds four parts to the properties: nothing of an undecided
attempt has reached the client and no output of it has been seen (`Undecided`); what is held
back is of the current attempt (`BufferOfAttempt`); each phase belongs to a chain or to
recovery (`Ways`); and in the phases that may still repeat without a chain, the upstream has
worked on nothing (`Unworked`). The last is what makes `NeverGeneratedTwice` inductive: a step
that sets `worked` leaves those phases. The proof follows the code's shape: one lemma each for
another attempt (`Repeated`), an attempt that goes on (`Moved`), one that ends (`Passed`),
recovery, fail-over and passing on, and then one short lemma per action.

Its second half proves that HttpForward implements Exchange: initial states map to
initial states, and each action to one of Exchange or to a stutter. Beside `IInv` it needs
`OneModel` (without a chain no other model is tried), or a retry could skip a model.

`RequestLogProofs` has two halves. `StoreInv` is the cache by itself: the order holds the last
IDs given out, in sequence, and an entry is there exactly for these and for the requests
without an outcome. `RequestsInv` is each request by itself: until it has an outcome its
entry mirrors what it truly was, and what is persisted is never taken back. What `Begin` and
`Update` do to the cache is proved once (`BeginStep`, `UpdateStep`); a handler's step is then a
change to one entry that keeps its end (`Follows`) and to one request that agrees with it (`Fits`).

`LogWriterProofs` follows an event from handler to timeline. Its numbers increase along
timeline, batch and queue (`OrderInv`), except while a committed batch is still in memory:
then each of its events is durable (`StepInv`), so a commit never repeats one. An accepted
event is in one of the three places unless the session is lost (`PlaceInv`), the pending count
is exactly what handler, queue and batch hold (`CountInv`), and a flush is behind every event
it answers for (`FlushInv`). Between sessions there is only the lock file (`LockInv`).
`HealthyMeansComplete` then follows a health call through its looks (`ReadInv`): when it
read nothing pending, no event whose enqueue had returned was held, so each was durable or had been
dropped and counted, or the writer had failed, which the later looks at the error, at
ready and at the drops still see, for drops are never taken back. That rows agree with the timeline needs what a batch makes of each
row, which is the last of its lines of that row (`Largest` of a finite set of numbers, by
induction). Sessions and requests are finitely many (`ConstantsOK`), for a recovery lists rows.

`WebSocketRelayProofs`: of each message the invariant says where it is. The queue is the tail
of what came (`QueueInv`); a request in flight is pending in the tracker or has one response
(`TrackerInv`); a recovered prelude is of the one message in flight (`TaskInv`), and the
buffer leads from what the tracker knows to the upstream's stage (`FlightInv`); what was
worked on and what the client has is of the last sending of its message (`SentInv`). The last
is what a repetition has to keep, and does, because only what nobody has begun to work on is
repeated. `Exact` adds, if errors name their response, that the tracker's attribution is right.

`ServiceProofs`: `Shared` and `Unfailed` (a cell in use is the one the cache has, and its last
failure was before the calls that have seen none) give the resolver's properties;
`Holds` and `Originals` (whoever is past the lock holds it, and who is about to replace the file
still has what is there unless somebody wrote it since) those of the file; `AccessInv` (keys
that open, and those that were read and not stamped yet, were on disk in this second, if their time
is not late) that of the access keys. `EncryptionsExclude` is the
mutual exclusion these rest on, which no run states by itself.

`RoutesPaid` rests on `ConfigsInv` (the config in
force and those the watcher and the encrypter have read are valid) and on `RoutesInv`
(every candidate of a planned request is paid). The second compares
the places `ValidProjects` looks at with all that `Rewritten` and `RewrittenUri` take a project
from, and needs that a plan consists of identities. The walk is a
recursive function over states of the stack; each branch is a result or a call of itself, and
such an equation has a solution whether or not it ends (`TailRecursion`: the result of the run
that starts there, if there is one). What it returns is then shown by the least state that would
return something else: with each call the attempts left decrease, or they stay and the stack shrinks.

`RulesEnd` has two halves. For the first, `Depths` finds a number for a model exactly if no chain
from it has more than `MaxAttempts` models, for any rules and any bound: a number found is the
length of a longest chain (`DepthsSound`); and where none is found, either a way of that many
models was walked, which is a chain, or a way met itself, and going round it gives chains of every
length (`CyclesAreEndless`, `DepthsComplete`). So `Valid` lets through what the chains say
(`ValidRulesAre`). For the second, a refusal is of what is in the file while the fingerprints
agree: `FaultsInv` says that a watcher in its round that has the fingerprint of now has read what
is there now, and that a config it refused with that fingerprint, where nothing failed, has a fault of its own.

`PlansInOrder` is about one recursion against another. `Preorder` goes down with less depth or along
with fewer names (`OrderExists`), only adds to what it has, without a repetition (`OrderGoesOn`),
and there are no more identities than names times projects (`DistinctAreFew`), so its depth makes
no difference (`DepthIsEnough`) and a list of names can be taken in two parts (`OrderJoins`).
The order of a state of the walk is what it has done and then the stack from its top. Every step of
the walk keeps it (`OrderOfWalk`): pushing the targets in reverse before the rest of the stack is
what the order does by going down. The walk then ends with a beginning of that order (`WalkOrder`).
`RoutesInv` says that a request keeps the plan made of its config. Names and projects are finitely
many (`RoutingConstants`): those of the configs and requests of a run.

`SpendLedgerProofs` reads a source as a sequence of versions (per request the usage in the log,
of a session its length), which only grow. An importer has the stat of a version and rows of one
that is not older (`ImportsFollow`), no cursor is ahead of its file (`CursorsFollow`), and while it
equals the file's the ledger has the rows of the version now (`RowsAreThere`). That a longer
session never lacks a key of a shorter one, and that equal stats are equal versions, makes a
commit keep it, if what was read was whole; a reset that empties the ledger leaves each cursor there is
among the torn. The other direction is `NothingElse`: the ledger has no key that no source has had, for a queued usage counts and what
counts goes on counting (`UsageGrows`: an answer's tokens do not go back to none). `SettledLedger`
puts the two together, for every row and its price. `SettledReports` then follows from the
readers of session lines: by the least line at which it fails, the running total of a Codex
session is the last one reported, so what the reader takes for new is what `Distinct` says, and
the rows of a Claude session are the last reports of its messages. The library's sums are shown
to take their elements in any order (`SumStep`), along a renaming (`SumAlong`) and over sets that
are apart (`SumUnion`), by the least set for which one would not.

`ConversationProofs` follows the converter through all its functions, for any requests, native
events and conversations; of the constants it assumes the four shapes and that a native event
has a list of parts (`ConversationConstants`). Its invariant `Fit` says what a stream that has
not ended may have told. Between two native events the converter is a whole record that has
emitted only items begun and their pieces (`Conv`), the chat or Messages state behind it has
told no finish, no stop and no signature (`Going`), and with a strict schema no text is on the
wire or pending (`Quiet`), for `Deferred` keeps it until `Finish` has completed the reply
(`TellsFit`). Messages straight onto Gemini have begun blocks and extended them (`NativeGoes`).
A hosted search has told whole turns of which the last thing is what it found (`HostedFit`). The
property itself is about what a client reads from its wire in the end, so each way to end is
taken through the facade and the client's reader: a stream that ends in a failure has told only
what `Fit` allows and an error (`ToldFair`, `HostedFair`). The folds of the model are the hard
part, for the provers take no operator as a parameter. Their steps are therefore named: `Step`
is one operator with a name for each of sixteen steps, `Good` what each of them keeps,
`FoldExists` and `FoldGood` that such a fold is defined and keeps it, by the least set of
positions for which it would not.

Only model-checked:

- Liveness, and what needs ENABLED, is beyond this prover: `EveryCallEnds`,
  `BudgetEndsRecovery`, `EventsSettle`, `DropsReachTheDatabase`, `SettlesOnFile`.
- What recursive definitions and folds compute. The library's theorems on recursive
  definitions and folds take an operator as a parameter, which no installed prover can
  instantiate; in places a proof by the least counterexample does instead (`RoutesPaid`, `RulesEnd`,
  `PlansInOrder`, `SettledReports`, `FailuresCommitNothing`). It shows what each step keeps, and
  not what all of them come to, which is what the other properties of Conversation are about:
  `StreamWellFormed`, `ReplyIsWhole`, `TurnsRestored`, `HistoryPaired` and `NeverRefused` compare
  what several conversions make of a whole conversation.

In LogWriter and WebSocketRelay a few operators are written for the proofs: tlapm misreads an
`@` inside another EXCEPT, so these are spelt out, and `StillPending` is a recursive function.
In Conversation, `Only` is the filter of a list as a fold, where the library's is recursive.

## Abstractions common to all modules

Requests, names, tokens and payloads are numbers or model values. Time is a choice: what
expires may expire at any moment. Formats, headers, JSON and prices are left out except
where a decision depends on them, which is then a nondeterministic choice of the outcomes
the code distinguishes. A write that renames a synced file is atomic, and so is a SQLite
transaction. The process's memory is lost in a crash, the files are not.

## Not modelled, and why

`PROJECT.json` names every part with its reason.

- Fleet rollout (`rollout.rs` and its scripts): a sequential program whose state is on other
  machines, behind SSH. Only the validation of its inventory is in Routing.
- Usage readings of subscriptions (`proxy/*/usage.rs`, `usage/`): a cache that feeds a display.
- The Codex route (`proxy/codex.rs`): headers and paths around the token manager.
- Model registry, prices, log queries, dashboard, overview, recommendation, CLI: read-only
  mapping or output. (The registry follows fallback targets without their aliases.)
- Approvals, probes, guidance, replay, the SSE decoder: functions of one request or of bytes.
- Inside modelled parts: media, generation options, schema rewriting, headers, formats of
  encryption, the refusal of WebSocket requests while there are fallback rules.

## Plan

The modules were written with the most important behaviour first: OAuthTokens, LogWriter,
HttpForward, WebSocketRelay, RequestLog, SpendLedger, Conversation, Service with Routing and
Credentials, Exchange. The safety properties of all but Conversation are proved, and of
Conversation that a failed turn commits nothing.

What would come next: that a stream is well formed (`StreamWellFormed`), whose invariant would
have to say which items are open, and with which numbers, after each step of the same folds.
