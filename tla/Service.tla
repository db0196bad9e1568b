-------------------------------- MODULE Service --------------------------------
(***************************************************************************)
(* A running proxy around its files (proxy.rs, access.rs,                  *)
(* config/secrets.rs): the thread that watches the config and the access   *)
(* keys, another process that encrypts the same config, the editor who     *)
(* writes both files, and the requests, each with the config that was in   *)
(* force when it came, its candidates (Routing) and the API key of each    *)
(* (Credentials).                                                          *)
(*                                                                         *)
(* Configs are numbered. A fingerprint (time and size of the file) is the  *)
(* number of writes of the file, so two writes never have the same one.    *)
(***************************************************************************)
EXTENDS Routing, Credentials

CONSTANTS
  Cfg,         \* Cfg[i]: the config of number i
  Garbled,     \* the numbers of those that are no JSON
  Key,         \* access keys
  HostKey,     \* the literal key of a client's host
  Queries(_),  \* the requests clients make under a config
  Starts       \* what is in the file at the start, and what may still happen

Config == DOMAIN Cfg

ASSUME ServiceConstants ==
  /\ Command \subseteq Source /\ Caller = 1..Cardinality(Caller)
  /\ \A i \in Config : IsConfig(Cfg[i]) /\ \A q \in Queries(i) : q.name \in Name
  /\ \A s \in Starts : /\ s.inForce \in Config /\ Valid(Cfg[s.inForce]) /\ s.config \in Config
                       /\ "others" \in DOMAIN s.left /\ s.left.others \subseteq Config

VARIABLES
  file,      \* [config, plain (has keys in plain text), stamp]
  lock,      \* who holds the lock file of the encryption
  process,   \* watcher and encrypter: where each is, and what it has read
  inForce,   \* the config for new requests
  seen,      \* the fingerprint of the file handled last
  outcome,   \* how that went: taken, refused, busy, failed
  keysFile,  \* the access keys on disk, None if they cannot be read
  access,    \* those in memory: whether their time is less than a second ago, and
             \* whether that is a second later than they were read
  recent,    \* the keys that were on disk at some time in this second
  requests,
  left       \* how many edits, encryptions, requests ... may come, and what edits write

fileVars == <<file, lock, process, inForce, seen, outcome>>
accessVars == <<keysFile, access, recent>>
vars == <<fileVars, accessVars, requests, cellVars, left>>

Process == {"watcher", "encrypter"}
AtRest == [at |-> "rest"]
NotCome == [phase |-> "none"]
Done(how) == [phase |-> "done", how |-> how]

Init ==
  /\ \E s \in Starts : /\ file = [config |-> s.config, plain |-> s.plain, stamp |-> 1]
                       /\ inForce = s.inForce /\ seen = s.seen /\ left = s.left
  /\ lock = "free" /\ process = [p \in Process |-> AtRest]
  /\ outcome = "taken" /\ keysFile = Key
  /\ access = [young |-> TRUE, keys |-> keysFile, late |-> FALSE] /\ recent = keysFile
  /\ requests = [r \in Caller |-> NotCome]
  /\ CredentialsInit

Spend(what) == left[what] > 0 /\ left' = [left EXCEPT ![what] = @ - 1]

------------------------------------------------------------------------------
\* The files from outside

\* Somebody writes the config.
Edit ==
  /\ Spend("edits")
  /\ \E c \in left.others, plain \in BOOLEAN :
       file' = [config |-> c, plain |-> plain, stamp |-> file.stamp + 1]
  /\ UNCHANGED <<lock, process, inForce, seen, outcome, accessVars, requests, cellVars>>

KeysBecome(keys) ==
  /\ Spend("keyEdits")
  /\ keysFile' = keys /\ recent' = recent \cup keys
  /\ UNCHANGED <<fileVars, access, requests, cellVars>>

\* access::ensure gives a client a key, and leaves the others theirs.
Ensure == \E key \in Key \ keysFile : KeysBecome(keysFile \cup {key})

\* Somebody revokes keys, or the file cannot be read any more.
Revoke == \E keys \in SUBSET keysFile \ {keysFile} : KeysBecome(keys)

\* A second passes in which the watcher does not stamp what it has read.
SecondPasses ==
  /\ Spend("seconds")
  /\ access' = [access EXCEPT !.young = FALSE] /\ recent' = keysFile
  /\ IF process["watcher"].at # "stamp" THEN UNCHANGED process
     ELSE process' = [process EXCEPT !["watcher"] = [process["watcher"] EXCEPT !.late = TRUE]]
  /\ UNCHANGED <<file, lock, inForce, seen, outcome, keysFile, requests, cellVars>>

------------------------------------------------------------------------------
\* The watcher's round: access keys, fingerprint, config.

Go(p, to) == process' = [process EXCEPT ![p] = to]

\* A file that cannot be read, or holds an empty key, is one without keys.
ReadKeys == keysFile

RefreshKeys ==
  /\ process["watcher"].at = "rest"
  /\ Go("watcher", [at |-> "stamp", keys |-> ReadKeys, late |-> FALSE])
  /\ UNCHANGED <<file, lock, inForce, seen, outcome, accessVars, requests, cellVars, left>>

KeepOnError(w) ==  \* mutant: keys that cannot be read leave the old ones, made young again
  [young |-> TRUE, keys |-> IF w.keys = {} THEN access.keys ELSE w.keys, late |-> w.late]

\* The time that counts for them is taken after they have been read.
Stamped(w) == [young |-> TRUE, keys |-> w.keys, late |-> w.late]

StampKeys ==
  /\ process["watcher"].at = "stamp"
  /\ access' = Stamped(process["watcher"])
  /\ Go("watcher", [at |-> "keys"])
  /\ UNCHANGED <<file, lock, inForce, seen, outcome, keysFile, recent, requests, cellVars, left>>

\* A fault of the system: the file has no fingerprint.
Unreadable == 0
Fingerprint ==
  /\ process["watcher"].at = "keys"
  /\ \E stamp \in {file.stamp, Unreadable} :
       /\ IF stamp = file.stamp THEN UNCHANGED left ELSE Spend("faults")
       /\ Go("watcher", IF seen = stamp THEN AtRest ELSE [at |-> "load", stamp |-> stamp])
  /\ UNCHANGED <<file, lock, inForce, seen, outcome, accessVars, requests, cellVars>>

\* hey-proxy encrypt-config, or another start of the proxy.
Encrypt ==
  /\ process["encrypter"].at = "rest" /\ Spend("encryptions")
  /\ Go("encrypter", [at |-> "load", stamp |-> 0])
  /\ UNCHANGED <<file, lock, inForce, seen, outcome, accessVars, requests, cellVars>>

Loads == {i \in Config : i \notin Garbled /\ Valid(Cfg[i])}

HandledNow(w) == file.stamp  \* mutant: the fingerprint is taken at the end of the round

\* The fingerprint a round has handled is the one it began with.
Handled(w) == w.stamp

\* The end of protect for one of them, with what it has found. The watcher takes a
\* config over unless its mode is another, and does not come back to this fingerprint
\* either way.
Finishes(p, how, c) ==
  IF p = "encrypter" THEN Go(p, AtRest) /\ UNCHANGED <<inForce, seen, outcome>>
  ELSE /\ Go(p, AtRest)
       /\ seen' = Handled(process[p])
       /\ IF how = "taken" /\ Cfg[c].mode = Cfg[inForce].mode
          THEN inForce' = c /\ outcome' = "taken"
          ELSE inForce' = inForce /\ outcome' = IF how = "taken" THEN "refused" ELSE how

Others == <<accessVars, requests, cellVars, left>>

\* protect reads and validates the file,
Load(p) ==
  /\ process[p].at = "load"
  /\ IF file.config \in Loads
     THEN /\ Go(p, [at |-> "inspect", stamp |-> process[p].stamp, config |-> file.config])
          /\ UNCHANGED <<inForce, seen, outcome>>
     ELSE Finishes(p, "refused", file.config)
  /\ UNCHANGED <<file, lock, Others>>

\* reads it once more for keys in plain text,
Inspect(p) ==
  /\ process[p].at = "inspect"
  /\ IF file.config \in Garbled THEN Finishes(p, "refused", file.config)
     ELSE IF ~file.plain THEN Finishes(p, "taken", process[p].config)
     ELSE /\ Go(p, [process[p] EXCEPT !.at = "lock"])
          /\ UNCHANGED <<inForce, seen, outcome>>
  /\ UNCHANGED <<file, lock, Others>>

\* takes the lock or gives up,
Lock(p) ==
  /\ process[p].at = "lock"
  /\ IF lock = "free"
     THEN /\ lock' = p /\ Go(p, [process[p] EXCEPT !.at = "read"])
          /\ UNCHANGED <<inForce, seen, outcome>>
     ELSE Finishes(p, "busy", process[p].config) /\ UNCHANGED lock
  /\ UNCHANGED <<file, Others>>

\* reads the original again and validates it,
ReadOriginal(p) ==
  /\ process[p].at = "read"
  /\ IF file.config \in Loads
     THEN /\ Go(p, [at |-> "compare", stamp |-> process[p].stamp, config |-> file.config,
                    plain |-> file.plain])
          /\ UNCHANGED <<lock, inForce, seen, outcome>>
     ELSE Finishes(p, "refused", file.config) /\ lock' = "free"
  /\ UNCHANGED <<file, Others>>

IsOriginal(x) == file.config = x.config /\ file.plain = x.plain

CompareNothing(p) ==  \* mutant: the file is replaced whatever has become of it
  /\ process[p].at = "compare"
  /\ Go(p, [at |-> "replace", stamp |-> process[p].stamp, config |-> process[p].config,
            plain |-> process[p].plain, compared |-> file.stamp])
  /\ UNCHANGED <<file, lock, inForce, seen, outcome, Others>>

\* encrypts, and sees whether the file is still the original,
Compare(p) ==
  /\ process[p].at = "compare"
  /\ IF IsOriginal(process[p])
     THEN /\ Go(p, [at |-> "replace", stamp |-> process[p].stamp, config |-> process[p].config,
                    plain |-> process[p].plain, compared |-> file.stamp])
          /\ UNCHANGED <<lock, inForce, seen, outcome>>
     ELSE Finishes(p, "refused", process[p].config) /\ lock' = "free"
  /\ UNCHANGED <<file, Others>>

\* and replaces it.
Encrypted(x) == [config |-> x.config, plain |-> FALSE, stamp |-> file.stamp + 1]
Replace(p) ==
  /\ process[p].at = "replace"
  /\ file' = Encrypted(process[p])
  /\ lock' = "free"
  /\ Finishes(p, "taken", process[p].config)
  /\ UNCHANGED Others

\* Or a step fails, and protect with it: a file cannot be found, read, created, synced or
\* renamed, the key of the encryption is missing or not private. So it does when the directory
\* cannot be synced after the file was replaced, and for the watcher when it has the config
\* and can build no client for it. (An encrypter that is killed also gives up its lock.)
Breaks(p) ==
  /\ process[p].at \in {"load", "inspect", "lock", "read", "compare", "replace"}
  /\ Spend("faults")
  /\ \/ UNCHANGED file
     \/ process[p].at = "replace" /\ file' = Encrypted(process[p])
  /\ lock' = IF process[p].at \in {"read", "compare", "replace"} THEN "free" ELSE lock
  /\ Finishes(p, "failed", file.config)
  /\ UNCHANGED <<accessVars, requests, cellVars>>

Protect(p) == Load(p) \/ Inspect(p) \/ Lock(p) \/ ReadOriginal(p) \/ Compare(p) \/ Replace(p)
              \/ Breaks(p)

------------------------------------------------------------------------------
\* Requests. The config of each of its steps is a snapshot.

Get(r, to) == requests' = [requests EXCEPT ![r] = to]
Files == <<fileVars, accessVars>>

\* authenticate: a host wants a key, one read less than a second ago. Requests come in
\* the order of their numbers.
Known(key) == key \in access.keys
Accepts(key) == access.young /\ Known(key)
Come(r) ==
  /\ requests[r].phase = "none" /\ \A x \in 1..(r - 1) : requests[x].phase # "none"
  /\ Spend("requests")
  /\ \E q \in Queries(inForce) :
       IF Cfg[inForce].mode # "host" THEN Get(r, [phase |-> "admitted", q |-> q, key |-> None])
       ELSE \E key \in Key :
              Get(r, IF Accepts(key) THEN [phase |-> "admitted", q |-> q, key |-> key]
                                     ELSE Done("unauthorized"))
  /\ UNCHANGED <<Files, cellVars>>

\* forward: the second snapshot, and the candidates. What can be rewritten for none of
\* its rules is refused.
Choose(r) ==
  /\ requests[r].phase = "admitted"
  /\ \E plan \in {Candidates(Effective(Cfg[inForce], HostKey), requests[r].q)} :
       Get(r, IF plan = <<>> THEN Done("bad request")
              ELSE [phase |-> "tries", config |-> inForce, q |-> requests[r].q,
                    plan |-> plan, at |-> 1])
  /\ UNCHANGED <<Files, cellVars, left>>

Now(r) == requests[r].plan[requests[r].at]
ByGemini(r) == Now(r).model \in Gemini /\ requests[r].q.shape # "uri"
                 /\ Cfg[requests[r].config].mode # "client"
KeysOf(r) == Effective(Cfg[requests[r].config], HostKey).keys

HasKey(r) == Now(r).project \in DOMAIN KeysOf(r)

\* The API key of the candidate. Gemini has credentials of its own.
Pay(r) ==
  /\ requests[r].phase = "tries"
  /\ \/ /\ ByGemini(r) \/ (HasKey(r) /\ KeysOf(r)[Now(r).project] \notin Command)
        /\ Get(r, [requests[r] EXCEPT !.phase = "sent"]) /\ UNCHANGED cellVars
     \/ /\ ~ByGemini(r) /\ ~HasKey(r)
        /\ Get(r, Done("no credential")) /\ UNCHANGED cellVars
     \/ /\ ~ByGemini(r) /\ HasKey(r) /\ KeysOf(r)[Now(r).project] \in Command
        /\ Ask(r, KeysOf(r)[Now(r).project])
        /\ Get(r, [requests[r] EXCEPT !.phase = "resolves"])
  /\ UNCHANGED <<Files, left>>

Cells == <<Files, requests, left>>
Resolve(r) == (Enter(r) \/ Succeeds(r) \/ RunFails(r)) /\ UNCHANGED Cells
Forget(r) == Leaves(r) /\ UNCHANGED Cells
GrowsOld(s) == Ages(s) /\ Spend("agings") /\ UNCHANGED <<Files, requests>>

\* The key, or an error that is no reason to try another model.
Resolved(r) ==
  /\ calls[r].phase = "ended"
  /\ Get(r, IF calls[r].how = "value" THEN [requests[r] EXCEPT !.phase = "sent"]
            ELSE Done(IF calls[r].how = "left" THEN "left" ELSE "no key"))
  /\ calls' = [calls EXCEPT ![r] = NoCall]
  /\ UNCHANGED <<Files, cells, clock, left>>

\* The upstream's answer ends the request, or its failure goes on to the next candidate.
Answer(r) ==
  /\ requests[r].phase = "sent"
  /\ \/ Get(r, Done("answered"))
     \/ /\ requests[r].at < Len(requests[r].plan)
        /\ Get(r, [requests[r] EXCEPT !.phase = "tries", !.at = @ + 1])
  /\ UNCHANGED <<Files, cellVars, left>>

Watcher == RefreshKeys \/ StampKeys \/ Fingerprint \/ Protect("watcher")
Encrypter == Encrypt \/ Protect("encrypter")
RequestStep(r) == Come(r) \/ Choose(r) \/ Pay(r) \/ Resolve(r) \/ Forget(r) \/ Resolved(r) \/ Answer(r)

Next == \/ Edit \/ Ensure \/ Revoke \/ SecondPasses
        \/ Watcher \/ Encrypter
        \/ \E r \in Caller : RequestStep(r)
        \/ \E s \in Command : GrowsOld(s)

Spec == Init /\ [][Next]_vars

\* The watcher's thread loops, an encryption that has begun goes on.
FairSpec == Spec /\ WF_vars(Watcher) /\ WF_vars(Protect("encrypter"))

------------------------------------------------------------------------------
\* What should hold.

\* Rules in force lead nowhere for ever and nowhere too far, and a config that is refused
\* has a fault of its own, if it was not a file, a key or a client that failed. (The walk
\* that validates keeps a set of the models on its way and bounds the depth at three places.)
Endless == {i \in Config : Chains(Cfg[i].rules, MaxAttempts + 1) # {}}
Crowded(t) == \/ Len(t) >= MaxAttempts
              \/ \E j, k \in DOMAIN t : j # k /\ Plain[t[j]] = Plain[t[k]]
AtFault(c) == \/ \E m \in Model : Crowded(c.rules[m])
              \/ ~c.sane \/ ~ValidMode(c) \/ ~ValidHosts(c.hosts) \/ ~ValidProjects(c)
              \/ c.mode # Cfg[inForce].mode
ValidRulesEnd ==
  /\ inForce \notin Endless
  /\ outcome = "refused" /\ seen = file.stamp =>
       file.config \in Garbled \cup Endless \/ AtFault(Cfg[file.config])

\* A plan is the beginning of the order docs/fallbacks.md describes: it stops at
\* MaxAttempts candidates, though the walk has the rest on its stack.
PlanIsPreorder ==
  \A r \in Caller :
    requests[r].phase = "tries" /\ requests[r].at = 1 =>
      LET c == Effective(Cfg[requests[r].config], HostKey)
          q == requests[r].q
      IN HasFallbacks(c) /\ ~q.stateful /\ q.shape # "uri" =>
           requests[r].plan = SubSeq(Preorder(c, q), 1, Len(requests[r].plan))
             /\ (Len(requests[r].plan) < MaxAttempts => requests[r].plan = Preorder(c, q))

\* Whatever a name, an effort and a chain of rules make of a request, the project it is
\* billed to has a key, unless there are no keys at all: the validation of a config looks
\* at every place the rewriting of a request can take a project from.
RoutesHaveKeys ==
  \A r \in Caller : requests[r].phase = "tries" =>
    ByGemini(r) \/ HasKey(r) \/ DOMAIN KeysOf(r) = {}

\* A key that was off the disk when a second passed without the watcher's stamp opens
\* nothing after it, whether the watcher stalls in its round, fails to read the file or has not
\* seen the change yet. There is one place to stall at which it does open, for another second:
\* between reading the keys and taking their time.
RevokedIsRefused ==
  [][\A r \in Caller :
       requests[r].phase = "none" /\ requests'[r].phase = "admitted" =>
         requests'[r].key \in recent \cup {None} \/ access.late]_vars

\* Encryption never throws away what an editor wrote before the comparison: what is
\* replaced then is what was encrypted. (After the comparison an edit can be lost.)
EditsSurvive ==
  [][\A p \in Process :
       /\ process[p].at = "replace" /\ process'[p].at = "rest"
       /\ process[p].compared = file.stamp
       => file.config = process[p].config /\ file.plain = process[p].plain]_vars

\* When the file stays as it is and can be taken, it comes into force with its keys
\* encrypted, however edits fall between the fingerprint, the three readings and the
\* replacement. A round counts as having handled the file however it ends, and so it does
\* not when the last one gave up because the other process held the lock, or failed for
\* a fault of the system that may have passed: nobody tries again until the file changes.
SettlesOnFile ==
  <>[](file.config \in Loads /\ outcome \notin {"busy", "failed"} =>
         ~file.plain /\ (inForce = file.config \/ Cfg[file.config].mode # Cfg[inForce].mode))
==============================================================================
