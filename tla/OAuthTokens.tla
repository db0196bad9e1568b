----------------------------- MODULE OAuthTokens -----------------------------
(***************************************************************************)
(* The subscription token manager: TokenManager::obtain and the token      *)
(* cache in front of it (claude_auth.rs, claude_auth/cache.rs; the Codex   *)
(* pair is its twin).  Several proxy processes and one login command share *)
(* an encrypted credential file and a lock file beside it.  In a process   *)
(* the requests share a token cache and an async mutex, the gate, whose    *)
(* value is the time until which a failed refresh backs off.               *)
(*                                                                         *)
(* A token pair is known by the numbers of the grants its access and its   *)
(* refresh token come from; 0 stands for "no token".  Time is abstract:    *)
(* a cache entry is fresh (under 250 ms old), aging (under 2 s) or old, an *)
(* access token expires and a back-off ends at any moment.                 *)
(***************************************************************************)
EXTENDS Naturals, Sequences, FiniteSets

CONSTANTS
  Proc,             \* the proxy processes
  Req,              \* the callers of the token manager
  Home,             \* Home[r]: the process caller r runs in
  MaxGrant,         \* bounds the grants the provider issues
  Aging, Crashing,  \* bound the processes whose cache entry ages, or that crash
  Expiring,         \* bounds the grants whose access token expires
  LoginLocksFirst,  \* TRUE: claude-login; FALSE: codex-login
  LoginImports,     \* TRUE: codex-login may import the tokens of another program
  Login, NoOne      \* holders of the lock file that are no caller

ASSUME ConstantsOK ==
  /\ Home \in [Req -> Proc]
  /\ MaxGrant \in Nat \ {0}
  /\ Aging \subseteq Proc /\ Crashing \subseteq Proc /\ Expiring \subseteq 1..MaxGrant
  /\ LoginLocksFirst \in BOOLEAN /\ LoginImports \in BOOLEAN
  /\ LoginImports => ~LoginLocksFirst
  /\ Login \notin Req /\ NoOne \notin Req /\ Login # NoOne

VARIABLES
  disk,      \* the token pair in the credential file, NoTokens if it cannot be loaded
  flock,     \* who holds the lock file
  gateq,     \* gateq[p]: the gate of p, first its holder, then the waiters in order
  cooling,   \* cooling[p]: the gate holds a back-off that has not ended
  cache,     \* cache[p]: the cache entry
  check,     \* check[p]: the background file check that may still count
  pc,        \* pc[r]: where caller r is in obtain
  rejected,  \* rejected[r]: the access token r reports as rejected, or 0
  seen,      \* seen[r]: what r last read from the file
  fresh,     \* fresh[r]: what the provider granted r (or the login)
  result,    \* result[r]: the access token r got, 0 for an error
  login,     \* where the login command is
  granted,   \* the number of grants issued so far
  spent,     \* refresh tokens the provider has rotated away
  lost,      \* spent refresh tokens whose successor never reached the file
  expired,   \* access tokens within a minute of their expiry
  published  \* published[p]: the newest grant p has refreshed and cached

vars == <<disk, flock, gateq, cooling, cache, check, pc, rejected, seen, fresh,
          result, login, granted, spent, lost, expired, published>>
provider == <<granted, spent, expired>>
caches   == <<cache, check>>

Grants   == 1..MaxGrant
NoTokens == [acc |-> 0, ref |-> 0]
Tokens   == [acc : Grants, ref : Grants] \cup {NoTokens}
Owner    == Req \cup {Login}

NoEntry == [held |-> "none", tok |-> NoTokens, age |-> "fresh"]
Entry   == [held : {"none", "token", "error"}, tok : Tokens, age : {"fresh", "aging", "old"}]

\* What a load of the file puts in the cache: the tokens, or the error.
FreshEntry(tok) ==
  [held |-> IF tok = NoTokens THEN "error" ELSE "token", tok |-> tok, age |-> "fresh"]

\* A background check captures the cache's version and ends without effect when
\* the version has changed. Every write of the entry changes it, so at most one
\* check can still count, the one the entry's flag `checking` speaks of: a write
\* supersedes it, and superseded checks are not kept.
Check      == [stage : {"none", "running", "read"}, tok : Tokens]
Superseded == [stage |-> "none", tok |-> NoTokens]
Running    == [stage |-> "running", tok |-> NoTokens]

\* Where a caller holds the gate, where it also holds the lock file, and where
\* it has given its refresh token to the provider.
AtGate     == {"load", "loaded", "flock", "reload", "reloaded", "sent", "granted", "save",
               "publish"}
AtLock     == {"reload", "reloaded", "sent", "granted", "save", "publish"}
Exchanging == {"sent", "granted", "save"}
PCs        == AtGate \cup {"idle", "gate", "done"}

TypeOK ==
  /\ disk \in Tokens
  /\ flock \in Owner \cup {NoOne}
  /\ gateq \in [Proc -> Seq(Req)]
  /\ cooling \in [Proc -> BOOLEAN]
  /\ cache \in [Proc -> Entry]
  /\ check \in [Proc -> Check]
  /\ pc \in [Req -> PCs]
  /\ rejected \in [Req -> 0..MaxGrant]
  /\ seen \in [Req -> Tokens]
  /\ fresh \in [Owner -> Tokens]
  /\ result \in [Req -> 0..MaxGrant]
  /\ login \in {"idle", "locked", "granted", "ready"}
  /\ granted \in 0..MaxGrant
  /\ spent \subseteq Grants
  /\ lost \subseteq Grants
  /\ expired \subseteq Grants
  /\ published \in [Proc -> 0..MaxGrant]

Init ==
  /\ disk = [acc |-> 1, ref |-> 1]
  /\ flock = NoOne
  /\ gateq = [p \in Proc |-> <<>>]
  /\ cooling = [p \in Proc |-> FALSE]
  /\ cache = [p \in Proc |-> NoEntry]
  /\ check = [p \in Proc |-> Superseded]
  /\ pc = [r \in Req |-> "idle"]
  /\ rejected = [r \in Req |-> 0]
  /\ seen = [r \in Req |-> NoTokens]
  /\ fresh = [o \in Owner |-> NoTokens]
  /\ result = [r \in Req |-> 0]
  /\ login = "idle"
  /\ granted = 1
  /\ spent = {}
  /\ lost = {}
  /\ expired = {}
  /\ published = [p \in Proc |-> 0]

------------------------------------------------------------------------------
\* The cache: Cache::get, store, failure and checked.

Refuses(p, rej) == /\ cache[p].held = "token"
                   /\ rej # 0
                   /\ cache[p].tok.acc = rej
Validates(p, rej) == /\ cache[p].held # "none"
                     /\ ~Refuses(p, rej)
                     /\ cache[p].age = "aging"
                     /\ check[p].stage = "none"
Hit(p, rej) == /\ cache[p].held # "none"
               /\ ~Refuses(p, rej)
               /\ cache[p].age # "old"
               /\ cache[p].held = "token" => cache[p].tok.acc \notin expired

\* What get does to the cache: a token reported as rejected is dropped, an
\* aging entry gets a background check, and nothing else changes.
Get(p, rej) ==
  IF Refuses(p, rej)
  THEN /\ cache' = [cache EXCEPT ![p] = NoEntry]
       /\ check' = [check EXCEPT ![p] = Superseded]
  ELSE IF Validates(p, rej)
  THEN /\ check' = [check EXCEPT ![p] = Running]
       /\ cache' = cache
  ELSE UNCHANGED caches

\* store, and failure when the load failed.
StoreKeepsCheck(p, tok) ==  \* mutant: the version is not bumped
  /\ cache' = [cache EXCEPT ![p] = FreshEntry(tok)]
  /\ check' = check

Store(p, tok) ==
  /\ cache' = [cache EXCEPT ![p] = FreshEntry(tok)]
  /\ check' = [check EXCEPT ![p] = Superseded]

ReadCheck(p) ==
  /\ check[p].stage = "running"
  /\ check' = [check EXCEPT ![p] = [stage |-> "read", tok |-> disk]]
  /\ UNCHANGED <<disk, flock, gateq, cooling, cache, pc, rejected, seen, fresh, result,
                 login, lost, published, provider>>

\* checked, when the version is still the captured one.
ApplyCheck(p) ==
  /\ check[p].stage = "read"
  /\ cache' = [cache EXCEPT ![p] = FreshEntry(check[p].tok)]
  /\ check' = [check EXCEPT ![p] = Superseded]
  /\ UNCHANGED <<disk, flock, gateq, cooling, pc, rejected, seen, fresh, result, login,
                 lost, published, provider>>

------------------------------------------------------------------------------
\* obtain

UsableByTimeAlone(r, tok) == \* mutant: the rejected token is not compared
  /\ tok # NoTokens
  /\ tok.acc \notin expired

Usable(r, tok) == /\ tok # NoTokens
                  /\ tok.acc \notin expired
                  /\ tok.acc # rejected[r]

\* A task's locals are gone when it ends.
Drop(f, r) == [f EXCEPT ![r] = NoTokens]

Ends(r, token) ==
  /\ pc' = [pc EXCEPT ![r] = "done"]
  /\ result' = [result EXCEPT ![r] = token]
  /\ seen' = Drop(seen, r)
  /\ fresh' = Drop(fresh, r)

GoesTo(r, label) ==
  /\ pc' = [pc EXCEPT ![r] = label]
  /\ UNCHANGED result

\* Go on with the same locals.
Continues(r, label) == GoesTo(r, label) /\ UNCHANGED <<seen, fresh>>

\* The task's locals drop at its end: the gate passes to the next waiter.
LeaveGate(r) == gateq' = [gateq EXCEPT ![Home[r]] = Tail(@)]

HitToken(p) == cache[p].tok.acc

\* The Claude route's loop: the upstream answers 401 to the first of its two attempts.
Unauthorized(r, rej) ==
  pc[r] = "done" /\ rej = result[r] /\ rej # rejected[r] /\ rejected[r] = 0

\* A caller asks for a token, or reports the one it got as rejected.
\* The cache answers, or the work goes to a task of its own that waits for the gate.
Call(r, rej) ==
  LET p == Home[r] IN
  /\ (pc[r] = "idle" /\ rej = 0) \/ Unauthorized(r, rej)
  /\ rejected' = [rejected EXCEPT ![r] = rej]
  /\ Get(p, rej)
  /\ \/ Hit(p, rej) /\ Ends(r, HitToken(p)) /\ UNCHANGED gateq
     \/ /\ ~Hit(p, rej)
        /\ pc' = [pc EXCEPT ![r] = "gate"]
        /\ result' = [result EXCEPT ![r] = 0]
        /\ gateq' = [gateq EXCEPT ![p] = Append(@, r)]
        /\ UNCHANGED <<seen, fresh>>
  /\ UNCHANGED <<disk, flock, cooling, login, lost, published, provider>>

\* The caller has used its answer and comes back later as a new one.
Finish(r) ==
  /\ pc[r] = "done"
  /\ pc' = [pc EXCEPT ![r] = "idle"]
  /\ rejected' = [rejected EXCEPT ![r] = 0]
  /\ result' = [result EXCEPT ![r] = 0]
  /\ UNCHANGED <<disk, flock, gateq, cooling, caches, seen, fresh, login, lost, published,
                 provider>>

\* The gate is r's: look in the cache once more.
EnterGate(r) ==
  LET p == Home[r] IN
  /\ pc[r] = "gate"
  /\ gateq[p] # <<>> /\ Head(gateq[p]) = r
  /\ Get(p, rejected[r])
  /\ \/ Hit(p, rejected[r]) /\ Ends(r, HitToken(p)) /\ LeaveGate(r)
     \/ ~Hit(p, rejected[r]) /\ Continues(r, "load") /\ UNCHANGED gateq
  /\ UNCHANGED <<disk, flock, cooling, rejected, login, lost, published, provider>>

\* Read the file, without the lock (load) and with it (reload).
Read(r) ==
  /\ \/ pc[r] = "load" /\ GoesTo(r, "loaded")
     \/ pc[r] = "reload" /\ GoesTo(r, "reloaded")
  /\ seen' = [seen EXCEPT ![r] = disk]
  /\ UNCHANGED <<disk, flock, gateq, cooling, caches, rejected, fresh, login, lost,
                 published, provider>>

\* A load that fails is cached as an error; a usable token is cached and returned.
AfterLoad(r) ==
  /\ pc[r] = "loaded"
  /\ \/ /\ seen[r] = NoTokens \/ Usable(r, seen[r])
        /\ Store(Home[r], seen[r])
        /\ Ends(r, seen[r].acc)
        /\ LeaveGate(r)
     \/ /\ seen[r] # NoTokens /\ ~Usable(r, seen[r])
        /\ Continues(r, "flock")
        /\ UNCHANGED <<caches, gateq>>
  /\ UNCHANGED <<disk, flock, cooling, rejected, login, lost, published, provider>>

\* The lock file is tried every 50 ms for 40 s; a lock still held then is an error,
\* and so is a lock file that cannot be opened.
LockGivenUpOn(r) ==  \* mutant: after the deadline go on without the lock
  /\ pc[r] = "flock"
  /\ Continues(r, "reload") /\ UNCHANGED gateq
  /\ flock' = r
  /\ UNCHANGED <<disk, cooling, caches, rejected, login, lost, published, provider>>

FileNotReloaded(r) ==  \* mutant: what was read before the lock is used under it
  /\ pc[r] = "flock"
  /\ flock = NoOne /\ flock' = r /\ Continues(r, "reloaded")
  /\ UNCHANGED <<disk, gateq, cooling, caches, rejected, login, lost, published, provider>>

LockAwaitedForever(r) ==  \* mutant: no deadline
  /\ pc[r] = "flock"
  /\ flock = NoOne /\ flock' = r /\ Continues(r, "reload")
  /\ UNCHANGED <<disk, gateq, cooling, caches, rejected, login, lost, published, provider>>

TakeLock(r) ==
  /\ pc[r] = "flock"
  /\ \/ flock = NoOne /\ flock' = r /\ Continues(r, "reload") /\ UNCHANGED gateq
     \/ Ends(r, 0) /\ LeaveGate(r) /\ UNCHANGED flock
  /\ UNCHANGED <<disk, cooling, caches, rejected, login, lost, published, provider>>

\* Under the lock: the file may hold tokens another process refreshed meanwhile.
AfterReload(r) ==
  /\ pc[r] = "reloaded"
  /\ \/ /\ Usable(r, seen[r])
        /\ Store(Home[r], seen[r])
        /\ Ends(r, seen[r].acc) /\ LeaveGate(r) /\ flock' = NoOne
     \/ /\ seen[r] = NoTokens \/ (~Usable(r, seen[r]) /\ cooling[Home[r]])
        /\ Ends(r, 0) /\ LeaveGate(r) /\ flock' = NoOne /\ UNCHANGED caches
     \/ /\ seen[r] # NoTokens /\ ~Usable(r, seen[r]) /\ ~cooling[Home[r]]
        /\ Continues(r, "sent") /\ UNCHANGED <<gateq, flock, caches>>
  /\ UNCHANGED <<disk, cooling, rejected, login, lost, published, provider>>

\* The provider's side of a refresh: a new access token, and a new refresh token
\* unless it keeps the old one. A spent refresh token gets nothing.
Grant(r, rotates) ==
  /\ pc[r] = "sent"
  /\ seen[r].ref \notin spent
  /\ granted < MaxGrant
  /\ granted' = granted + 1
  /\ fresh' = [fresh EXCEPT ![r] = [acc |-> granted + 1,
                                    ref |-> IF rotates THEN granted + 1 ELSE seen[r].ref]]
  /\ spent' = IF rotates THEN spent \cup {seen[r].ref} ELSE spent
  /\ GoesTo(r, "granted")
  /\ UNCHANGED <<disk, flock, gateq, cooling, caches, rejected, seen, login, lost, expired,
                 published>>

Answer(r) ==
  /\ pc[r] = "granted"
  /\ Continues(r, "save")
  /\ UNCHANGED <<disk, flock, gateq, cooling, caches, rejected, login, lost,
                 published, provider>>

\* The refresh tokens that are lost for good when r's grant is.
LostBy(r) == IF pc[r] \in {"granted", "save"} THEN spent \cap {seen[r].ref} ELSE {}

\* Refused, unreachable, timed out after 30 s or answered with nonsense.
ExchangeFails(r) ==
  /\ pc[r] \in {"sent", "granted"}
  /\ lost' = lost \cup LostBy(r)
  /\ cooling' = [cooling EXCEPT ![Home[r]] = TRUE]
  /\ Ends(r, 0) /\ LeaveGate(r) /\ flock' = NoOne
  /\ UNCHANGED <<disk, caches, rejected, login, published, provider>>

\* atomic_write renames a synced file into place.
Save(r) ==
  /\ pc[r] = "save"
  /\ disk' = fresh[r]
  /\ Continues(r, "publish")
  /\ UNCHANGED <<flock, gateq, cooling, caches, rejected, login, lost,
                 published, provider>>

\* The write fails, before the rename or in the directory sync after it.
SaveFails(r) ==
  /\ pc[r] = "save"
  /\ \/ UNCHANGED disk /\ lost' = lost \cup LostBy(r)
     \/ disk' = fresh[r] /\ UNCHANGED lost
  /\ Ends(r, 0) /\ LeaveGate(r) /\ flock' = NoOne
  /\ UNCHANGED <<cooling, caches, rejected, login, published, provider>>

Publish(r) ==
  /\ pc[r] = "publish"
  /\ Store(Home[r], fresh[r])
  /\ cooling' = [cooling EXCEPT ![Home[r]] = FALSE]
  /\ published' = [published EXCEPT ![Home[r]] = fresh[r].acc]
  /\ Ends(r, fresh[r].acc) /\ LeaveGate(r) /\ flock' = NoOne
  /\ UNCHANGED <<disk, rejected, login, lost, provider>>

------------------------------------------------------------------------------
\* The login command, in a process of its own.

LoginDoesNotLock ==  \* mutant: the login leaves the lock file alone
  /\ \/ LoginLocksFirst /\ login = "idle" /\ login' = "locked"
     \/ login = "granted" /\ login' = "ready"
  /\ UNCHANGED <<disk, flock, gateq, cooling, caches, pc, rejected, seen, fresh, result,
                 lost, published, provider>>

LoginLock ==
  /\ flock = NoOne
  /\ \/ LoginLocksFirst /\ login = "idle" /\ login' = "locked"
     \/ login = "granted" /\ login' = "ready"
  /\ flock' = Login
  /\ UNCHANGED <<disk, gateq, cooling, caches, pc, rejected, seen, fresh, result, lost,
                 published, provider>>

\* claude-login has its code and the lock file; codex-login has no lock yet, whether it
\* signs in by a browser or by a device's code.
ClaudeSignsIn == login = "locked" /\ login' = "ready"
CodexSignsIn  == ~LoginLocksFirst /\ login = "idle" /\ login' = "granted"

\* The authorization code buys a grant of its own, with a new refresh token.
CodeBuysGrant ==
  /\ ClaudeSignsIn \/ CodexSignsIn
  /\ granted < MaxGrant
  /\ granted' = granted + 1
  /\ fresh' = [fresh EXCEPT ![Login] = [acc |-> granted + 1, ref |-> granted + 1]]
  /\ UNCHANGED spent

\* codex-login --import-codex-home takes tokens that were granted to another program, which
\* still has them and may have spent the refresh token: new ones, or once more those the
\* file had at the start. (If the other spends it later, all that comes of it here is an
\* exchange that fails, and any may.)
CodexImports ==
  /\ LoginImports /\ CodexSignsIn
  /\ \E g \in {1, granted + 1} \cap Grants :
       /\ granted' = IF g > granted THEN g ELSE granted
       /\ fresh' = [fresh EXCEPT ![Login] = [acc |-> g, ref |-> g]]
       /\ spent' \in {spent, spent \cup {g}}

LoginGrant ==
  /\ CodeBuysGrant \/ CodexImports
  /\ UNCHANGED <<disk, flock, gateq, cooling, caches, pc, rejected, seen, result, lost,
                 expired, published>>

LoginSave ==
  /\ login = "ready"
  /\ disk' = fresh[Login]
  /\ login' = "idle"
  /\ flock' = NoOne
  /\ fresh' = Drop(fresh, Login)
  /\ UNCHANGED <<gateq, cooling, caches, pc, rejected, seen, result, lost, published,
                 provider>>

LoginFails ==
  /\ login # "idle"
  /\ login' = "idle"
  /\ flock' = IF flock = Login THEN NoOne ELSE flock
  /\ fresh' = Drop(fresh, Login)
  /\ UNCHANGED <<disk, gateq, cooling, caches, pc, rejected, seen, result, lost,
                 published, provider>>

------------------------------------------------------------------------------
\* The surroundings: time, the file's owner, and the death of a process.

AgeEntry(p) ==
  /\ p \in Aging
  /\ cache[p].held # "none" /\ cache[p].age # "old"
  /\ cache' = [cache EXCEPT ![p].age = IF @ = "fresh" THEN "aging" ELSE "old"]
  /\ UNCHANGED <<disk, flock, gateq, cooling, check, pc, rejected, seen, fresh, result,
                 login, lost, published, provider>>

Expire(g) ==
  /\ g <= granted /\ g \notin expired
  /\ expired' = expired \cup {g}
  /\ UNCHANGED <<disk, flock, gateq, cooling, caches, pc, rejected, seen, fresh, result,
                 login, lost, published, granted, spent>>

Cooled(p) ==
  /\ cooling[p]
  /\ cooling' = [cooling EXCEPT ![p] = FALSE]
  /\ UNCHANGED <<disk, flock, gateq, caches, pc, rejected, seen, fresh, result, login,
                 lost, published, provider>>

\* The user deletes the credentials, or the file becomes unreadable.
Remove ==
  /\ disk # NoTokens
  /\ disk' = NoTokens
  /\ UNCHANGED <<flock, gateq, cooling, caches, pc, rejected, seen, fresh, result, login,
                 lost, published, provider>>

\* A process dies and starts again: its memory is gone, the system drops its lock.
Crash(p) ==
  LET mine == {r \in Req : Home[r] = p} IN
  /\ p \in Crashing
  /\ \E r \in mine : pc[r] # "idle"
  /\ lost' = lost \cup UNION {LostBy(r) : r \in mine}
  /\ flock' = IF flock \in mine THEN NoOne ELSE flock
  /\ gateq' = [gateq EXCEPT ![p] = <<>>]
  /\ cooling' = [cooling EXCEPT ![p] = FALSE]
  /\ cache' = [cache EXCEPT ![p] = NoEntry]
  /\ check' = [check EXCEPT ![p] = Superseded]
  /\ pc' = [r \in Req |-> IF r \in mine THEN "idle" ELSE pc[r]]
  /\ rejected' = [r \in Req |-> IF r \in mine THEN 0 ELSE rejected[r]]
  /\ result' = [r \in Req |-> IF r \in mine THEN 0 ELSE result[r]]
  /\ seen' = [r \in Req |-> IF r \in mine THEN NoTokens ELSE seen[r]]
  /\ fresh' = [o \in Owner |-> IF o \in mine THEN NoTokens ELSE fresh[o]]
  /\ published' = [published EXCEPT ![p] = 0]
  /\ UNCHANGED <<disk, login, provider>>

------------------------------------------------------------------------------
\* A step of the task a call runs in.
Task(r) ==
  \/ EnterGate(r) \/ Read(r) \/ AfterLoad(r) \/ TakeLock(r) \/ AfterReload(r)
  \/ \E rotates \in BOOLEAN : Grant(r, rotates)
  \/ Answer(r) \/ ExchangeFails(r) \/ Save(r) \/ SaveFails(r) \/ Publish(r)

Next ==
  \/ \E r \in Req : Task(r) \/ Finish(r) \/ \E rej \in 0..MaxGrant : Call(r, rej)
  \/ \E p \in Proc : \/ ReadCheck(p) \/ ApplyCheck(p) \/ AgeEntry(p) \/ Cooled(p) \/ Crash(p)
  \/ \E g \in Expiring : Expire(g)
  \/ LoginLock \/ LoginGrant \/ LoginSave \/ LoginFails \/ Remove

Spec == Init /\ [][Next]_vars

\* Every await of the task is bounded: 30 s for the exchange, 40 s for the lock.
\* Nothing is assumed of the login, of the checks or of the provider.
FairSpec == Spec /\ \A r \in Req : WF_vars(Task(r))

------------------------------------------------------------------------------
\* Properties

\* At most one party is between taking the lock file and releasing it, whatever
\* processes crash, time out or log in.
OneRefreshAtATime ==
  \A r \in Req : pc[r] \in AtLock =>
    /\ login \notin {"locked", "ready"}
    /\ \A q \in Req \ {r} : pc[q] \notin AtLock

\* No refresh token is presented to the provider after the provider rotated it
\* away, unless its successor was lost on the way to the file.
NoRefreshTokenReplayed ==
  \A r \in Req : pc[r] = "sent" => seen[r].ref \notin spent \ lost

\* A caller that reported a token as rejected is never handed that token again,
\* by the cache, by the file or by a background check that was under way.
RejectedNeverReturned ==
  \A r \in Req : pc[r] = "done" /\ result[r] # 0 => result[r] # rejected[r]

\* Once a process has published a refreshed token, no slower reader of the file,
\* in the background or in another task, brings an older one back into its cache.
PublishedNeverRolledBack ==
  \A p \in Proc : cache[p].held = "token" => cache[p].tok.acc >= published[p]

\* The file never goes back to an older grant: a refresh that was under way when
\* the user logged in cannot overwrite the login's tokens.
FileNeverRollsBack ==
  [][disk # NoTokens /\ disk' # NoTokens => disk'.acc >= disk.acc]_disk

\* A call ends, with a token or an error, whoever holds the gate and the lock.
EveryCallEnds == \A r \in Req : pc[r] = "gate" ~> pc[r] \in {"done", "idle"}

\* docs/claude-subscription.md, line 56: "Transient refresh failures back off."
\* A refresh that ends without stored tokens leaves its process cooling down.
FailedRefreshBacksOff ==
  [][\A r \in Req : pc[r] \in Exchanging /\ pc'[r] = "done" => cooling'[Home[r]]]_vars
==============================================================================
