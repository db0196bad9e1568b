------------------------------- MODULE MCService -------------------------------
(* A few configs around the files and the cache of keys, and many for the routing. *)
EXTENDS Service, TLC

CONSTANTS mA, mB, mC, mD, prefixedB, pX, pY, pZ, lit, cmd1, cmd2, key1, key2, low

PlainNames == [n \in Name |-> IF n = prefixedB THEN mB ELSE n]

\* Rule tables: cycles, chains of three and four, repetitions, diamonds.
OfA == << <<>>, <<mB>>, <<mC>>, <<mB, mC>>, <<mC, mB>>, <<prefixedB, mD>>, <<mB, prefixedB>>, <<mB, mC, mD>>, <<mA>> >>
OfB == << <<>>, <<mC>>, <<mC, mD>>, <<mD, mC>>, <<mA>>, <<prefixedB>> >>
OfC == << <<>>, <<mD>>, <<mA>>, <<prefixedB, mD>> >>
OfD == << <<>>, <<mA>>, <<mC>> >>

NoRoute == << >>
Rule(from, shape, to, key, effort, routes) ==
  [from |-> from, shape |-> shape, to |-> to, key |-> key, effort |-> effort, routes |-> routes]
ToLow(to, key) == [e \in {low} |-> [to |-> to, key |-> key]]

\* Aliases: none; a project of its own; a way back; two names of one model, by shape; by
\* effort. The last two are not valid: nothing has the key pZ, two rules are for one shape.
Rewritings == <<
  {},
  {Rule(mB, None, None, pY, None, NoRoute)},
  {Rule(mD, None, mA, pY, None, NoRoute)},
  {Rule(mC, "responses", mB, None, None, NoRoute), Rule(mC, "chat", mD, pY, None, NoRoute)},
  {Rule(mA, None, None, None, low, ToLow(mC, pY)), Rule(mB, None, mD, None, None, ToLow(mA, None))},
  {Rule(mA, None, None, None, None, ToLow(mB, pZ))},
  {Rule(mA, None, mB, None, None, NoRoute), Rule(mA, "chat", mC, pY, None, NoRoute)} >>

Basic == [mode |-> "standalone", connection |-> "none", loopback |-> TRUE, sane |-> TRUE,
          keys |-> [x \in {pX, pY} |-> lit], default |-> pX, aliases |-> {}, rules |-> NoRules,
          hosts |-> {}]
Host == [Basic EXCEPT !.mode = "host"]
Machine(host, mode, via, url) == [host |-> host, mode |-> mode, via |-> via, url |-> url]

\* Configs of the runs about files and keys.
Few == <<
  Basic,
  [Host EXCEPT !.keys = [x \in {pX, pY} |-> IF x = pX THEN cmd1 ELSE cmd2],
               !.rules = [m \in Model |-> IF m = mA THEN <<mB>> ELSE <<>>],
               !.aliases = {Rule(mB, None, None, pY, None, NoRoute)}],
  [Host EXCEPT !.keys = [x \in {pX} |-> cmd2],
               !.hosts = {Machine("h", "host", None, TRUE), Machine("c", "client", "h", FALSE)}],
  [Host EXCEPT !.hosts = {Machine("h", "host", None, TRUE), Machine("c", "client", "x", FALSE)}],
  [Basic EXCEPT !.mode = "client", !.connection = "good", !.keys = << >>],
  Basic,
  [Basic EXCEPT !.keys = [x \in {pX, pY} |-> IF x = pX THEN cmd1 ELSE cmd2],
                !.rules = [m \in Model |-> IF m = mA THEN <<mB>> ELSE <<>>],
                !.aliases = {Rule(mB, None, None, pY, None, NoRoute)}],
  [Basic EXCEPT !.keys = << >>] >>

Tables == Len(OfA) * Len(OfB) * Len(OfC) * Len(OfD)
Pick(list, i) == list[(i % Len(list)) + 1]
Table(i) == [m \in Model |->
  CASE m = mA -> Pick(OfA, i) [] m = mB -> Pick(OfB, i \div Len(OfA))
    [] m = mC -> Pick(OfC, i \div (Len(OfA) * Len(OfB)))
    [] OTHER -> Pick(OfD, i \div (Len(OfA) * Len(OfB) * Len(OfC)))]
MCCfg == [i \in 1..(Len(Few) + Tables * Len(Rewritings)) |->
  IF i <= Len(Few) THEN Few[i]
  ELSE LET k == i - Len(Few) - 1
       IN [Basic EXCEPT !.rules = Table(k \div Len(Rewritings)),
                        !.aliases = Pick(Rewritings, k)]]

Asked(name, shape, effort, stateful) ==
  [name |-> name, shape |-> shape, effort |-> effort, stateful |-> stateful]
MCQueries(i) ==
  CASE i = 1 -> {}
    [] i = 7 -> {Asked(n, "chat", None, FALSE) : n \in {mB, mC}}
    [] i <= Len(Few) -> {Asked(mA, "responses", None, FALSE), Asked(mB, "chat", None, FALSE)}
    [] OTHER -> {Asked(mA, "responses", None, FALSE), Asked(mA, "responses", low, FALSE),
                 Asked(mC, "chat", None, FALSE), Asked(mB, "responses", "malformed", FALSE)}
       \cup IF i % 20 = 0 THEN {Asked(n, "uri", None, FALSE) : n \in Name}
                               \cup {Asked(prefixedB, "responses", None, TRUE),
                                Asked(mA, "responses", "malformed", TRUE)} ELSE {}

Nothing == [edits |-> 0, others |-> {}, encryptions |-> 0, keyEdits |-> 0, seconds |-> 0,
            requests |-> 0, agings |-> 0, faults |-> 0]
At(now, config, plain, seenBefore, may) ==
  [inForce |-> now, config |-> config, plain |-> plain, seen |-> seenBefore, left |-> may]
MCStarts ==
  \* the editor, the watcher and the encrypter
  {At(2, i, plain, 0, [Nothing EXCEPT !.edits = 2, !.others = 2..6, !.encryptions = 1]) :
     i \in 2..6, plain \in BOOLEAN}
  \* and faults of the system under them
  \cup {At(2, i, TRUE, 0, [Nothing EXCEPT !.edits = 1, !.others = {2, 3}, !.encryptions = 1,
                                          !.faults = 2]) : i \in 2..4}
  \* a reload and keys revoked under a request
  \cup {At(2, 2, FALSE, 1, [Nothing EXCEPT !.edits = 1, !.others = {3}, !.keyEdits = 2,
                                           !.seconds = 2, !.requests = 1])}
  \* three requests at the cache of keys
  \cup {At(7, 7, FALSE, 1, [Nothing EXCEPT !.requests = 3, !.agings = 1])}
  \* a client, and a config without keys
  \cup {At(i, i, TRUE, 0, [Nothing EXCEPT !.requests = 1]) : i \in {5, 8}}
  \* every table of rules
  \cup {At(1, i, FALSE, 0, [Nothing EXCEPT !.requests = 1]) : i \in (Len(Few) + 1)..Len(MCCfg)}
==============================================================================
