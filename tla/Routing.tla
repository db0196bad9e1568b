-------------------------------- MODULE Routing --------------------------------
(***************************************************************************)
(* What a config means: which configs load (config.rs, fallback.rs), the   *)
(* model and the project a name is rewritten to (proxy.rs), and the models *)
(* a request may be tried on, in their order (proxy/fallback.rs).          *)
(*                                                                         *)
(* A name may be written with a prefix "openai/", which is left out of the *)
(* model it stands for but keeps alias rules from matching; Plain gives    *)
(* the model a name is written for. Reasoning efforts matter for the route *)
(* they choose and for the one error that rewriting has.                   *)
(***************************************************************************)
EXTENDS Naturals, Sequences, SequencesExt, FiniteSets, Functions

CONSTANTS
  Name,            \* names of models, in requests and in configs
  Plain,           \* Plain[n]: n without "openai/"
  Gemini,          \* the names of models that Gemini serves
  Project,         \* names of API keys
  DefaultProject,  \* the one named "default"
  Source,          \* where an API key comes from: a literal or a command
  Shape,           \* the API shapes of paths: responses, chat
  Effort,          \* reasoning efforts
  None,            \* an optional value that is not there
  MaxAttempts      \* candidates of a request at most

Model == {Plain[n] : n \in Name}

ASSUME RoutingConstants ==
  /\ IsFiniteSet(Name) /\ IsFiniteSet(Project)
  /\ Plain \in [Name -> Name] /\ \A m \in Model : Plain[m] = m
  /\ Gemini \subseteq Name /\ DefaultProject \in Project
  /\ None \notin Name \cup Project \cup Shape \cup Effort
  /\ MaxAttempts \in Nat \ {0}

\* What a rule says for one effort, a rule, and a config. sane: the numbers, URLs and
\* provider settings are in their ranges. A client's connection is none, good or bad.
Route == [to : Name, key : Project \cup {None}]
Alias == [from : Name, shape : Shape \cup {None}, to : Name \cup {None},
          key : Project \cup {None}, effort : Effort \cup {None},
          routes : UNION {[E -> Route] : E \in SUBSET Effort}]
Mode == {"standalone", "host", "client"}
ConfigFields == {"mode", "connection", "loopback", "sane", "keys", "default",
                 "aliases", "rules", "hosts"}

IsConfig(c) ==
  /\ DOMAIN c = ConfigFields /\ c.default \in Project /\ DOMAIN c.keys \subseteq Project
  /\ c.aliases \subseteq Alias /\ c.rules \in [Model -> Seq(Name)]

------------------------------------------------------------------------------
\* Validation

Deepest(depths) == CHOOSE d \in depths : \A e \in depths : e <= d

\* The ways that rules lead, the model that is visited at the end, those on the way to it
\* (the code has them in a set) before.
Way == Seq(Model) \ {<<>>}
Meets(way) == Last(way) \in ToSet(Front(way))

DepthsToOneMore(rules) ==  \* mutant: both bounds of the depth are off by one
  LET visit[way \in Way] ==
        IF Meets(way) \/ Len(way) > MaxAttempts + 1 THEN 0
        ELSE LET nexts == {visit[Append(way, Plain[t])] : t \in ToSet(rules[Last(way)])}
             IN IF 0 \in nexts \/ Deepest({0} \cup nexts) > MaxAttempts THEN 0
                ELSE 1 + Deepest({0} \cup nexts)
  IN [m \in Model |-> visit[<<m>>]]

\* The length of the longest chain from where its targets lead, if no way fails.
DepthFrom(nexts) ==
  IF 0 \in nexts \/ Deepest({0} \cup nexts) >= MaxAttempts THEN 0
  ELSE 1 + Deepest({0} \cup nexts)

\* visit: the length of the longest chain from a model on; 0 is an error. (The code keeps
\* the depths it has found; that changes no answer.)
Depths(rules) ==
  LET visit[way \in Way] ==
        IF Meets(way) \/ Len(way) > MaxAttempts THEN 0
        ELSE DepthFrom({visit[Append(way, Plain[t])] : t \in ToSet(rules[Last(way)])})
  IN [m \in Model |-> visit[<<m>>]]

\* Rules are found by the model; two names of one model are no two targets.
ValidRules(rules) ==
  /\ \A m \in Model : /\ Len(rules[m]) < MaxAttempts
                      /\ IsInjective([i \in DOMAIN rules[m] |-> Plain[rules[m][i]]])
  /\ \E depths \in {Depths(rules)} : \A m \in Model : rules[m] # <<>> => depths[m] # 0

NoRules == [m \in Model |-> <<>>]

\* A client has nothing but a connection to its host; nobody else has one.
ValidMode(c) ==
  IF c.mode = "client"
  THEN /\ c.loopback /\ c.connection = "good"
       /\ DOMAIN c.keys = {} /\ c.aliases = {} /\ c.rules = NoRules
  ELSE c.connection = "none"

\* The machines of the fleet: a client goes by way of a host, a host has a URL.
ValidHosts(hosts) ==
  /\ \A g, h \in hosts : g.host = h.host => g = h
  /\ \A h \in hosts :
       CASE h.mode = "client" -> /\ \E g \in hosts : g.host = h.via /\ g.mode = "host"
                                 /\ ~h.url
         [] h.mode = "host" -> h.url /\ h.via = None
         [] OTHER -> h.via = None /\ ~h.url

\* What a client's config stands for: one key, its host's, and no rules.
HostProject == DefaultProject
Effective(c, hostKey) ==
  IF c.mode = "client"
  THEN [c EXCEPT !.keys = [p \in {HostProject} |-> hostKey], !.default = HostProject,
                 !.aliases = {}, !.rules = NoRules]
  ELSE c

KnownKey(c, p) == p # None => p \in DOMAIN c.keys

ValidAliasKeysOnly(c) ==  \* mutant: the keys of the routes for efforts are not looked at
  /\ c.default \in DOMAIN c.keys \/ (DOMAIN c.keys = {} /\ c.default = DefaultProject)
  /\ \A a \in c.aliases : KnownKey(c, a.key)
  /\ \A a, b \in c.aliases :
       a # b /\ a.from = b.from => a.shape # b.shape /\ None \notin {a.shape, b.shape}

\* Every project a rule names has a key, and at most one rule is for a name and shape.
ValidProjects(c) ==
  /\ c.default \in DOMAIN c.keys \/ (DOMAIN c.keys = {} /\ c.default = DefaultProject)
  /\ \A a \in c.aliases : /\ KnownKey(c, a.key)
                          /\ \A e \in DOMAIN a.routes : KnownKey(c, a.routes[e].key)
  /\ \A a, b \in c.aliases :
       a # b /\ a.from = b.from => a.shape # b.shape /\ None \notin {a.shape, b.shape}

Valid(c) ==
  /\ c.sane /\ ValidMode(c) /\ ValidHosts(c.hosts)
  /\ c.mode # "client" => ValidRules(c.rules) /\ ValidProjects(c)

------------------------------------------------------------------------------
\* Rewriting. A request is [name, shape, effort, stateful]; its effort may be None
\* or "malformed", something that is not an object where an object belongs.

AliasFor(c, n, shape) == {a \in c.aliases : a.from = n /\ a.shape \in {None, shape}}

\* What a name is rewritten to: the model asked for, the project that pays and the
\* reasoning effort that is left in the request.
Rewritten(c, n, q) ==
  IF AliasFor(c, n, q.shape) = {}
  THEN [model |-> Plain[n], project |-> c.default, effort |-> q.effort]
  ELSE LET a == CHOOSE x \in AliasFor(c, n, q.shape) : TRUE
           r == IF q.effort \in DOMAIN a.routes THEN a.routes[q.effort]
                                                ELSE [to |-> a.to, key |-> None]
       IN [model   |-> Plain[IF r.to = None THEN n ELSE r.to],
           project |-> IF r.key # None THEN r.key ELSE IF a.key # None THEN a.key ELSE c.default,
           effort  |-> IF a.effort # None THEN a.effort ELSE q.effort]

\* A rule that sets the effort cannot set it in reasoning that is no object.
Fails(c, n, q) == /\ q.effort = "malformed" /\ q.shape = "responses"
                  /\ \E a \in AliasFor(c, n, q.shape) : a.effort # None

\* A name in the path or the query is rewritten by a rule for every shape, as it is.
RewrittenUri(c, n) ==
  LET found == {a \in c.aliases : a.from = n /\ a.shape = None}
      Or(x, other) == IF x = None THEN other ELSE x
  IN IF found = {} THEN [name |-> n, model |-> n, project |-> c.default]
     ELSE LET a == CHOOSE x \in found : TRUE
          IN [name |-> n, model |-> Or(a.to, n), project |-> Or(a.key, c.default)]

------------------------------------------------------------------------------
\* The plan

Targets(c, model) == c.rules[Plain[model]]

\* The identity of the requested name, with the request as it came, or of a name in a
\* rule, with the request as the first rewriting left it.
Later(c, q) == [q EXCEPT !.effort = Rewritten(c, q.name, q).effort]
Identity(c, n, q) ==
  LET r == Rewritten(c, n, q) IN [name |-> n, model |-> r.model, project |-> r.project]
Same(i, j) == i.model = j.model /\ i.project = j.project

\* The walk: a stack of names that are yet to be tried, and the candidates found.
Candidate == [name : Name, model : Name, project : Project]
Walks     == [pending : Seq(Name), done : Seq(Candidate)]

Planned(w) == w.pending = <<>> \/ Len(w.done) = MaxAttempts
AskedFor(c, q, w) == IF w.done = <<>> THEN q ELSE Later(c, q)
Upcoming(c, q, w) == Identity(c, Last(w.pending), AskedFor(c, q, w))

Pushed(c, i, w, targets) ==
  IF \E j \in ToSet(w.done) : Same(i, j) THEN [w EXCEPT !.pending = Front(@)]
  ELSE [pending |-> Front(w.pending) \o targets, done |-> Append(w.done, i)]

InRuleOrder(c, i, w) ==  \* mutant: the targets are pushed in the order of the rule
  Pushed(c, i, w, Targets(c, i.model))

\* A name whose identity was met is skipped, a new one becomes a candidate and its targets
\* come next.
After(c, i, w) == Pushed(c, i, w, Reverse(Targets(c, i.model)))

\* plan: a name that cannot be rewritten ends it all.
Walk(c, q) ==
  LET walk[w \in Walks] ==
        IF Planned(w) THEN w.done
        ELSE IF Fails(c, Last(w.pending), AskedFor(c, q, w)) THEN <<>>
        ELSE walk[After(c, Upcoming(c, q, w), w)]
  IN walk[[pending |-> <<q.name>>, done |-> <<>>]]

HasFallbacks(c) == c.mode # "client" /\ \E m \in Model : c.rules[m] # <<>>

\* What cannot be repeated elsewhere has one candidate, though the plan is made.
Repeatable(q) == ~q.stateful
Chain(c, q) ==
  LET plan == Walk(c, q) IN IF Repeatable(q) \/ plan = <<>> THEN plan ELSE <<Head(plan)>>

\* Without rules a model in the body comes before one in the path or the query.
Alone(c, q) ==
  IF q.shape = "uri" THEN <<RewrittenUri(c, q.name)>>
  ELSE IF Fails(c, q.name, q) THEN <<>> ELSE <<Identity(c, q.name, q)>>

\* The candidates of a request, none if it cannot be rewritten.
Candidates(c, q) == IF HasFallbacks(c) /\ q.shape # "uri" THEN Chain(c, q) ELSE Alone(c, q)

------------------------------------------------------------------------------
\* What the plan should be.

\* Chains of models, each a target of the one before.
Chains(rules, k) == {s \in [1..k -> Model] :
                       \A i \in 1..(k - 1) : \E t \in ToSet(rules[s[i]]) : Plain[t] = s[i + 1]}

\* The order docs/fallbacks.md describes, for "a -> [b, c]" and "b -> [d]" a, b, d,
\* c: a candidate, then all that the first of its targets leads to, then the next
\* target's, without repeating an identity. visit: done, and after it the candidates that
\* names lead to, to a depth that no chain of different identities reaches.
Identities == Cardinality(Name) * Cardinality(Project)
Visits == [depth : 0..(Identities + 1), done : Seq(Candidate), names : Seq(Name)]
Preorder(c, q) ==
  LET visit[v \in Visits] ==
        IF v.depth = 0 \/ v.names = <<>> THEN v.done
        ELSE LET i == Identity(c, Head(v.names), IF v.done = <<>> THEN q ELSE Later(c, q))
                 after == IF \E j \in ToSet(v.done) : Same(i, j) THEN v.done
                          ELSE visit[[depth |-> v.depth - 1, done |-> Append(v.done, i),
                                      names |-> Targets(c, i.model)]]
             IN visit[[depth |-> v.depth, done |-> after, names |-> Tail(v.names)]]
  IN visit[[depth |-> Identities + 1, done |-> <<>>, names |-> <<q.name>>]]
==============================================================================
