----------------------------- MODULE MCSpendLedger -----------------------------
\* One request whose usage grows, a Codex session that repeats a total and changes its
\* model, and a Claude session that grows by a second report of its message.
EXTENDS SpendLedger, TLC

CONSTANTS r1, p1, p2

\* The importers are alike.
Twins == Permutations(Importer)

\* Imports overlap, are cut short and find a session grown once the proxy is quiet and its
\* log is in the database file. (A cursor of an older file says what none says, and no
\* import looks at latest.)
Quiet == /\ queue = <<>> /\ \A r \in Request : known[r] = Len(UsageOf[r]) /\ main[r] = known[r]
         /\ cursors["log"] \in {Never, Stat("log")} /\ latest = 1
OverlapWhenQuiet ==
  \/ Quiet
  \/ /\ torn = {} /\ length = Begins /\ \A p \in Importer : ~import[p].cut
     /\ \E p \in Importer : import[p].at = "idle"

Used(model, input, output) ==
  [model |-> model, input |-> input, cached |-> 1, writes |-> 2, hour |-> 1, output |-> output]
Usage == r1 :> <<Used("claude", 0, 1), Used("claude", 5, 2)>>

Turn(total) == Used("", 3, 1) @@ [kind |-> "turn", total |-> total, limit |-> 1]
Session == <<[kind |-> "model", model |-> "gemini"], Turn(1), Turn(1)>>

Message(id, output) == Used("claude", 4, output) @@ [id |-> id]
Stream == <<Message("m", 1), Message("m", 2)>>

Started == [codex |-> 3, claude |-> 1]
Readings == {[kind |-> "snapshot", reading |-> 1]}

Prices3 == [model \in {"gpt", "claude", "gemini"} |->
  [input |-> 4, cached |-> 1, output |-> 8, write |-> 5, hour |-> 8,
   long |-> IF model = "claude" THEN 0 ELSE 2]]
Providers == [gpt |-> "codex", claude |-> "claude", gemini |-> "gemini"]
==============================================================================
