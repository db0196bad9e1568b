--------------------------- MODULE SpendLedgerProofs ---------------------------
(* Theorems about SpendLedger, for any importers, requests, usages, sessions  *)
(* and sizes of the queue.                                                    *)
EXTENDS SpendLedger, FiniteSetTheorems, SequenceTheorems, WellFoundedInduction, TLAPS

------------------------------------------------------------------------------
\* Folds over the lines of a session

\* Every set of numbers that is not empty has a least one.
LEMMA Smallest ==
  ASSUME NEW S \in SUBSET Nat, S # {}
  PROVE  \E n \in S : \A k \in S : n <= k
  <1>1. PICK n \in S : \A k \in S : ~(<<k, n>> \in OpToRel(<, Nat))
    BY NatLessThanWellFounded, WFMin
  <1>2. \A k \in S : ~(k < n)
    BY <1>1 DEF OpToRel
  <1> QED
    BY <1>2

\* The lines of a session are a sequence.
LEMMA LinesAre ==
  /\ Len(CodexLines) \in Nat /\ DOMAIN CodexLines = 1..Len(CodexLines)
  /\ Len(ClaudeLines) \in Nat /\ DOMAIN ClaudeLines = 1..Len(ClaudeLines)
  /\ DOMAIN Lines = {"codex", "claude"}
  /\ Lines["codex"] = CodexLines /\ Lines["claude"] = ClaudeLines
  <1>1. /\ DOMAIN Lines = {"codex", "claude"}
        /\ Lines["codex"] = CodexLines /\ Lines["claude"] = ClaudeLines
    BY DEF Lines
  <1>2. CodexLines \in Seq(Range(CodexLines)) /\ ClaudeLines \in Seq(Range(ClaudeLines))
    BY <1>1, ConstantsOK
  <1> QED
    BY <1>1, <1>2

NoTurns == [model |-> "gpt", total |-> 0, rows |-> <<>>, limit |-> 0]

\* What a fold over the first lines of the Codex session is.
FoldsCodex(f, m) ==
  f = [n \in 0..m |-> IF n = 0 THEN NoTurns ELSE CodexLine(f[n - 1], CodexLines[n])]

\* The fold over the lines of a Codex session is one: some function solves its equation.
LEMMA CodexFolds ==
  ASSUME NEW m \in Nat
  PROVE  \E f : FoldsCodex(f, m)
  <1> DEFINE Bad == {n \in Nat : ~\E f : FoldsCodex(f, n)}
  <1> SUFFICES Bad = {}
    OBVIOUS
  <1> SUFFICES ASSUME Bad # {} PROVE FALSE
    OBVIOUS
  <1>1. PICK n \in Bad : \A k \in Bad : n <= k
    BY Smallest
  <1>2. CASE n = 0
    <2>1. FoldsCodex([k \in 0..0 |-> NoTurns], 0)
      BY DEF FoldsCodex
    <2> QED
      BY <1>2, <2>1
  <1>3. CASE n # 0
    <2>1. n - 1 \in Nat /\ n - 1 \notin Bad
      BY <1>1, <1>3
    <2>2. PICK f : FoldsCodex(f, n - 1)
      BY <2>1
    <2> DEFINE g == [k \in 0..n |-> IF k = n THEN CodexLine(f[n - 1], CodexLines[n]) ELSE f[k]]
    <2>3. \A k \in 0..(n - 1) : f[k] = IF k = 0 THEN NoTurns ELSE CodexLine(f[k - 1], CodexLines[k])
      BY <2>1, <2>2 DEF FoldsCodex
    <2>4. ASSUME NEW k \in 0..n
          PROVE  g[k] = IF k = 0 THEN NoTurns ELSE CodexLine(g[k - 1], CodexLines[k])
      <3>1. CASE k = n
        <4>1. g[k - 1] = f[n - 1]
          BY <1>3, <2>1, <3>1
        <4> QED
          BY <1>3, <3>1, <4>1
      <3>2. CASE k # n
        <4>1. k \in 0..(n - 1) /\ g[k] = f[k] /\ (k # 0 => g[k - 1] = f[k - 1])
          BY <3>2
        <4> QED
          BY <2>3, <4>1
      <3> QED
        BY <3>1, <3>2
    <2>5. g = [k \in 0..n |-> IF k = 0 THEN NoTurns ELSE CodexLine(g[k - 1], CodexLines[k])]
      <3>1. g = [k \in 0..n |-> g[k]]
        OBVIOUS
      <3> HIDE DEF g
      <3> QED
        BY <2>4, <3>1
    <2> HIDE DEF g
    <2> QED
      BY <2>5 DEF FoldsCodex
  <1> QED
    BY <1>2, <1>3

\* sync_codex_jsonl's state after each line.
LEMMA CodexIs ==
  /\ DOMAIN Codex = 0..Len(CodexLines)
  /\ Codex[0] = NoTurns
  /\ \A n \in 1..Len(CodexLines) : Codex[n] = CodexLine(Codex[n - 1], CodexLines[n])
  <1>1. \E f : FoldsCodex(f, Len(CodexLines))
    BY CodexFolds, LinesAre
  <1>2. Codex = CHOOSE f : FoldsCodex(f, Len(CodexLines))
    BY DEF Codex, FoldsCodex, NoTurns
  <1>3. FoldsCodex(Codex, Len(CodexLines))
    BY <1>1, <1>2
  <1>4. Codex = [n \in 0..Len(CodexLines) |->
                   IF n = 0 THEN NoTurns ELSE CodexLine(Codex[n - 1], CodexLines[n])]
    BY <1>3 DEF FoldsCodex
  <1>5. DOMAIN Codex = 0..Len(CodexLines)
    BY <1>4
  <1>6. \A n \in 0..Len(CodexLines) :
          Codex[n] = IF n = 0 THEN NoTurns ELSE CodexLine(Codex[n - 1], CodexLines[n])
    BY <1>4
  <1> QED
    BY <1>5, <1>6, LinesAre

\* What a fold over the first lines of the Claude session is.
FoldsClaude(f, m) ==
  f = [n \in 0..m |-> IF n = 0 THEN <<>> ELSE ClaudeLine(f[n - 1], ClaudeLines[n])]

\* And so for a Claude session.
LEMMA ClaudeFolds ==
  ASSUME NEW m \in Nat
  PROVE  \E f : FoldsClaude(f, m)
  <1> DEFINE Bad == {n \in Nat : ~\E f : FoldsClaude(f, n)}
  <1> SUFFICES Bad = {}
    OBVIOUS
  <1> SUFFICES ASSUME Bad # {} PROVE FALSE
    OBVIOUS
  <1>1. PICK n \in Bad : \A k \in Bad : n <= k
    BY Smallest
  <1>2. CASE n = 0
    <2>1. FoldsClaude([k \in 0..0 |-> <<>>], 0)
      BY DEF FoldsClaude
    <2> QED
      BY <1>2, <2>1
  <1>3. CASE n # 0
    <2>1. n - 1 \in Nat /\ n - 1 \notin Bad
      BY <1>1, <1>3
    <2>2. PICK f : FoldsClaude(f, n - 1)
      BY <2>1
    <2> DEFINE g == [k \in 0..n |-> IF k = n THEN ClaudeLine(f[n - 1], ClaudeLines[n]) ELSE f[k]]
    <2>3. \A k \in 0..(n - 1) : f[k] = IF k = 0 THEN <<>> ELSE ClaudeLine(f[k - 1], ClaudeLines[k])
      BY <2>1, <2>2 DEF FoldsClaude
    <2>4. ASSUME NEW k \in 0..n
          PROVE  g[k] = IF k = 0 THEN <<>> ELSE ClaudeLine(g[k - 1], ClaudeLines[k])
      <3>1. CASE k = n
        <4>1. g[k - 1] = f[n - 1]
          BY <1>3, <2>1, <3>1
        <4> QED
          BY <1>3, <3>1, <4>1
      <3>2. CASE k # n
        <4>1. k \in 0..(n - 1) /\ g[k] = f[k] /\ (k # 0 => g[k - 1] = f[k - 1])
          BY <3>2
        <4> QED
          BY <2>3, <4>1
      <3> QED
        BY <3>1, <3>2
    <2>5. g = [k \in 0..n |-> IF k = 0 THEN <<>> ELSE ClaudeLine(g[k - 1], ClaudeLines[k])]
      <3>1. g = [k \in 0..n |-> g[k]]
        OBVIOUS
      <3> HIDE DEF g
      <3> QED
        BY <2>4, <3>1
    <2> HIDE DEF g
    <2> QED
      BY <2>5 DEF FoldsClaude
  <1> QED
    BY <1>2, <1>3

\* sync_claude_jsonl's rows after each line.
LEMMA ClaudeIs ==
  /\ DOMAIN ClaudeRows = 0..Len(ClaudeLines)
  /\ ClaudeRows[0] = <<>>
  /\ \A n \in 1..Len(ClaudeLines) : ClaudeRows[n] = ClaudeLine(ClaudeRows[n - 1], ClaudeLines[n])
  <1>1. \E f : FoldsClaude(f, Len(ClaudeLines))
    BY ClaudeFolds, LinesAre
  <1>2. ClaudeRows = CHOOSE f : FoldsClaude(f, Len(ClaudeLines))
    BY DEF ClaudeRows, FoldsClaude
  <1>3. FoldsClaude(ClaudeRows, Len(ClaudeLines))
    BY <1>1, <1>2
  <1>4. ClaudeRows = [n \in 0..Len(ClaudeLines) |->
                   IF n = 0 THEN <<>> ELSE ClaudeLine(ClaudeRows[n - 1], ClaudeLines[n])]
    BY <1>3 DEF FoldsClaude
  <1>5. DOMAIN ClaudeRows = 0..Len(ClaudeLines)
    BY <1>4
  <1>6. \A n \in 0..Len(ClaudeLines) :
          ClaudeRows[n] = IF n = 0 THEN <<>> ELSE ClaudeLine(ClaudeRows[n - 1], ClaudeLines[n])
    BY <1>4
  <1> QED
    BY <1>5, <1>6, LinesAre

------------------------------------------------------------------------------
\* The turns of a Codex session

TurnUsage(model, i) == LET line == CodexLines[i] IN
  [model |-> model, input |-> line.input, cached |-> line.cached, writes |-> line.writes,
   hour |-> 0, output |-> line.output]
Models  == {"gpt"} \cup {CodexLines[i].model : i \in DOMAIN CodexLines}
Totals  == {0} \cup {CodexLines[i].total : i \in DOMAIN CodexLines}
Limits  == {0} \cup {CodexLines[i].limit : i \in DOMAIN CodexLines}
CodexRecords == {Record(TurnUsage(x[1], x[2])) : x \in Models \X DOMAIN CodexLines}
CodexStates == [model : Models, total : Totals, rows : Seq(CodexRecords), limit : Limits]

\* A line that reports tokens, and one that does not repeat the last total.
ReportsTurn(i) == CodexLines[i].kind # "model" /\ Counts(CodexLines[i])
IsNew(at, i) == ReportsTurn(i) /\ (CodexLines[i].total = 0 \/ CodexLines[i].total # at.total)

\* What a line does to the state of the fold.
LEMMA CodexStep ==
  ASSUME NEW at \in CodexStates, NEW i \in DOMAIN CodexLines,
         NEW to, to = CodexLine(at, CodexLines[i])
  PROVE  /\ to \in CodexStates
         /\ ~IsNew(at, i) => to.rows = at.rows /\ to.total = at.total
         /\ IsNew(at, i) => /\ to.rows = Append(at.rows, Record(TurnUsage(at.model, i)))
                            /\ to.total = CodexLines[i].total
  <1> DEFINE line == CodexLines[i]
             rec == Record(TurnUsage(at.model, i))
  <1>1. line.model \in Models /\ line.total \in Totals /\ line.limit \in Limits
    BY DEF Models, Totals, Limits
  <1>2. rec \in CodexRecords
    <2>1. at.model \in Models
      BY DEF CodexStates
    <2>2. <<at.model, i>> \in Models \X DOMAIN CodexLines
      BY <2>1
    <2> QED
      BY <2>2 DEF CodexRecords
  <1>3. /\ at.total \in Totals /\ at.limit \in Limits /\ at.rows \in Seq(CodexRecords)
        /\ at.model \in Models
    BY DEF CodexStates
  <1>4. CASE line.kind = "model"
    <2>1. to = [at EXCEPT !.model = line.model]
      BY <1>4 DEF CodexLine
    <2> HIDE DEF line, rec
    <2>2. to \in CodexStates /\ to.rows = at.rows /\ to.total = at.total
      BY <1>1, <2>1 DEF CodexStates
    <2> QED
      BY <1>4, <2>2 DEF IsNew, ReportsTurn, line
  <1>5. CASE line.kind # "model"
    <2> DEFINE total == IF IsNew(at, i) THEN line.total ELSE at.total
               rows  == IF IsNew(at, i) THEN Append(at.rows, rec) ELSE at.rows
               limit == IF line.limit > 0 THEN line.limit ELSE at.limit
    <2>1. IsNew(at, i) <=> Counts(line) /\ (line.total = 0 \/ line.total # at.total)
      BY <1>5 DEF IsNew, ReportsTurn
    <2>2. to = [at EXCEPT !.total = total, !.rows = rows, !.limit = limit]
      BY <1>5, <2>1 DEF CodexLine, TurnUsage
    <2>3. total \in Totals /\ limit \in Limits /\ rows \in Seq(CodexRecords)
      <3> HIDE DEF line, rec
      <3> QED
        BY <1>1, <1>2, <1>3
    <2>4. /\ IsNew(at, i) => rows = Append(at.rows, rec) /\ total = line.total
          /\ ~IsNew(at, i) => rows = at.rows /\ total = at.total
      OBVIOUS
    <2> HIDE DEF total, rows, limit
    <2>5. to \in CodexStates /\ to.rows = rows /\ to.total = total
      BY <2>2, <2>3 DEF CodexStates
    <2> QED
      BY <2>4, <2>5
  <1> QED
    BY <1>4, <1>5

\* So the state of the fold is of its type after every line.
LEMMA CodexTypes == \A n \in 0..Len(CodexLines) : Codex[n] \in CodexStates
  <1> DEFINE Bad == {n \in Nat : n <= Len(CodexLines) /\ Codex[n] \notin CodexStates}
  <1> SUFFICES ASSUME Bad # {} PROVE FALSE
    BY LinesAre
  <1>1. PICK n \in Bad : \A k \in Bad : n <= k
    BY Smallest
  <1>2. n # 0
    <2>1. NoTurns \in CodexStates
      BY DEF NoTurns, CodexStates, Models, Totals, Limits
    <2> QED
      BY <1>1, <2>1, CodexIs
  <1>3. n - 1 \in Nat /\ n \in 1..Len(CodexLines) /\ n - 1 \notin Bad
    BY <1>1, <1>2, LinesAre
  <1>4. Codex[n - 1] \in CodexStates /\ n \in DOMAIN CodexLines
    BY <1>3, LinesAre
  <1>5. Codex[n] \in CodexStates
    BY <1>3, <1>4, CodexIs, CodexStep
  <1> QED
    BY <1>1, <1>5

\* The step from one line to the next.
LEMMA CodexNext ==
  ASSUME NEW n \in 1..Len(CodexLines)
  PROVE  /\ Codex[n - 1] \in CodexStates /\ Codex[n] \in CodexStates /\ n - 1 \in 0..Len(CodexLines)
         /\ ~IsNew(Codex[n - 1], n) =>
              Codex[n].rows = Codex[n - 1].rows /\ Codex[n].total = Codex[n - 1].total
         /\ IsNew(Codex[n - 1], n) =>
              /\ Codex[n].rows = Append(Codex[n - 1].rows, Record(TurnUsage(Codex[n - 1].model, n)))
              /\ Codex[n].total = CodexLines[n].total
  <1>1. n - 1 \in 0..Len(CodexLines) /\ n \in 0..Len(CodexLines) /\ n \in DOMAIN CodexLines
    BY LinesAre
  <1>2. Codex[n - 1] \in CodexStates /\ Codex[n] \in CodexStates
    BY <1>1, CodexTypes
  <1>3. Codex[n] = CodexLine(Codex[n - 1], CodexLines[n])
    BY CodexIs
  <1> QED
    BY <1>1, <1>2, <1>3, CodexStep, SMTT(30)

\* No line takes a turn away.
LEMMA TurnsStay ==
  ASSUME NEW n \in 0..Len(CodexLines), NEW m \in 0..Len(CodexLines), n <= m
  PROVE  DOMAIN CodexRows[n] \subseteq DOMAIN CodexRows[m]
  <1> DEFINE L(k) == Len(Codex[k].rows)
  <1>1. \A k \in 0..Len(CodexLines) : L(k) \in Nat /\ DOMAIN Codex[k].rows = 1..L(k)
    BY CodexTypes DEF CodexStates
  <1>2. \A k \in 1..Len(CodexLines) : L(k - 1) <= L(k)
    <2> TAKE k \in 1..Len(CodexLines)
    <2>1. k - 1 \in 0..Len(CodexLines) /\ Codex[k - 1].rows \in Seq(CodexRecords)
      BY CodexNext DEF CodexStates
    <2>2. CASE ~IsNew(Codex[k - 1], k)
      BY <1>1, <2>1, <2>2, CodexNext
    <2>3. CASE IsNew(Codex[k - 1], k)
      <3>1. Codex[k].rows = Append(Codex[k - 1].rows, Record(TurnUsage(Codex[k - 1].model, k)))
        BY <2>3, CodexNext
      <3>2. L(k) = L(k - 1) + 1
        BY <2>1, <3>1
      <3> QED
        BY <1>1, <2>1, <3>2
    <2> QED
      BY <2>2, <2>3
  <1>3. L(n) <= L(m)
    <2> DEFINE Bad == {k \in Nat : n <= k /\ k <= Len(CodexLines) /\ ~(L(n) <= L(k))}
    <2> HIDE DEF L
    <2> SUFFICES ASSUME Bad # {} PROVE FALSE
      BY LinesAre
    <2>1. PICK k \in Bad : \A j \in Bad : k <= j
      BY Smallest
    <2>2. k # n /\ k \in 1..Len(CodexLines)
      BY <1>1, <2>1, LinesAre
    <2>3. k - 1 \notin Bad /\ k - 1 \in Nat /\ n <= k - 1 /\ k - 1 <= Len(CodexLines)
      BY <2>1, <2>2, LinesAre
    <2>4. L(n) <= L(k - 1)
      BY <2>3
    <2>5. L(k - 1) \in Nat /\ L(k) \in Nat /\ L(n) \in Nat
      BY <1>1, <2>2, <2>3
    <2> QED
      BY <1>2, <2>1, <2>2, <2>4, <2>5
  <1>4. \A k \in 0..Len(CodexLines) : DOMAIN CodexRows[k] = {<<"codex_cli", i>> : i \in 1..L(k)}
    BY <1>1, CodexIs DEF CodexRows
  <1>5. 1..L(n) \subseteq 1..L(m)
    <2> HIDE DEF L
    <2> QED
      BY <1>1, <1>3
  <1> QED
    BY <1>4, <1>5

------------------------------------------------------------------------------
\* The messages of a Claude session

\* What a line does to the rows.
LEMMA ClaudeStep ==
  ASSUME NEW n \in 1..Len(ClaudeLines)
  PROVE  LET key == <<"claude_cli", ClaudeLines[n].id>> IN
         /\ ~Counts(ClaudeLines[n]) => ClaudeRows[n] = ClaudeRows[n - 1]
         /\ Counts(ClaudeLines[n]) =>
              /\ DOMAIN ClaudeRows[n] = DOMAIN ClaudeRows[n - 1] \cup {key}
              /\ ClaudeRows[n][key] = Record(ClaudeLines[n])
              /\ \A k \in DOMAIN ClaudeRows[n - 1] :
                   k # key => ClaudeRows[n][k] = ClaudeRows[n - 1][k]
  <1> DEFINE key == <<"claude_cli", ClaudeLines[n].id>>
             new == [k \in {key} |-> Record(ClaudeLines[n])]
  <1>1. ClaudeRows[n] = ClaudeLine(ClaudeRows[n - 1], ClaudeLines[n])
    BY ClaudeIs
  <1>2. CASE ~Counts(ClaudeLines[n])
    BY <1>1, <1>2 DEF ClaudeLine
  <1>3. CASE Counts(ClaudeLines[n])
    <2>1. ClaudeRows[n] = Upsert(ClaudeRows[n - 1], new)
      BY <1>1, <1>3 DEF ClaudeLine
    <2>2. DOMAIN new = {key} /\ new[key] = Record(ClaudeLines[n])
      OBVIOUS
    <2> HIDE DEF new, key
    <2>3. /\ DOMAIN ClaudeRows[n] = DOMAIN ClaudeRows[n - 1] \cup {key}
          /\ ClaudeRows[n][key] = Record(ClaudeLines[n])
          /\ \A k \in DOMAIN ClaudeRows[n - 1] :
               k # key => ClaudeRows[n][k] = ClaudeRows[n - 1][k]
      BY <2>1, <2>2 DEF Upsert
    <2> QED
      BY <1>3, <2>3 DEF key
  <1> QED
    BY <1>2, <1>3

\* No line takes a message away.
LEMMA MessagesStay ==
  ASSUME NEW n \in 0..Len(ClaudeLines), NEW m \in 0..Len(ClaudeLines), n <= m
  PROVE  DOMAIN ClaudeRows[n] \subseteq DOMAIN ClaudeRows[m]
  <1> DEFINE Bad == {k \in Nat : /\ n <= k /\ k <= Len(ClaudeLines)
                                 /\ ~(DOMAIN ClaudeRows[n] \subseteq DOMAIN ClaudeRows[k])}
  <1> SUFFICES ASSUME Bad # {} PROVE FALSE
    BY LinesAre
  <1>1. PICK k \in Bad : \A j \in Bad : k <= j
    BY Smallest
  <1>2. k # n /\ k \in 1..Len(ClaudeLines)
    BY <1>1, LinesAre
  <1>3. k - 1 \notin Bad /\ k - 1 \in Nat /\ n <= k - 1 /\ k - 1 <= Len(ClaudeLines)
    BY <1>1, <1>2, LinesAre
  <1>4. DOMAIN ClaudeRows[n] \subseteq DOMAIN ClaudeRows[k - 1]
    BY <1>3
  <1>5. DOMAIN ClaudeRows[k - 1] \subseteq DOMAIN ClaudeRows[k]
    <2>1. CASE ~Counts(ClaudeLines[k])
      BY <1>2, <2>1, ClaudeStep
    <2>2. CASE Counts(ClaudeLines[k])
      BY <1>2, <2>2, ClaudeStep
    <2> QED
      BY <2>1, <2>2
  <1> QED
    BY <1>1, <1>4, <1>5

\* The rows of a message are its own: one per id, of a line that counts.
LEMMA MessageKeys ==
  ASSUME NEW n \in 0..Len(ClaudeLines), NEW k \in DOMAIN ClaudeRows[n]
  PROVE  /\ k[1] = "claude_cli"
         /\ \E i \in 1..n : Counts(ClaudeLines[i]) /\ k = <<"claude_cli", ClaudeLines[i].id>>
  <1> DEFINE Of(j) == \E i \in 1..j : Counts(ClaudeLines[i]) /\ k = <<"claude_cli", ClaudeLines[i].id>>
             Bad == {j \in Nat : j <= Len(ClaudeLines) /\ k \in DOMAIN ClaudeRows[j] /\ ~Of(j)}
  <1> SUFFICES ASSUME Bad # {} PROVE FALSE
    BY LinesAre
  <1>1. PICK j \in Bad : \A i \in Bad : j <= i
    BY Smallest
  <1>2. j # 0
    BY <1>1, ClaudeIs
  <1>3. j \in 1..Len(ClaudeLines) /\ j - 1 \in Nat /\ j - 1 \notin Bad /\ j - 1 <= Len(ClaudeLines)
    BY <1>1, <1>2, LinesAre
  <1>4. CASE k \in DOMAIN ClaudeRows[j - 1]
    <2>1. Of(j - 1)
      BY <1>3, <1>4
    <2>2. 1..(j - 1) \subseteq 1..j
      BY <1>3
    <2> QED
      BY <1>1, <2>1, <2>2
  <1>5. CASE k \notin DOMAIN ClaudeRows[j - 1]
    <2>1. Counts(ClaudeLines[j]) /\ k = <<"claude_cli", ClaudeLines[j].id>>
      <3>1. k \in DOMAIN ClaudeRows[j]
        BY <1>1
      <3>2. Counts(ClaudeLines[j])
        BY <1>3, <1>5, <3>1, ClaudeStep
      <3>3. DOMAIN ClaudeRows[j] = DOMAIN ClaudeRows[j - 1] \cup {<<"claude_cli", ClaudeLines[j].id>>}
        BY <1>3, <3>2, ClaudeStep
      <3> QED
        BY <1>5, <3>1, <3>2, <3>3
    <2>2. j \in 1..j
      BY <1>3
    <2> QED
      BY <1>1, <2>1, <2>2
  <1> QED
    BY <1>4, <1>5

------------------------------------------------------------------------------
\* A version of a source: how much of it there is. The log database's is, per request, the
\* usage it has; a session's its length. The stat of a source is that of the version seen in
\* its file; what is read is the version it has now.
Versions(s) == IF s = "log" THEN [Request -> Nat] ELSE Nat
AtMost(s, v, w) == IF s = "log" THEN \A r \in Request : v[r] <= w[r] ELSE v <= w
Stats == {Never} \cup {<<v>> : v \in [Request -> Nat] \cup Nat}
Phases == {"idle", "emptying", "clearing", "pricing", "loading", "next", "reading", "writing"}
Imports == [at : Phases, todo : Seq(Sources), loaded : [Sources -> Stats],
            stat : Stats, rows : {<<>>} \cup UNION {{RowsAt(s, v) : v \in Versions(s)} : s \in Sources},
            limit : {0} \cup {Codex[n].limit : n \in Nat}, cut : BOOLEAN]

\* Who has heard, logged and checkpointed what.
Sendable == Commands \cup [kind : {"record"}, request : Request, usage : Nat]
Types ==
  /\ queue \in Seq(Sendable)
  /\ known \in [Request -> Nat] /\ logged \in [Request -> Nat] /\ main \in [Request -> Nat]
  /\ \A r \in Request : /\ main[r] <= logged[r] /\ logged[r] <= known[r]
                        /\ known[r] <= Len(UsageOf[r])
  /\ length \in [DOMAIN Lines -> Nat] /\ \A s \in DOMAIN Lines : length[s] <= Len(Lines[s])
  /\ cursors \in [Sources -> Stats] /\ import \in [Importer -> Imports]

\* An importer has the stat of an earlier version, and rows of one in between, unless the
\* reading was cut short.
Follows(i) == i.at \in {"reading", "writing"} =>
  /\ i.todo # <<>>
  /\ LET s == Head(i.todo) IN \E v \in Versions(s) :
       /\ i.stat = <<v>> /\ AtMost(s, v, Seen(s))
       /\ i.at = "writing" => \E w \in Versions(s) :
            i.rows = RowsAt(s, w) /\ (i.cut \/ AtMost(s, v, w)) /\ AtMost(s, w, Now(s))
ImportsFollow == \A p \in Importer : Follows(import[p])

\* A cursor is of an earlier version...
CursorsFollow == \A s \in Sources :
  cursors[s] = Never \/ \E v \in Versions(s) : cursors[s] = <<v>> /\ AtMost(s, v, Seen(s))

\* ...and when it is that of the file, and not torn, the ledger has the rows of the file:
\* for those of the log, rows that are not older.
InFile(s) == RowsAt(s, Seen(s))
RowsAreThere == \A s \in Sources : cursors[s] = Stat(s) /\ s \notin torn =>
  \A k \in DOMAIN InFile(s) : k \in DOMAIN ledger /\ (k \in overtaken \/ Current(k, ledger[k]))

\* The ledger has no row that no source has had; those of the log tell of a usage heard.
Told(r, row) == \E n \in 1..known[r] : Counts(UsageOf[r][n]) /\ row = Record(UsageOf[r][n])
Possible(k, row) == \/ \E r \in Request : k = <<"proxy", r>> /\ Told(r, row)
                    \/ k \in DOMAIN CodexRows[length["codex"]]
                    \/ k \in DOMAIN ClaudeRows[length["claude"]]
QueueIsTold == \A i \in DOMAIN queue : queue[i].kind = "record" =>
  /\ queue[i].request \in Request /\ queue[i].usage \in 1..known[queue[i].request]
  /\ Counts(UsageOf[queue[i].request][queue[i].usage])
NothingElse == \A k \in DOMAIN ledger : Possible(k, ledger[k])

LedgerInv == Types /\ ImportsFollow /\ CursorsFollow /\ RowsAreThere
             /\ QueueIsTold /\ NothingElse

------------------------------------------------------------------------------
\* Rows and versions

Tag(s) == CASE s = "log" -> "proxy" [] s = "codex" -> "codex_cli" [] s = "claude" -> "claude_cli"

\* The versions there can be.
Held(s) == IF s = "log" THEN [Request -> Nat] ELSE 0..Len(Lines[s])

\* The sources are the log and the sessions.
LEMMA SourcesAre == Sources = {"log", "codex", "claude"} /\ Sources = {"log"} \cup DOMAIN Lines
  BY LinesAre DEF Sources

\* A key tells its source.
LEMMA KeyTag ==
  ASSUME NEW s \in Sources, NEW v \in Held(s), NEW k \in DOMAIN RowsAt(s, v)
  PROVE  k[1] = Tag(s)
  <1>1. CASE s = "log"
    BY <1>1 DEF RowsAt, LogRows, Tag
  <1>2. CASE s = "codex"
    BY <1>2, CodexIs, LinesAre DEF RowsAt, CodexRows, Tag, Held
  <1>3. CASE s = "claude"
    <2>1. v \in 0..Len(ClaudeLines) /\ k \in DOMAIN ClaudeRows[v]
      BY <1>3, LinesAre DEF RowsAt, Held
    <2> QED
      BY <1>3, <2>1, MessageKeys DEF Tag
  <1> QED
    BY <1>1, <1>2, <1>3, SourcesAre

\* No key is of two sources.
LEMMA KeysApart ==
  ASSUME NEW s \in Sources, NEW t \in Sources, s # t, NEW v \in Held(s), NEW w \in Held(t),
         NEW k \in DOMAIN RowsAt(s, v)
  PROVE  k \notin DOMAIN RowsAt(t, w)
  <1>1. Tag(s) # Tag(t)
    BY SourcesAre DEF Tag
  <1> QED
    BY <1>1, KeyTag

\* The versions of now, and the order between versions.
LEMMA VersionsNow ==
  ASSUME Types, NEW s \in Sources
  PROVE  /\ Now(s) \in Held(s) /\ Seen(s) \in Held(s) /\ AtMost(s, Seen(s), Now(s))
         /\ Held(s) \subseteq Versions(s) /\ Now(s) \in Versions(s) /\ Seen(s) \in Versions(s)
         /\ Rows(s) = RowsAt(s, Now(s)) /\ Stat(s) = <<Seen(s)>>
  <1>1. CASE s = "log"
    BY <1>1 DEF Types, Now, Seen, Held, AtMost, Versions, Rows, RowsAt, Stat
  <1>2. CASE s \in DOMAIN Lines
    <2>1. s # "log" /\ length[s] \in 0..Len(Lines[s]) /\ Held(s) \subseteq Nat
      BY <1>2, LinesAre DEF Types, Held
    <2> QED
      BY <1>2, <2>1, LinesAre DEF Now, Seen, Held, AtMost, Versions, Rows, RowsAt, Stat
  <1> QED
    BY <1>1, <1>2, SourcesAre

\* The order between versions is one.
LEMMA AtMostTransitive ==
  ASSUME NEW s, NEW u \in Versions(s), NEW v \in Versions(s), NEW w \in Versions(s),
         AtMost(s, u, v), AtMost(s, v, w)
  PROVE  AtMost(s, u, w)
  <1>1. CASE s = "log"
    <2>1. \A r \in Request : u[r] \in Nat /\ v[r] \in Nat /\ w[r] \in Nat
      BY <1>1 DEF Versions
    <2> QED
      BY <1>1, <2>1 DEF AtMost
  <1>2. CASE s # "log"
    BY <1>2 DEF Versions, AtMost
  <1> QED
    BY <1>1, <1>2

\* Versions that are each at most the other are the same.
LEMMA AtMostBoth ==
  ASSUME NEW s, NEW v \in Versions(s), NEW w \in Versions(s), AtMost(s, v, w), AtMost(s, w, v)
  PROVE  v = w
  <1>1. CASE s = "log"
    <2>1. \A r \in Request : v[r] \in Nat /\ w[r] \in Nat /\ v[r] = w[r]
      BY <1>1 DEF Versions, AtMost
    <2> QED
      BY <1>1, <2>1 DEF Versions
  <1>2. CASE s # "log"
    BY <1>2 DEF Versions, AtMost
  <1> QED
    BY <1>1, <1>2

LEMMA AtMostSame == ASSUME NEW s, NEW v \in Versions(s) PROVE AtMost(s, v, v)
  BY DEF AtMost, Versions

\* A version that is not later than one there is.
LEMMA HeldBelow ==
  ASSUME Types, NEW s \in Sources, NEW v \in Versions(s), AtMost(s, v, Now(s))
  PROVE  v \in Held(s)
  <1>1. CASE s = "log"
    BY <1>1 DEF Versions, Held
  <1>2. CASE s # "log"
    BY <1>2, VersionsNow DEF Versions, Held, AtMost
  <1> QED
    BY <1>1, <1>2

\* Of a session the current row is that of the file; of a request it tells of a usage that
\* is not older than the file's.
LEMMA CurrentIs ==
  ASSUME Types, NEW k, NEW row
  PROVE  /\ \A s \in {"codex", "claude"} : k \in DOMAIN Rows(s) =>
              (Current(k, row) <=> row = Rows(s)[k])
         /\ \A r : k = <<"proxy", r>> =>
              (Current(k, row) <=> r \in Request /\ \E n \in Since(r) : row = Record(UsageOf[r][n]))
  <1>1. \A s \in {"codex", "claude"} : k \in DOMAIN Rows(s) => k[1] = Tag(s)
    BY VersionsNow, KeyTag, SourcesAre
  <1>2. Tag("codex") = "codex_cli" /\ Tag("claude") = "claude_cli"
    BY DEF Tag
  <1>3. \A r : k = <<"proxy", r>> => k[1] = "proxy" /\ k[2] = r
    OBVIOUS
  <1>4. ASSUME NEW s \in {"codex", "claude"}, k \in DOMAIN Rows(s)
        PROVE  Current(k, row) <=> row = Rows(s)[k]
    <2>1. \A t \in {"codex", "claude"} : k \in DOMAIN Rows(t) => t = s
      BY <1>1, <1>2, <1>4
    <2>2. \A r : k # <<"proxy", r>>
      BY <1>1, <1>2, <1>3, <1>4
    <2> QED
      BY <1>4, <2>1, <2>2 DEF Current
  <1>5. ASSUME NEW r, k = <<"proxy", r>>
        PROVE  Current(k, row) <=> r \in Request /\ \E n \in Since(r) : row = Record(UsageOf[r][n])
    <2>1. \A t \in {"codex", "claude"} : k \notin DOMAIN Rows(t)
      BY <1>1, <1>2, <1>3, <1>5
    <2>2. \A q : k = <<"proxy", q>> => q = r
      BY <1>3, <1>5
    <2> QED
      BY <1>5, <2>1, <2>2 DEF Current
  <1> QED
    BY <1>4, <1>5

\* The keys of a file's rows.
LEMMA FileKeys ==
  ASSUME Types, NEW s \in Sources, NEW k \in DOMAIN InFile(s)
  PROVE  /\ s # "log" => s \in {"codex", "claude"} /\ k \in DOMAIN Rows(s)
         /\ s = "log" => \E r \in Counted(main) : k = <<"proxy", r>>
  <1>1. CASE s = "log"
    BY <1>1 DEF InFile, RowsAt, LogRows, Seen
  <1>2. CASE s # "log"
    BY <1>2, SourcesAre DEF InFile, Seen, Rows, Now
  <1> QED
    BY <1>1, <1>2

\* The usages of a request are a sequence.
LEMMA UsagesAre ==
  ASSUME NEW r \in Request
  PROVE  Len(UsageOf[r]) \in Nat /\ DOMAIN UsageOf[r] = 1..Len(UsageOf[r])
  <1>1. PICK S, u : u = UsageOf[r] /\ u \in Seq(S)
    BY ConstantsOK
  <1> QED
    BY <1>1

\* A row of a file stays current while the source has its rows and the usages it had.
LEMMA CurrentStays ==
  ASSUME Types, Types', NEW s \in Sources, NEW k \in DOMAIN InFile(s), NEW row, Current(k, row),
         s # "log" => length'[s] = length[s],
         s = "log" => main' = main /\ \A r \in Request : known[r] <= known'[r]
  PROVE  Current(k, row)'
  <1>1. CASE s # "log"
    <2>1. s \in {"codex", "claude"} /\ k \in DOMAIN Rows(s) /\ Rows(s)' = Rows(s)
      BY <1>1, FileKeys DEF Rows, Now
    <2>2. row = Rows(s)[k]
      BY <2>1, CurrentIs
    <2> QED
      BY <2>1, <2>2 DEF Current
  <1>2. CASE s = "log"
    <2>1. PICK r \in Counted(main) : k = <<"proxy", r>>
      BY <1>2, FileKeys
    <2>2. r \in Request /\ \E n \in Since(r) : row = Record(UsageOf[r][n])
      BY <2>1, CurrentIs
    <2>3. Since(r) \subseteq Since(r)'
      BY <1>2, <2>2 DEF Since, Types
    <2> QED
      BY <2>1, <2>2, <2>3 DEF Current
  <1> QED
    BY <1>1, <1>2

\* What was read after the one in the file has its rows, as current.
LEMMA ReadsCurrent ==
  ASSUME Types, NEW s \in Sources, NEW w \in Versions(s), AtMost(s, Seen(s), w),
         AtMost(s, w, Now(s)), NEW k \in DOMAIN InFile(s)
  PROVE  k \in DOMAIN RowsAt(s, w) /\ Current(k, RowsAt(s, w)[k])
  <1>1. CASE s = "log"
    <2>1. PICK r \in Counted(main) : k = <<"proxy", r>>
      BY <1>1, FileKeys
    <2>2. r \in Request /\ main[r] > 0 /\ Counts(UsageOf[r][main[r]])
      BY <2>1 DEF Counted
    <2>3. /\ w[r] \in Nat /\ main[r] \in Nat /\ logged[r] \in Nat /\ known[r] \in Nat
          /\ main[r] <= w[r] /\ w[r] <= logged[r] /\ logged[r] <= known[r]
          /\ known[r] <= Len(UsageOf[r]) /\ Len(UsageOf[r]) \in Nat
          /\ DOMAIN UsageOf[r] = 1..Len(UsageOf[r])
      BY <1>1, <2>2, UsagesAre DEF Types, AtMost, Versions, Seen, Now
    <2>4. Counts(UsageOf[r][w[r]])
      <3>1. main[r] \in DOMAIN UsageOf[r] /\ w[r] \in DOMAIN UsageOf[r]
        BY <2>2, <2>3
      <3>2. w[r] = main[r] \/ main[r] < w[r]
        BY <2>3
      <3> QED
        BY <2>2, <3>1, <3>2, UsageGrows
    <2>5. r \in Counted(w)
      BY <2>2, <2>3, <2>4 DEF Counted
    <2>6. k \in DOMAIN RowsAt(s, w) /\ RowsAt(s, w)[k] = Record(UsageOf[r][w[r]])
      BY <1>1, <2>1, <2>5 DEF RowsAt, LogRows
    <2>7. w[r] \in Since(r)
      BY <2>2, <2>3 DEF Since
    <2> QED
      BY <2>1, <2>2, <2>6, <2>7, CurrentIs
  <1>2. CASE s # "log"
    <2>1. Seen(s) = Now(s)
      BY <1>2 DEF Seen, Now
    <2>2. w = Now(s)
      BY <2>1, VersionsNow, AtMostBoth
    <2>3. s \in {"codex", "claude"} /\ k \in DOMAIN Rows(s) /\ RowsAt(s, w) = Rows(s)
      BY <1>2, <2>2, FileKeys DEF Rows
    <2> QED
      BY <2>3, CurrentIs
  <1> QED
    BY <1>1, <1>2

\* What has been read of a source is possible in the ledger.
LEMMA ReadIsPossible ==
  ASSUME Types, NEW s \in Sources, NEW w \in Versions(s), AtMost(s, w, Now(s)),
         NEW k \in DOMAIN RowsAt(s, w)
  PROVE  Possible(k, RowsAt(s, w)[k])
  <1>1. CASE s = "log"
    <2>1. PICK r \in Counted(w) : k = <<"proxy", r>>
      BY <1>1 DEF RowsAt, LogRows
    <2>2. r \in Request /\ w[r] > 0 /\ Counts(UsageOf[r][w[r]])
      BY <2>1 DEF Counted
    <2>3. w[r] \in 1..known[r]
      BY <1>1, <2>2 DEF Types, Versions, AtMost, Now
    <2>4. RowsAt(s, w)[k] = Record(UsageOf[r][w[r]])
      BY <1>1, <2>1 DEF RowsAt, LogRows
    <2> QED
      BY <2>1, <2>2, <2>3, <2>4 DEF Told, Possible
  <1>2. CASE s = "codex"
    <2>1. w \in 0..Len(CodexLines) /\ length["codex"] \in 0..Len(CodexLines) /\ w <= length["codex"]
      BY <1>2, HeldBelow, VersionsNow, LinesAre DEF Held, AtMost, Now
    <2> QED
      BY <1>2, <2>1, TurnsStay DEF RowsAt, Possible
  <1>3. CASE s = "claude"
    <2>1. w \in 0..Len(ClaudeLines) /\ length["claude"] \in 0..Len(ClaudeLines) /\ w <= length["claude"]
      BY <1>3, HeldBelow, VersionsNow, LinesAre DEF Held, AtMost, Now
    <2> QED
      BY <1>3, <2>1, MessagesStay DEF RowsAt, Possible
  <1> QED
    BY <1>1, <1>2, <1>3, SourcesAre

\* What is possible stays so.
LEMMA PossibleStays ==
  ASSUME Types, Types', \A r \in Request : known[r] <= known'[r],
         \A s \in DOMAIN Lines : length[s] <= length'[s],
         NEW k, NEW row, Possible(k, row)
  PROVE  Possible(k, row)'
  <1>1. \A r \in Request : Told(r, row) => Told(r, row)'
    <2> SUFFICES ASSUME NEW r \in Request, NEW n \in 1..known[r], Counts(UsageOf[r][n]),
                        row = Record(UsageOf[r][n])
                 PROVE  Told(r, row)'
      BY DEF Told
    <2>1. n \in 1..known'[r]
      BY DEF Types
    <2> QED
      BY <2>1 DEF Told
  <1>2. /\ length["codex"] \in 0..Len(CodexLines) /\ length'["codex"] \in 0..Len(CodexLines)
        /\ length["claude"] \in 0..Len(ClaudeLines) /\ length'["claude"] \in 0..Len(ClaudeLines)
        /\ length["codex"] <= length'["codex"] /\ length["claude"] <= length'["claude"]
    BY LinesAre DEF Types
  <1>3. /\ DOMAIN CodexRows[length["codex"]] \subseteq DOMAIN CodexRows[length'["codex"]]
        /\ DOMAIN ClaudeRows[length["claude"]] \subseteq DOMAIN ClaudeRows[length'["claude"]]
    BY <1>2, TurnsStay, MessagesStay
  <1> QED
    BY <1>1, <1>3 DEF Possible

------------------------------------------------------------------------------
\* The steps of the others: of the tracker, its writer and the writers of the sources

\* The sources only grow.
LEMMA SourcesGrow ==
  ASSUME Types, Types', ImportsFollow, CursorsFollow, UNCHANGED <<import, cursors>>,
         \A s \in Sources : AtMost(s, Now(s), Now(s)') /\ AtMost(s, Seen(s), Seen(s)')
  PROVE  ImportsFollow' /\ CursorsFollow'
  <1>1. \A s \in Sources : /\ Now(s) \in Versions(s) /\ Now(s)' \in Versions(s)
                           /\ Seen(s) \in Versions(s) /\ Seen(s)' \in Versions(s)
    <2> TAKE s \in Sources
    <2>1. Now(s) \in Versions(s) /\ Seen(s) \in Versions(s)
      BY VersionsNow
    <2>2. Now(s)' \in Versions(s) /\ Seen(s)' \in Versions(s)
      <3>1. CASE s = "log"
        BY <3>1 DEF Types, Now, Seen, Versions
      <3>2. CASE s \in DOMAIN Lines
        BY <3>2, LinesAre DEF Types, Now, Seen, Versions
      <3> QED
        BY <3>1, <3>2, SourcesAre
    <2> QED
      BY <2>1, <2>2
  <1>2. \A s \in Sources : \A v \in Versions(s) :
          /\ AtMost(s, v, Seen(s)) => AtMost(s, v, Seen(s)')
          /\ AtMost(s, v, Now(s)) => AtMost(s, v, Now(s)')
    BY <1>1, AtMostTransitive
  <1>3. CursorsFollow'
    <2> SUFFICES ASSUME NEW s \in Sources, cursors[s] # Never
                 PROVE  \E v \in Versions(s) : cursors[s] = <<v>> /\ AtMost(s, v, Seen(s)')
      BY DEF CursorsFollow
    <2>1. PICK v \in Versions(s) : cursors[s] = <<v>> /\ AtMost(s, v, Seen(s))
      BY DEF CursorsFollow
    <2> QED
      BY <1>2, <2>1
  <1>4. ImportsFollow'
    <2> SUFFICES ASSUME NEW p \in Importer, import[p].at \in {"reading", "writing"}
                 PROVE  Follows(import[p])'
      BY DEF ImportsFollow, Follows
    <2>1. import[p].todo # <<>> /\ Head(import[p].todo) \in Sources
      <3>1. import[p].todo # <<>>
        BY DEF ImportsFollow, Follows
      <3>2. import[p].todo \in Seq(Sources)
        BY DEF Types, Imports
      <3> QED
        BY <3>1, <3>2
    <2> PICK s \in Sources : s = Head(import[p].todo)
      BY <2>1
    <2>2. PICK v \in Versions(s) :
            /\ import[p].stat = <<v>> /\ AtMost(s, v, Seen(s))
            /\ import[p].at = "writing" => \E w \in Versions(s) :
                 import[p].rows = RowsAt(s, w) /\ (import[p].cut \/ AtMost(s, v, w)) /\ AtMost(s, w, Now(s))
      BY DEF ImportsFollow, Follows
    <2>3. AtMost(s, v, Seen(s)')
      BY <1>2, <2>1, <2>2
    <2>4. import[p].at = "writing" => \E w \in Versions(s) :
            import[p].rows = RowsAt(s, w) /\ (import[p].cut \/ AtMost(s, v, w)) /\ AtMost(s, w, Now(s)')
      BY <1>2, <2>1, <2>2
    <2> QED
      BY <2>1, <2>2, <2>3, <2>4 DEF Follows
  <1> QED
    BY <1>3, <1>4

\* When neither stands in the way of the other: a source that is left alone has the same
\* versions.
LEMMA SameVersions ==
  ASSUME Types, UNCHANGED <<logged, main, length>>
  PROVE  \A s \in Sources : /\ Now(s)' = Now(s) /\ Seen(s)' = Seen(s) /\ Rows(s)' = Rows(s)
                            /\ Stat(s)' = Stat(s)
  BY DEF Now, Seen, Rows, Stat

\* Rows that are put over others leave those of the sources, or leave a mark.
LEMMA PutsRows ==
  ASSUME RowsAreThere, NEW rows, UNCHANGED <<known, logged, main, length, cursors, torn>>,
         ledger' = Upsert(ledger, rows), overtaken' = overtaken \cup Overtaken(rows)
  PROVE  RowsAreThere'
  <1>0. /\ \A s \in Sources : /\ InFile(s)' = InFile(s) /\ Stat(s)' = Stat(s)
                              /\ cursors'[s] = cursors[s]
        /\ \A k, row : Current(k, row)' <=> Current(k, row)
    BY DEF InFile, Seen, Stat, Current, Rows, Now, Since
  <1> SUFFICES ASSUME NEW s \in Sources, cursors[s] = Stat(s), s \notin torn, NEW k \in DOMAIN InFile(s)
               PROVE  k \in DOMAIN ledger' /\ (k \in overtaken' \/ Current(k, ledger'[k]))
    BY <1>0 DEF RowsAreThere
  <1>1. k \in DOMAIN ledger /\ (k \in overtaken \/ Current(k, ledger[k]))
    BY DEF RowsAreThere
  <1>2. k \in DOMAIN ledger' /\ ledger'[k] = IF k \in DOMAIN rows THEN rows[k] ELSE ledger[k]
    BY <1>1 DEF Upsert
  <1>3. CASE k \in overtaken
    BY <1>2, <1>3
  <1>4. CASE k \notin overtaken /\ k \notin DOMAIN rows
    BY <1>1, <1>2, <1>4
  <1>5. CASE k \notin overtaken /\ k \in DOMAIN rows
    <2>1. ~Current(k, rows[k]) => k \in Overtaken(rows)
      BY <1>1, <1>5 DEF Overtaken
    <2> QED
      BY <1>2, <1>5, <2>1
  <1> QED
    BY <1>3, <1>4, <1>5

\* What is in the queue stays told when more is.
LEMMA QueueStays ==
  ASSUME Types, Types', QueueIsTold, \A r \in Request : known[r] <= known'[r],
         \A i \in DOMAIN queue' : \/ queue'[i].kind # "record"
                                  \/ \E j \in DOMAIN queue : queue'[i] = queue[j]
  PROVE  QueueIsTold'
  <1> SUFFICES ASSUME NEW i \in DOMAIN queue', queue'[i].kind = "record"
               PROVE  /\ queue'[i].request \in Request
                      /\ queue'[i].usage \in 1..known'[queue'[i].request]
                      /\ Counts(UsageOf[queue'[i].request][queue'[i].usage])
    BY DEF QueueIsTold
  <1>1. PICK j \in DOMAIN queue : queue'[i] = queue[j]
    OBVIOUS
  <1>2. /\ queue[j].request \in Request /\ queue[j].usage \in 1..known[queue[j].request]
        /\ Counts(UsageOf[queue[j].request][queue[j].usage])
    BY <1>1 DEF QueueIsTold
  <1> QED
    BY <1>1, <1>2 DEF Types

\* The invariant holds at first.
LEMMA LedgerInit ==
  ASSUME Init
  PROVE  LedgerInv
  <1>1. Idle \in Imports /\ Idle.at = "idle"
    BY DEF Idle, Imports, Phases, Stats
  <1>2. Types
    <2>1. \A r \in Request : Len(UsageOf[r]) \in Nat
      BY ConstantsOK
    <2>2. cursors \in [Sources -> Stats]
      BY DEF Init, Stats
    <2>3. length \in [DOMAIN Lines -> Nat] /\ \A s \in DOMAIN Lines : length[s] <= Len(Lines[s])
      BY ConstantsOK DEF Init
    <2>4. import \in [Importer -> Imports]
      BY <1>1 DEF Init
    <2>5. known \in [Request -> Nat] /\ known = [r \in Request |-> 0] /\ logged = known /\ main = known
      BY DEF Init
    <2>6. queue \in Seq(Sendable)
      BY DEF Init
    <2> QED
      BY <2>1, <2>2, <2>3, <2>4, <2>5, <2>6 DEF Types
  <1>3. \A p \in Importer : import[p].at = "idle"
    BY <1>1 DEF Init
  <1>4. \A s \in Sources : cursors[s] = Never /\ Stat(s) # Never
    BY DEF Init, Stat, Never
  <1>5. queue = <<>> /\ DOMAIN ledger = {}
    BY DEF Init
  <1> QED
    BY <1>2, <1>3, <1>4, <1>5 DEF LedgerInv, ImportsFollow, Follows, CursorsFollow,
       RowsAreThere, QueueIsTold, NothingElse

\* The importers, the cursors, the ledger and the prices are not touched.
Apart == UNCHANGED <<ledger, overtaken, torn, cursors, priced, import>>

\* What the ledger owes to its sources stays when neither they nor it change.
LEMMA ApartKeeps ==
  ASSUME LedgerInv, Types', Apart, QueueIsTold', RowsAreThere',
         \A r \in Request : known[r] <= known'[r],
         \A s \in DOMAIN Lines : length[s] <= length'[s],
         \A s \in Sources : AtMost(s, Now(s), Now(s)') /\ AtMost(s, Seen(s), Seen(s)')
  PROVE  LedgerInv'
  <1> USE DEF LedgerInv
  <1>1. ImportsFollow' /\ CursorsFollow'
    BY SourcesGrow DEF Apart
  <1>2. NothingElse'
    BY PossibleStays DEF NothingElse, Apart
  <1> QED
    BY <1>1, <1>2

\* The versions of the sources that a step leaves alone.
LEMMA NotGrown ==
  ASSUME Types, UNCHANGED <<logged, main, length>>
  PROVE  \A s \in Sources : AtMost(s, Now(s), Now(s)') /\ AtMost(s, Seen(s), Seen(s)')
  BY SameVersions, VersionsNow, AtMostSame

\* An answer reports usage: no source has it yet.
LEMMA ReportsStep ==
  ASSUME LedgerInv, NEW r \in Request, Reports(r)
  PROVE  LedgerInv'
  <1> USE DEF LedgerInv
  <1>1. Apart /\ UNCHANGED <<logged, main, length>>
    BY DEF Reports, store, sources, Apart
  <1>2. /\ known' = [known EXCEPT ![r] = @ + 1] /\ known[r] < Len(UsageOf[r])
        /\ known'[r] = known[r] + 1 /\ \A q \in Request \ {r} : known'[q] = known[q]
        /\ known[r] \in Nat
    BY DEF Reports, Types
  <1>3. Types'
    <2>1. Len(UsageOf[r]) \in Nat
      BY ConstantsOK
    <2>2. known' \in [Request -> Nat]
      BY <1>2 DEF Types
    <2>3. \A q \in Request : logged[q] <= known'[q] /\ known'[q] <= Len(UsageOf[q])
      BY <1>2, <2>1 DEF Types
    <2>4. queue' \in Seq(Sendable)
      <3>1. known'[r] \in Nat
        BY <1>2
      <3>2. Sent(r, known'[r]) \in Sendable
        BY <3>1 DEF Sent, Sendable
      <3>3. queue' = queue \/ queue' = Append(queue, Sent(r, known'[r]))
        BY DEF Reports
      <3>4. queue \in Seq(Sendable)
        BY DEF Types
      <3> QED
        BY <3>2, <3>3, <3>4
    <2> QED
      BY <1>1, <2>2, <2>3, <2>4 DEF Types, Apart
  <1>4. \A q \in Request : known[q] <= known'[q]
    BY <1>2, <1>3 DEF Types
  <1>5. QueueIsTold'
    <2>1. CASE UNCHANGED queue
      BY <1>3, <1>4, <2>1, QueueStays
    <2>2. CASE queue' = Append(queue, Sent(r, known'[r])) /\ Counts(UsageOf[r][known'[r]])
      <3>1. \A i \in DOMAIN queue' : \/ i \in DOMAIN queue /\ queue'[i] = queue[i]
                                  \/ queue'[i] = Sent(r, known'[r])
        BY <2>2
      <3>2. known'[r] \in 1..known'[r]
        BY <1>2
      <3> SUFFICES ASSUME NEW i \in DOMAIN queue', queue'[i].kind = "record"
                   PROVE  /\ queue'[i].request \in Request
                          /\ queue'[i].usage \in 1..known'[queue'[i].request]
                          /\ Counts(UsageOf[queue'[i].request][queue'[i].usage])
        BY DEF QueueIsTold
      <3>3. CASE queue'[i] = Sent(r, known'[r])
        BY <2>2, <3>2, <3>3, SMTT(30) DEF Sent
      <3>4. CASE i \in DOMAIN queue /\ queue'[i] = queue[i]
        <4>1. /\ queue[i].request \in Request /\ queue[i].usage \in 1..known[queue[i].request]
              /\ Counts(UsageOf[queue[i].request][queue[i].usage])
          BY <3>4 DEF QueueIsTold
        <4> QED
          BY <1>3, <1>4, <3>4, <4>1 DEF Types
      <3> QED
        BY <3>1, <3>3, <3>4
    <2> QED
      BY <2>1, <2>2 DEF Reports
  <1>6. RowsAreThere'
    <2>1. \A s \in Sources : InFile(s)' = InFile(s) /\ Stat(s)' = Stat(s)
      BY <1>1 DEF InFile, Seen, Stat
    <2>2. ASSUME NEW s \in Sources, NEW k \in DOMAIN InFile(s), NEW row, Current(k, row)
          PROVE  Current(k, row)'
      BY <1>1, <1>3, <1>4, <2>2, CurrentStays
    <2> QED
      BY <1>1, <2>1, <2>2 DEF RowsAreThere, Apart
  <1>7. \A s \in DOMAIN Lines : length[s] <= length'[s]
    BY <1>1 DEF Types
  <1> QED
    BY <1>1, <1>3, <1>4, <1>5, <1>6, <1>7, NotGrown, ApartKeeps

\* Neither what is heard nor what the sources hold changes.
LEMMA QuietKeeps ==
  ASSUME LedgerInv, Apart, UNCHANGED <<known, logged, main, length>>, queue' \in Seq(Sendable),
         \A i \in DOMAIN queue' : \/ queue'[i].kind # "record"
                                  \/ \E j \in DOMAIN queue : queue'[i] = queue[j]
  PROVE  LedgerInv'
  <1> USE DEF LedgerInv
  <1>1. Types'
    BY DEF Types, Apart
  <1>2. QueueIsTold'
    BY <1>1, QueueStays DEF Types
  <1>3. RowsAreThere'
    <2>1. /\ \A s \in Sources : InFile(s)' = InFile(s) /\ Stat(s)' = Stat(s)
          /\ \A k, row : Current(k, row)' <=> Current(k, row)
      BY DEF InFile, Seen, Stat, Current, Rows, Now, Since
    <2> QED
      BY <2>1 DEF RowsAreThere, Apart
  <1>4. /\ \A r \in Request : known[r] <= known'[r]
        /\ \A s \in DOMAIN Lines : length[s] <= length'[s]
    BY DEF Types
  <1> QED
    BY <1>1, <1>2, <1>3, <1>4, NotGrown, ApartKeeps

\* Another command is sent: it brings no row.
LEMMA SendsStep ==
  ASSUME LedgerInv, NEW c \in Commands, Sends(c)
  PROVE  LedgerInv'
  <1>1. Apart /\ UNCHANGED <<known, logged, main, length>> /\ queue' = Append(queue, c)
    BY DEF Sends, store, sources, Apart
  <1>2. c.kind # "record"
    BY ConstantsOK
  <1>3. queue \in Seq(Sendable) /\ c \in Sendable
    BY DEF LedgerInv, Types, Sendable
  <1>4. /\ queue' \in Seq(Sendable)
        /\ \A i \in DOMAIN queue' : (i \in DOMAIN queue /\ queue'[i] = queue[i]) \/ queue'[i] = c
    BY <1>1, <1>3
  <1> QED
    BY <1>1, <1>2, <1>4, QuietKeeps

\* A checkpoint brings the file to what was logged: the cursor no longer matches.
LEMMA CheckpointStep ==
  ASSUME LedgerInv, Checkpoint
  PROVE  LedgerInv'
  <1> USE DEF LedgerInv
  <1>1. Apart /\ UNCHANGED <<known, queue, logged, length>> /\ main # logged /\ main' = logged
    BY DEF Checkpoint, tracker, store, Apart
  <1>2. Types'
    <2>1. \A r \in Request : logged[r] <= logged[r]
      BY DEF Types
    <2> QED
      BY <1>1, <2>1 DEF Types, Apart
  <1>3. QueueIsTold'
    BY <1>1, QueueStays, <1>2 DEF Types
  <1>4. \A s \in Sources : /\ s # "log" => Seen(s)' = Seen(s) /\ Stat(s)' = Stat(s)
                           /\ Rows(s)' = Rows(s) /\ Now(s)' = Now(s)
    BY <1>1 DEF Seen, Stat, Rows, Now
  <1>5. cursors["log"] # Stat("log")'
    <2>1. "log" \in Sources /\ Stat("log")' = <<logged>> /\ Seen("log") = main /\ Now("log") = logged
      BY <1>1, SourcesAre DEF Stat, Seen, Now
    <2> SUFFICES ASSUME cursors["log"] = <<logged>> PROVE FALSE
      BY <2>1
    <2>2. AtMost("log", logged, main)
      BY <2>1 DEF CursorsFollow, Never
    <2> QED
      BY <1>1, <2>1, <2>2, VersionsNow, AtMostBoth
  <1>6. RowsAreThere'
    <2>1. \A s \in Sources : s # "log" => InFile(s)' = InFile(s)
      BY <1>1 DEF InFile, Seen
    <2>2. ASSUME NEW s \in Sources, s # "log", NEW k \in DOMAIN InFile(s), NEW row, Current(k, row)
          PROVE  Current(k, row)'
      BY <1>1, <1>2, <2>2, CurrentStays
    <2> QED
      BY <1>1, <1>4, <1>5, <2>1, <2>2 DEF RowsAreThere, Apart
  <1>7. \A s \in Sources : AtMost(s, Now(s), Now(s)') /\ AtMost(s, Seen(s), Seen(s)')
    <2> TAKE s \in Sources
    <2>1. CASE s = "log"
      BY <1>1, <2>1, VersionsNow, AtMostSame DEF Now, Seen
    <2>2. CASE s # "log"
      BY <1>4, <2>2, VersionsNow, AtMostSame
    <2> QED
      BY <2>1, <2>2
  <1>8. /\ \A r \in Request : known[r] <= known'[r]
        /\ \A s \in DOMAIN Lines : length[s] <= length'[s]
    BY <1>1 DEF Types
  <1> QED
    BY <1>1, <1>2, <1>3, <1>6, <1>7, <1>8, ApartKeeps

\* The log gets what was heard; its file stays.
LEMMA LogsStep ==
  ASSUME LedgerInv, NEW r \in Request, Logs(r)
  PROVE  LedgerInv'
  <1> USE DEF LedgerInv
  <1>1. /\ Apart /\ UNCHANGED <<known, queue, main, length>>
        /\ logged[r] < known[r] /\ logged' = [logged EXCEPT ![r] = known[r]]
    BY DEF Logs, tracker, store, Apart
  <1>2. logged'[r] = known[r] /\ \A q \in Request \ {r} : logged'[q] = logged[q]
    BY <1>1 DEF Types
  <1>3. \A q \in Request : main[q] <= logged[q] /\ logged[q] <= logged'[q] /\ logged'[q] <= known[q]
    BY <1>1, <1>2 DEF Types
  <1>4. Types'
    <2>1. logged' \in [Request -> Nat]
      BY <1>1 DEF Types
    <2>2. \A q \in Request : main[q] <= logged'[q]
      BY <1>3, <2>1 DEF Types
    <2> QED
      BY <1>1, <1>3, <2>1, <2>2 DEF Types, Apart
  <1>5. QueueIsTold'
    BY <1>1, <1>4, QueueStays DEF Types
  <1>6. \A s \in Sources : /\ Seen(s)' = Seen(s) /\ Stat(s)' = Stat(s)
                           /\ s # "log" => Rows(s)' = Rows(s) /\ Now(s)' = Now(s)
    <2> TAKE s \in Sources
    <2>1. s # "log" => s \in {"codex", "claude"}
      BY SourcesAre
    <2> QED
      BY <1>1, <2>1 DEF Seen, Stat, Rows, Now
  <1>7. RowsAreThere'
    <2>1. /\ \A s \in Sources : InFile(s)' = InFile(s) /\ Stat(s)' = Stat(s)
          /\ \A k, row : Current(k, row)' <=> Current(k, row)
      <3>1. \A s \in {"codex", "claude"} : Rows(s)' = Rows(s)
        BY <1>6, SourcesAre
      <3> QED
        BY <1>1, <3>1 DEF InFile, Seen, Stat, Current, Since
    <2> QED
      BY <1>1, <2>1 DEF RowsAreThere, Apart
  <1>8. \A s \in Sources : AtMost(s, Now(s), Now(s)') /\ AtMost(s, Seen(s), Seen(s)')
    <2> TAKE s \in Sources
    <2>1. CASE s = "log"
      BY <1>1, <1>3, <2>1, VersionsNow, AtMostSame DEF Now, Seen, AtMost
    <2>2. CASE s # "log"
      BY <1>6, <2>2, VersionsNow, AtMostSame
    <2> QED
      BY <2>1, <2>2
  <1>9. /\ \A q \in Request : known[q] <= known'[q]
        /\ \A s \in DOMAIN Lines : length[s] <= length'[s]
    BY <1>1 DEF Types
  <1> QED
    BY <1>1, <1>4, <1>5, <1>7, <1>8, <1>9, ApartKeeps

\* A session grows by a line: its cursor no longer matches.
LEMMA AppendsStep ==
  ASSUME LedgerInv, NEW t \in {"codex", "claude"}, Appends(t)
  PROVE  LedgerInv'
  <1> USE DEF LedgerInv
  <1>1. /\ Apart /\ UNCHANGED <<known, queue, logged, main>>
        /\ length[t] < Len(Lines[t]) /\ length' = [length EXCEPT ![t] = @ + 1]
    BY DEF Appends, tracker, store, Apart
  <1>2. t \in DOMAIN Lines /\ t \in Sources /\ t # "log" /\ DOMAIN length = DOMAIN Lines
    BY LinesAre, SourcesAre DEF Types
  <1>3. length'[t] = length[t] + 1 /\ \A s \in DOMAIN Lines \ {t} : length'[s] = length[s]
    BY <1>1, <1>2
  <1>4. \A s \in DOMAIN Lines : length[s] \in Nat /\ Len(Lines[s]) \in Nat
    BY LinesAre DEF Types
  <1>5. Types'
    <2>1. length' \in [DOMAIN Lines -> Nat]
      BY <1>1, <1>2, <1>4 DEF Types
    <2>2. \A s \in DOMAIN Lines : length'[s] <= Len(Lines[s])
      BY <1>1, <1>3, <1>4 DEF Types
    <2> QED
      BY <1>1, <2>1, <2>2 DEF Types, Apart
  <1>6. QueueIsTold'
    BY <1>1, <1>5, QueueStays DEF Types
  <1>7. \A s \in Sources \ {t} : /\ Seen(s)' = Seen(s) /\ Stat(s)' = Stat(s)
                                 /\ Rows(s)' = Rows(s) /\ Now(s)' = Now(s)
    <2> TAKE s \in Sources \ {t}
    <2>1. s = "log" \/ length'[s] = length[s]
      BY <1>3, SourcesAre
    <2>2. s # "log" => s \in {"codex", "claude"}
      BY SourcesAre
    <2> QED
      BY <1>1, <2>1, <2>2, SMTT(30) DEF Seen, Stat, Rows, Now
  <1>8. cursors[t] # Stat(t)'
    <2>1. Stat(t)' = <<length[t] + 1>> /\ Seen(t) = length[t] /\ Versions(t) = Nat
      BY <1>2, <1>3 DEF Stat, Seen, Versions
    <2> SUFFICES ASSUME cursors[t] = <<length[t] + 1>> PROVE FALSE
      BY <2>1
    <2>2. cursors[t] # Never
      BY DEF Never
    <2>3. PICK v \in Versions(t) : cursors[t] = <<v>> /\ AtMost(t, v, Seen(t))
      <3>1. CursorsFollow /\ t \in Sources
        BY <1>2
      <3> QED
        BY <2>2, <3>1 DEF CursorsFollow
    <2>4. v = length[t] + 1 /\ v <= length[t] /\ length[t] \in Nat
      BY <1>2, <1>4, <2>1, <2>3 DEF AtMost
    <2> QED
      BY <2>4
  <1>9. RowsAreThere'
    <2>1. \A s \in Sources \ {t} : InFile(s)' = InFile(s)
      BY <1>1, <1>7 DEF InFile
    <2>2. ASSUME NEW s \in Sources \ {t}, NEW k \in DOMAIN InFile(s), NEW row, Current(k, row)
          PROVE  Current(k, row)'
      <3>1. s # "log" => length'[s] = length[s]
        BY <1>3, SourcesAre
      <3>2. \A r \in Request : known[r] <= known'[r]
        BY <1>1 DEF Types
      <3> QED
        BY <1>1, <1>5, <2>2, <3>1, <3>2, CurrentStays
    <2> QED
      BY <1>1, <1>7, <1>8, <2>1, <2>2 DEF RowsAreThere, Apart
  <1>10. \A s \in Sources : AtMost(s, Now(s), Now(s)') /\ AtMost(s, Seen(s), Seen(s)')
    <2> TAKE s \in Sources
    <2>1. CASE s = t
      BY <1>2, <1>3, <1>4, <2>1 DEF Now, Seen, AtMost
    <2>2. CASE s # t
      BY <1>7, <2>2, VersionsNow, AtMostSame
    <2> QED
      BY <2>1, <2>2
  <1>11. \A q \in Request : known[q] <= known'[q]
    BY <1>1 DEF Types
  <1>12. \A s \in DOMAIN Lines : length[s] <= length'[s]
    <2> TAKE s \in DOMAIN Lines
    <2>1. s = t \/ length'[s] = length[s]
      BY <1>3
    <2> QED
      BY <1>3, <1>4, <2>1
  <1> QED
    BY <1>1, <1>5, <1>6, <1>9, <1>10, <1>11, <1>12, ApartKeeps

\* What is left of the queue, and what was taken.
LEMMA BatchIs ==
  ASSUME Types, NEW n \in Batches
  PROVE  /\ n \in 1..Len(queue) /\ Batch(n) \in Seq(Sendable) /\ DOMAIN Batch(n) = 1..n
         /\ \A i \in 1..n : Batch(n)[i] = queue[i] /\ i \in DOMAIN queue
  <1>1. queue \in Seq(Sendable) /\ Len(queue) \in Nat /\ DOMAIN queue = 1..Len(queue)
    BY DEF Types
  <1>2. n \in 1..Len(queue)
    BY <1>1, ConstantsOK DEF Batches, Least
  <1> QED
    BY <1>1, <1>2, SubSeqProperties DEF Batch

\* What a batch leaves of the queue was in it.
LEMMA EndedIs ==
  ASSUME Types, NEW n \in Batches, Ended(n)
  PROVE  /\ queue' \in Seq(Sendable)
         /\ \A i \in DOMAIN queue' : \E j \in DOMAIN queue : queue'[i] = queue[j]
  <1>1. queue \in Seq(Sendable) /\ Len(queue) \in Nat /\ DOMAIN queue = 1..Len(queue)
    BY DEF Types
  <1>2. n \in 1..Len(queue) /\ n + 1 \in Int
        /\ \A i \in (n + 1)..Len(queue) : queue[i] \in Sendable
    BY <1>1, BatchIs
  <1>3. queue' = SubSeq(queue, n + 1, Len(queue))
    BY DEF Ended
  <1>4. /\ queue' \in Seq(Sendable)
        /\ Len(queue') = Len(queue) - n
        /\ \A i \in 1..(Len(queue) - n) : queue'[i] = queue[i + n]
    <2> DEFINE rest == SubSeq(queue, n + 1, Len(queue))
    <2>1. /\ rest \in Seq(Sendable)
          /\ Len(rest) = IF n + 1 <= Len(queue) THEN Len(queue) - (n + 1) + 1 ELSE 0
          /\ \A i \in 1..(Len(queue) - (n + 1) + 1) : rest[i] = queue[(n + 1) + i - 1]
      BY <1>1, <1>2, SubSeqProperties
    <2>2. queue' = rest
      BY <1>3
    <2> HIDE DEF rest
    <2>3. Len(rest) = Len(queue) - n
      <3>1. CASE n + 1 <= Len(queue)
        BY <1>1, <1>2, <2>1, <3>1
      <3>2. CASE ~(n + 1 <= Len(queue))
        <4>1. n \in Int /\ Len(queue) \in Int /\ n <= Len(queue)
          BY <1>1, <1>2
        <4>2. n = Len(queue)
          BY ONLY <3>2, <4>1
        <4> QED
          BY <1>1, <2>1, <3>2, <4>2
      <3> QED
        BY <3>1, <3>2
    <2>4. ASSUME NEW i \in 1..(Len(queue) - n) PROVE rest[i] = queue[i + n]
      <3>1. i \in 1..(Len(queue) - (n + 1) + 1) /\ (n + 1) + i - 1 = i + n
        BY <1>1, <1>2
      <3> QED
        BY <2>1, <3>1
    <2> QED
      BY <2>1, <2>2, <2>3, <2>4
  <1>5. \A i \in DOMAIN queue' : i + n \in DOMAIN queue /\ queue'[i] = queue[i + n]
    BY <1>1, <1>2, <1>4
  <1> QED
    BY <1>4, <1>5

\* A batch that fails only shortens the queue.
LEMMA WriteFailsStep ==
  ASSUME LedgerInv, WriteFails
  PROVE  LedgerInv'
  <1>1. Apart /\ UNCHANGED <<known, logged, main, length>>
    BY DEF WriteFails, store, sources, Apart
  <1>2. PICK n \in Batches : Ended(n)
    BY DEF WriteFails
  <1>3. Types
    BY DEF LedgerInv
  <1> QED
    BY <1>1, <1>2, <1>3, EndedIs, QuietKeeps

\* Of some numbers up to another there is a greatest.
LEMMA MaxIs ==
  ASSUME NEW n \in Nat, NEW S \in SUBSET (1..n), S # {}
  PROVE  Max(S) \in S
  <1> DEFINE T == {n - i : i \in S}
  <1>1. T \in SUBSET Nat /\ T # {}
    <2>1. \A i \in S : n - i \in Nat
      OBVIOUS
    <2> QED
      BY <2>1
  <1>2. PICK m \in T : \A k \in T : m <= k
    BY <1>1, Smallest
  <1>3. PICK i \in S : m = n - i
    BY <1>2
  <1>4. \A j \in S : i >= j
    <2> TAKE j \in S
    <2>1. n - j \in T
      OBVIOUS
    <2>2. n - i <= n - j
      BY <1>2, <1>3, <2>1
    <2> QED
      BY <2>2
  <1> QED
    BY <1>3, <1>4 DEF Max

\* The rows of a batch tell of usages that were heard.
LEMMA BatchIsPossible ==
  ASSUME Types, QueueIsTold, NEW n \in Batches, NEW k \in DOMAIN RowsOf(Batch(n))
  PROVE  Possible(k, RowsOf(Batch(n))[k])
  <1>1. PICK cs : cs = Batch(n)
    OBVIOUS
  <1>2. n \in Nat /\ Recorded(cs) \subseteq 1..n
        /\ \A i \in Recorded(cs) : i \in DOMAIN queue /\ cs[i] = queue[i] /\ queue[i].kind = "record"
    <2>1. n \in 1..Len(queue) /\ Len(queue) \in Nat
      BY BatchIs DEF Types
    <2> QED
      BY <1>1, <2>1, BatchIs DEF Recorded
  <1>3. PICK r : /\ k = <<"proxy", r>> /\ \E i \in Recorded(cs) : cs[i].request = r
    BY <1>1 DEF RowsOf
  <1> DEFINE S == {i \in Recorded(cs) : cs[i].request = r}
  <1>4. Max(S) \in S
    <2>1. S \in SUBSET (1..n) /\ S # {}
      BY <1>2, <1>3
    <2> HIDE DEF S
    <2> QED
      BY <1>2, <2>1, MaxIs
  <1>5. k[2] = r
    BY <1>3
  <1>6. RowsOf(cs)[k] = Record(UsageOf[r][cs[Max(S)].usage])
    <2>1. RowsOf(cs)[k] = Record(UsageOf[k[2]][cs[Max({i \in Recorded(cs) : cs[i].request = k[2]})].usage])
      BY <1>1 DEF RowsOf
    <2> QED
      BY <1>5, <2>1
  <1>7. PICK j : j = Max(S)
    OBVIOUS
  <1>8. j \in DOMAIN queue /\ cs[j] = queue[j] /\ queue[j].kind = "record" /\ queue[j].request = r
    BY <1>2, <1>4, <1>7
  <1>9. /\ r \in Request /\ queue[j].usage \in 1..known[r]
        /\ Counts(UsageOf[r][queue[j].usage])
    BY <1>8 DEF QueueIsTold
  <1>10. Told(r, RowsOf(cs)[k])
    <2>1. RowsOf(cs)[k] = Record(UsageOf[r][queue[j].usage])
      BY <1>6, <1>7, <1>8
    <2> QED
      BY <1>9, <2>1 DEF Told
  <1> QED
    BY <1>1, <1>3, <1>9, <1>10 DEF Possible

\* The ledger has what it had and what is put into it.
LEMMA PutsNothingElse ==
  ASSUME NothingElse, NEW rows, \A k \in DOMAIN rows : Possible(k, rows[k]),
         UNCHANGED <<known, length>>, ledger' = Upsert(ledger, rows)
  PROVE  NothingElse'
  <1>1. \A k, row : Possible(k, row)' <=> Possible(k, row)
    BY DEF Possible, Told
  <1>2. \A k \in DOMAIN ledger' : \/ k \in DOMAIN rows /\ ledger'[k] = rows[k]
                                  \/ k \in DOMAIN ledger /\ ledger'[k] = ledger[k]
    BY DEF Upsert
  <1> QED
    BY <1>1, <1>2 DEF NothingElse

\* A batch that commits puts rows of told requests into the ledger.
LEMMA WritesStep ==
  ASSUME LedgerInv, Writes
  PROVE  LedgerInv'
  <1> USE DEF LedgerInv
  <1>1. UNCHANGED <<known, torn, logged, main, length, cursors, priced, import>>
    BY DEF Writes, sources
  <1>2. PICK n \in Batches : /\ Ended(n)
                             /\ overtaken' = overtaken \cup Overtaken(RowsOf(Batch(n)))
                             /\ ledger' = Upsert(ledger, RowsOf(Batch(n)))
    BY DEF Writes
  <1>3. Types'
    BY <1>1, <1>2, EndedIs DEF Types
  <1>4. RowsAreThere'
    BY <1>1, <1>2, PutsRows
  <1>5. NothingElse'
    BY <1>1, <1>2, BatchIsPossible, PutsNothingElse
  <1>6. QueueIsTold'
    BY <1>1, <1>2, <1>3, EndedIs, QueueStays DEF Types
  <1>7. ImportsFollow' /\ CursorsFollow'
    BY <1>1, <1>3, NotGrown, SourcesGrow
  <1> QED
    BY <1>3, <1>4, <1>5, <1>6, <1>7

------------------------------------------------------------------------------
\* The steps of an importer

\* What the importers read is not touched.
SourcesStay == UNCHANGED <<known, queue, logged, main, length>>

\* An importer's step that reads or writes nothing leaves the rest as it is.
LEMMA ImportStep ==
  ASSUME LedgerInv, SourcesStay, NEW p \in Importer, NEW x \in Imports, Follows(x),
         import' = [import EXCEPT ![p] = x], cursors' \in [Sources -> Stats],
         CursorsFollow', RowsAreThere', NothingElse'
  PROVE  LedgerInv'
  <1> USE DEF LedgerInv
  <1>1. Types'
    BY DEF Types, SourcesStay
  <1>2. QueueIsTold'
    BY DEF QueueIsTold, SourcesStay
  <1>3. ImportsFollow'
    <2> SUFFICES ASSUME NEW q \in Importer PROVE Follows(import[q])'
      BY DEF ImportsFollow
    <2>1. PICK i : i = import'[q] /\ Follows(i)
      BY DEF ImportsFollow, Types
    <2>2. /\ \A s : Seen(s)' = Seen(s) /\ Now(s)' = Now(s)
          /\ \A t : Seen(Head(i.todo))' = Seen(Head(i.todo))
      BY DEF Seen, Now, SourcesStay
    <2> QED
      BY <2>1, <2>2 DEF Follows
  <1> QED
    BY <1>1, <1>2, <1>3

\* A step that leaves cursors and ledger alone.
LEMMA ReadingStep ==
  ASSUME LedgerInv, SourcesStay, UNCHANGED <<cursors, ledger, overtaken, torn>>,
         NEW p \in Importer, NEW x \in Imports, Follows(x),
         import' = [import EXCEPT ![p] = x]
  PROVE  LedgerInv'
  <1> USE DEF LedgerInv
  <1>1. cursors' \in [Sources -> Stats]
    BY DEF Types
  <1>2. /\ \A s \in Sources : Seen(s)' = Seen(s) /\ InFile(s)' = InFile(s) /\ Stat(s)' = Stat(s)
        /\ \A k, row : Current(k, row)' <=> Current(k, row)
    BY DEF SourcesStay, Now, Seen, Rows, Stat, InFile, Current, Since
  <1>3. CursorsFollow'
    BY <1>2 DEF CursorsFollow
  <1>4. RowsAreThere'
    BY <1>2 DEF RowsAreThere
  <1>5. NothingElse'
    BY DEF NothingElse, Possible, Told, SourcesStay
  <1> QED
    BY <1>1, <1>3, <1>4, <1>5, ImportStep

\* An import begins, with a reset if the prices are old.
LEMMA StartsStep ==
  ASSUME LedgerInv, NEW p \in Importer, NEW all \in BOOLEAN, Starts(p, all)
  PROVE  LedgerInv'
  <1>1. SourcesStay /\ UNCHANGED <<cursors, ledger, overtaken, torn>>
    BY DEF Starts, SourcesStay, tracker, sources, store
  <1> DEFINE at == IF priced THEN "loading" ELSE "emptying"
             todo == IF all THEN <<"log", "codex", "claude">> ELSE <<"log">>
  <1>2. at \in Phases \ {"reading", "writing"} /\ todo \in Seq(Sources)
    <2>1. <<"log", "codex", "claude">> \in Seq(Sources) /\ <<"log">> \in Seq(Sources)
      BY DEF Sources
    <2> QED
      BY <2>1 DEF Phases
  <1>3. PICK x : x = [Idle EXCEPT !.at = at, !.todo = todo]
    OBVIOUS
  <1>4. import' = [import EXCEPT ![p] = x]
    BY <1>3 DEF Starts
  <1> HIDE DEF at, todo
  <1>5. x \in Imports /\ x.at = at
    BY <1>2, <1>3 DEF Idle, Imports, Stats
  <1>6. Follows(x)
    BY <1>2, <1>5 DEF Follows
  <1> QED
    BY <1>1, <1>4, <1>5, <1>6, ReadingStep

\* A step to another phase of the import.
LEMMA GoesTo ==
  ASSUME Types, NEW p \in Importer, NEW to \in Phases, Goes(p, to)
  PROVE  \E x \in Imports : /\ import' = [import EXCEPT ![p] = x] /\ x.at = to
                            /\ import'[p] = x /\ \A q \in Importer \ {p} : import'[q] = import[q]
  <1>1. PICK i \in Imports : i = import[p]
    BY DEF Types
  <1>2. PICK x : x = [i EXCEPT !.at = to]
    OBVIOUS
  <1>3. x \in Imports /\ x.at = to
    BY <1>2 DEF Imports
  <1>4. import' = [import EXCEPT ![p] = x]
    BY <1>1, <1>2 DEF Goes
  <1> QED
    BY <1>3, <1>4 DEF Types

\* The cursors are emptied: nothing vouches for anything.
LEMMA EmptiesStep ==
  ASSUME LedgerInv, NEW p \in Importer, Empties(p)
  PROVE  LedgerInv'
  <1>1. SourcesStay /\ UNCHANGED ledger /\ cursors' = [s \in Sources |-> Never]
    BY DEF Empties, SourcesStay, sources
  <1>2. PICK x \in Imports : import' = [import EXCEPT ![p] = x] /\ x.at = "clearing"
    BY GoesTo DEF LedgerInv, Empties, Phases
  <1>3. Follows(x) /\ cursors' \in [Sources -> Stats]
    BY <1>1, <1>2 DEF Follows, Stats
  <1>4. CursorsFollow' /\ RowsAreThere'
    <2>1. \A s \in Sources : cursors'[s] = Never /\ Stat(s)' # Never
      BY <1>1 DEF Stat, Never
    <2> QED
      BY <2>1 DEF CursorsFollow, RowsAreThere
  <1>5. NothingElse'
    BY <1>1 DEF LedgerInv, NothingElse, Possible, Told, SourcesStay
  <1> QED
    BY <1>1, <1>2, <1>3, <1>4, <1>5, ImportStep

\* The ledger is emptied: the cursors that are there are torn.
LEMMA ClearsStep ==
  ASSUME LedgerInv, NEW p \in Importer, Clears(p)
  PROVE  LedgerInv'
  <1>1. /\ SourcesStay /\ UNCHANGED cursors /\ ledger' = <<>>
        /\ torn' = {s \in Sources : cursors[s] # Never}
    BY DEF Clears, SourcesStay, sources
  <1>2. PICK x \in Imports : import' = [import EXCEPT ![p] = x] /\ x.at = "pricing"
    BY GoesTo DEF LedgerInv, Clears, Phases
  <1>3. Follows(x) /\ cursors' \in [Sources -> Stats]
    BY <1>1, <1>2 DEF Follows, LedgerInv, Types
  <1>4. CursorsFollow'
    <2>1. \A s \in Sources : Seen(s)' = Seen(s)
      BY <1>1 DEF Seen, SourcesStay
    <2> QED
      BY <1>1, <2>1 DEF LedgerInv, CursorsFollow
  <1>5. RowsAreThere'
    <2>1. \A s \in Sources : s \notin torn' => cursors'[s] = Never
      BY <1>1
    <2>2. \A s \in Sources : Stat(s)' # Never
      BY DEF Stat, Never
    <2> QED
      BY <2>1, <2>2 DEF RowsAreThere
  <1>6. NothingElse'
    <2>1. DOMAIN ledger' = {}
      BY <1>1
    <2> QED
      BY <2>1 DEF NothingElse
  <1> QED
    BY <1>1, <1>2, <1>3, <1>4, <1>5, <1>6, ImportStep

\* The prices become current.
LEMMA PricesStep ==
  ASSUME LedgerInv, NEW p \in Importer, Prices(p)
  PROVE  LedgerInv'
  <1>1. SourcesStay /\ UNCHANGED <<cursors, ledger, overtaken, torn>>
    BY DEF Prices, SourcesStay, sources, tracker
  <1>2. PICK x \in Imports : import' = [import EXCEPT ![p] = x] /\ x.at = "loading"
    BY GoesTo DEF LedgerInv, Prices, Phases
  <1>3. Follows(x)
    BY <1>2 DEF Follows
  <1> QED
    BY <1>1, <1>2, <1>3, ReadingStep

\* The cursors are loaded.
LEMMA LoadsStep ==
  ASSUME LedgerInv, NEW p \in Importer, Loads(p)
  PROVE  LedgerInv'
  <1>1. SourcesStay /\ UNCHANGED <<cursors, ledger, overtaken, torn>>
    BY DEF Loads, SourcesStay, tracker, sources, store
  <1>2. PICK i \in Imports : i = import[p]
    BY DEF LedgerInv, Types
  <1>3. PICK loaded : loaded = [s \in Sources |-> IF s \in Range(import[p].todo) THEN cursors[s] ELSE Never]
    OBVIOUS
  <1>4. loaded \in [Sources -> Stats]
    BY <1>3 DEF LedgerInv, Types, Stats
  <1>5. PICK x : x = [i EXCEPT !.at = "next", !.loaded = loaded]
    OBVIOUS
  <1>6. x \in Imports /\ x.at = "next"
    BY <1>4, <1>5 DEF Imports, Phases
  <1>7. import' = [import EXCEPT ![p] = x]
    BY <1>2, <1>3, <1>5 DEF Loads
  <1>8. Follows(x)
    BY <1>6 DEF Follows
  <1> QED
    BY <1>1, <1>6, <1>7, <1>8, ReadingStep

\* An import ends, or is given up.
LEMMA EndsStep ==
  ASSUME LedgerInv, NEW p \in Importer, Ends(p) \/ Stops(p)
  PROVE  LedgerInv'
  <1>1. /\ SourcesStay /\ UNCHANGED <<cursors, ledger, overtaken, torn>>
        /\ import' = [import EXCEPT ![p] = Idle]
    BY DEF Ends, Stops, SourcesStay, tracker, sources, store
  <1>2. Idle \in Imports /\ Idle.at = "idle"
    BY DEF Idle, Imports, Phases, Stats
  <1>3. Follows(Idle)
    BY <1>2 DEF Follows
  <1> QED
    BY <1>1, <1>2, <1>3, ReadingStep

\* The time and size of the next source are those of the version in the file now.
LEMMA LooksStep ==
  ASSUME LedgerInv, NEW p \in Importer, Looks(p)
  PROVE  LedgerInv'
  <1> USE DEF LedgerInv
  <1>1. /\ SourcesStay /\ UNCHANGED <<cursors, ledger, overtaken, torn>>
        /\ import[p].at = "next" /\ import[p].todo # <<>>
    BY DEF Looks, SourcesStay, tracker, sources, store
  <1>2. PICK i \in Imports : i = import[p]
    BY DEF Types
  <1>3. i.todo \in Seq(Sources) /\ i.todo # <<>> /\ i.at = "next" /\ i.loaded \in [Sources -> Stats]
    BY <1>1, <1>2 DEF Imports
  <1>4. Head(i.todo) \in Sources /\ Tail(i.todo) \in Seq(Sources)
    BY <1>3
  <1>5. PICK s \in Sources : s = Head(i.todo)
    BY <1>4
  <1>6. PICK loaded : loaded = [i.loaded EXCEPT ![s] = Never]
    OBVIOUS
  <1>7. loaded \in [Sources -> Stats]
    <2>1. Never \in Stats
      BY DEF Stats
    <2> QED
      BY <1>3, <1>6, <2>1
  <1>8. PICK x : x = IF i.loaded[s] = Stat(s)
                       THEN [i EXCEPT !.loaded = loaded, !.todo = Tail(i.todo)]
                       ELSE [i EXCEPT !.loaded = loaded, !.at = "reading", !.stat = Stat(s)]
    OBVIOUS
  <1>9. import' = [import EXCEPT ![p] = x]
    BY <1>2, <1>5, <1>6, <1>8 DEF Looks
  <1>10. CASE x = [i EXCEPT !.loaded = loaded, !.todo = Tail(i.todo)]
    <2>1. x \in Imports /\ x.at = "next"
      BY <1>3, <1>4, <1>7, <1>10 DEF Imports
    <2>2. Follows(x)
      BY <2>1 DEF Follows
    <2> QED
      BY <1>1, <1>9, <2>1, <2>2, ReadingStep
  <1>11. CASE x = [i EXCEPT !.loaded = loaded, !.at = "reading", !.stat = Stat(s)]
    <2>1. Stat(s) = <<Seen(s)>> /\ Seen(s) \in Versions(s) /\ AtMost(s, Seen(s), Seen(s))
      BY VersionsNow, AtMostSame
    <2>2. Stat(s) \in Stats
      BY <2>1 DEF Stats, Versions
    <2>3. x \in Imports /\ x.at = "reading" /\ x.stat = <<Seen(s)>> /\ x.todo = i.todo
      BY <1>7, <1>11, <2>1, <2>2 DEF Imports, Phases
    <2>4. Follows(x)
      BY <1>3, <1>5, <2>1, <2>3 DEF Follows
    <2> QED
      BY <1>1, <1>9, <2>3, <2>4, ReadingStep
  <1> QED
    BY <1>8, <1>10, <1>11

\* What an importer that reads or writes has.
LEMMA FollowsIs ==
  ASSUME LedgerInv, NEW p \in Importer, import[p].at \in {"reading", "writing"}
  PROVE  \E i \in Imports, s \in Sources : \E v \in Versions(s) :
           /\ i = import[p] /\ i.todo \in Seq(Sources) /\ i.todo # <<>> /\ s = Head(i.todo)
           /\ Tail(i.todo) \in Seq(Sources) /\ i.stat = <<v>> /\ AtMost(s, v, Seen(s))
           /\ i.at = "writing" => \E w \in Versions(s) :
                i.rows = RowsAt(s, w) /\ (i.cut \/ AtMost(s, v, w)) /\ AtMost(s, w, Now(s))
  <1>1. PICK i \in Imports : i = import[p] /\ Follows(i)
    BY DEF LedgerInv, Types, ImportsFollow
  <1>2. i.todo # <<>> /\ i.todo \in Seq(Sources)
    BY <1>1 DEF Follows, Imports
  <1>3. Head(i.todo) \in Sources /\ Tail(i.todo) \in Seq(Sources)
    BY <1>2
  <1>4. PICK s \in Sources : s = Head(i.todo)
    BY <1>3
  <1>5. \E v \in Versions(s) :
           /\ i.stat = <<v>> /\ AtMost(s, v, Seen(s))
           /\ i.at = "writing" => \E w \in Versions(s) :
                i.rows = RowsAt(s, w) /\ (i.cut \/ AtMost(s, v, w)) /\ AtMost(s, w, Now(s))
    BY <1>1, <1>4 DEF Follows
  <1> QED
    BY <1>1, <1>2, <1>3, <1>4, <1>5

\* A part of a source is an earlier version of it.
LEMMA PartsAre ==
  ASSUME Types, NEW s \in Sources, NEW part \in Parts(s)
  PROVE  part \in Versions(s) /\ AtMost(s, part, Now(s))
  <1>1. CASE s = "log"
    <2>1. PICK R \in SUBSET Request : part = [r \in Request |-> IF r \in R THEN logged[r] ELSE 0]
      BY <1>1 DEF Parts
    <2> QED
      BY <1>1, <2>1 DEF Types, Versions, AtMost, Now
  <1>2. CASE s # "log"
    <2>1. s \in DOMAIN Lines /\ part \in 0..length[s]
      BY <1>2, SourcesAre DEF Parts
    <2> QED
      BY <1>2, <2>1 DEF Types, Versions, AtMost, Now
  <1> QED
    BY <1>1, <1>2

\* What is read whole is a version between the look and now, what is cut short one up to now.
LEMMA OpensStep ==
  ASSUME LedgerInv, NEW p \in Importer, Opens(p)
  PROVE  LedgerInv'
  <1>1. /\ SourcesStay /\ UNCHANGED <<cursors, ledger, overtaken, torn>>
        /\ import[p].at = "reading" /\ Types
    BY DEF Opens, SourcesStay, tracker, sources, store, LedgerInv
  <1>2. PICK i \in Imports, s \in Sources : \E v \in Versions(s) :
           /\ i = import[p] /\ i.todo \in Seq(Sources) /\ i.todo # <<>> /\ s = Head(i.todo)
           /\ i.stat = <<v>> /\ AtMost(s, v, Seen(s))
    BY <1>1, FollowsIs
  <1>3. PICK v \in Versions(s) : i.stat = <<v>> /\ AtMost(s, v, Seen(s))
    BY <1>2
  <1>4. PICK part \in Parts(s) :
          import' = [import EXCEPT ![p] = [i EXCEPT !.at = "writing", !.rows = RowsAt(s, part),
                       !.limit = IF s = "codex" THEN Codex[part].limit ELSE 0,
                       !.cut = RowsAt(s, part) # Rows(s)]]
    BY <1>2 DEF Opens
  <1> DEFINE limit == IF s = "codex" THEN Codex[part].limit ELSE 0
             short == RowsAt(s, part) # Rows(s)
  <1>5. PICK x : x = [i EXCEPT !.at = "writing", !.rows = RowsAt(s, part), !.limit = limit,
                               !.cut = short]
    OBVIOUS
  <1>6. import' = [import EXCEPT ![p] = x]
    BY <1>4, <1>5
  <1>7. part \in Versions(s) /\ AtMost(s, part, Now(s))
    BY <1>1, PartsAre
  <1>8. limit \in {0} \cup {Codex[n].limit : n \in Nat}
    BY <1>7 DEF Versions
  <1>9. /\ Rows(s) = RowsAt(s, Now(s)) /\ Now(s) \in Versions(s) /\ Seen(s) \in Versions(s)
        /\ AtMost(s, Seen(s), Now(s)) /\ AtMost(s, Now(s), Now(s)) /\ AtMost(s, v, Now(s))
    BY <1>1, <1>3, VersionsNow, AtMostSame, AtMostTransitive
  <1>10. RowsAt(s, part) \in UNION {{RowsAt(t, u) : u \in Versions(t)} : t \in Sources}
    BY <1>7
  <1>11. short \in BOOLEAN
    OBVIOUS
  <1>12. ~short => RowsAt(s, part) = RowsAt(s, Now(s))
    BY <1>9
  <1> HIDE DEF limit, short
  <1>13. /\ x \in Imports /\ x.at = "writing" /\ x.rows = RowsAt(s, part) /\ x.todo = i.todo
         /\ x.stat = i.stat /\ x.cut = short
    BY <1>5, <1>8, <1>10, <1>11 DEF Imports, Phases
  <1>14. \E w \in Versions(s) :
           x.rows = RowsAt(s, w) /\ (x.cut \/ AtMost(s, v, w)) /\ AtMost(s, w, Now(s))
    <2>1. CASE short
      BY <1>7, <1>13, <2>1
    <2>2. CASE ~short
      BY <1>9, <1>12, <1>13, <2>2
    <2> QED
      BY <2>1, <2>2
  <1>15. Follows(x)
    BY <1>2, <1>3, <1>13, <1>14 DEF Follows
  <1> QED
    BY <1>1, <1>6, <1>13, <1>15, ReadingStep

\* An importer turns to its next source.
LEMMA TurnedIs ==
  ASSUME LedgerInv, NEW p \in Importer, import[p].at = "writing", Turned(p)
  PROVE  \E x \in Imports : import' = [import EXCEPT ![p] = x] /\ Follows(x)
  <1>1. PICK i \in Imports : i = import[p] /\ Tail(i.todo) \in Seq(Sources)
    BY FollowsIs
  <1>2. PICK x : x = [i EXCEPT !.at = "next", !.todo = Tail(i.todo), !.stat = Never, !.rows = <<>>,
                               !.limit = 0, !.cut = FALSE]
    OBVIOUS
  <1>3. x \in Imports /\ x.at = "next"
    BY <1>1, <1>2 DEF Imports, Phases, Stats
  <1>4. import' = [import EXCEPT ![p] = x]
    BY <1>1, <1>2 DEF Turned
  <1> QED
    BY <1>3, <1>4 DEF Follows

\* A failed commit may leave rows, and no cursor.
LEMMA CommitFailsStep ==
  ASSUME LedgerInv, NEW p \in Importer, CommitFails(p)
  PROVE  LedgerInv'
  <1> USE DEF LedgerInv
  <1>1. SourcesStay /\ UNCHANGED <<cursors, torn>> /\ import[p].at = "writing"
    BY DEF CommitFails, SourcesStay, sources
  <1>2. PICK x \in Imports : import' = [import EXCEPT ![p] = x] /\ Follows(x)
    BY <1>1, TurnedIs DEF CommitFails
  <1>3. PICK ks \in SUBSET DOMAIN import[p].rows :
          /\ ledger' = Upsert(ledger, [k \in ks |-> import[p].rows[k]])
          /\ overtaken' = overtaken \cup Overtaken([k \in ks |-> import[p].rows[k]])
    BY DEF CommitFails
  <1>4. PICK rows : rows = [k \in ks |-> import[p].rows[k]]
    OBVIOUS
  <1>5. /\ ledger' = Upsert(ledger, rows) /\ overtaken' = overtaken \cup Overtaken(rows)
        /\ DOMAIN rows = ks /\ \A k \in ks : rows[k] = import[p].rows[k]
    BY <1>3, <1>4
  <1>6. RowsAreThere'
    BY <1>1, <1>5, PutsRows DEF SourcesStay
  <1>7. \A k \in DOMAIN import[p].rows : Possible(k, import[p].rows[k])
    <2>1. PICK s \in Sources : \E w \in Versions(s) :
            import[p].rows = RowsAt(s, w) /\ AtMost(s, w, Now(s))
      BY <1>1, FollowsIs
    <2> QED
      BY <2>1, ReadIsPossible
  <1>8. NothingElse'
    BY <1>1, <1>3, <1>5, <1>7, PutsNothingElse DEF SourcesStay
  <1>9. CursorsFollow' /\ cursors' \in [Sources -> Stats]
    <2>1. \A s \in Sources : Seen(s)' = Seen(s)
      BY <1>1 DEF Seen, SourcesStay
    <2> QED
      BY <1>1, <2>1 DEF CursorsFollow, Types
  <1> QED
    BY <1>1, <1>2, <1>6, <1>8, <1>9, ImportStep

\* A commit leaves the rows with a cursor that is not newer than they are, or torn.
LEMMA CommitsStep ==
  ASSUME LedgerInv, NEW p \in Importer, Commits(p)
  PROVE  LedgerInv'
  <1> USE DEF LedgerInv
  <1>1. SourcesStay /\ import[p].at = "writing"
    BY DEF Commits, SourcesStay, sources
  <1>2. PICK x \in Imports : import' = [import EXCEPT ![p] = x] /\ Follows(x)
    BY <1>1, TurnedIs DEF Commits
  <1>3. PICK s \in Sources : \E v \in Versions(s) : \E w \in Versions(s) :
          /\ s = Head(import[p].todo) /\ import[p].stat = <<v>> /\ AtMost(s, v, Seen(s))
          /\ import[p].rows = RowsAt(s, w) /\ (import[p].cut \/ AtMost(s, v, w))
          /\ AtMost(s, w, Now(s))
    BY <1>1, FollowsIs
  <1>4. PICK v \in Versions(s), w \in Versions(s) :
          /\ s = Head(import[p].todo) /\ import[p].stat = <<v>> /\ AtMost(s, v, Seen(s))
          /\ import[p].rows = RowsAt(s, w) /\ (import[p].cut \/ AtMost(s, v, w))
          /\ AtMost(s, w, Now(s))
    BY <1>3
  <1>5. PICK rows : rows = RowsAt(s, w)
    OBVIOUS
  <1>6. /\ ledger' = Upsert(ledger, rows) /\ overtaken' = overtaken \ DOMAIN rows
        /\ cursors' = [cursors EXCEPT ![s] = <<v>>]
        /\ torn' = IF import[p].cut THEN torn \cup {s} ELSE torn \ {s}
    BY <1>4, <1>5 DEF Commits
  <1>7. /\ \A t \in Sources : /\ Now(t)' = Now(t) /\ Seen(t)' = Seen(t) /\ InFile(t)' = InFile(t)
                              /\ Stat(t)' = Stat(t)
        /\ \A k, row : Current(k, row)' <=> Current(k, row)
    BY <1>1 DEF SourcesStay, Now, Seen, InFile, Rows, Stat, Current, Since
  <1>8. cursors'[s] = <<v>> /\ \A t \in Sources \ {s} : cursors'[t] = cursors[t]
    BY <1>6 DEF Types
  <1>9. CursorsFollow' /\ cursors' \in [Sources -> Stats]
    <2>1. <<v>> \in Stats
      BY DEF Stats, Versions
    <2>2. cursors' \in [Sources -> Stats]
      BY <1>6, <2>1 DEF Types
    <2> QED
      BY <1>4, <1>7, <1>8, <2>2 DEF CursorsFollow
  <1>10. NothingElse'
    BY <1>1, <1>4, <1>5, <1>6, ReadIsPossible, PutsNothingElse DEF SourcesStay
  <1>11. RowsAreThere'
    <2> SUFFICES ASSUME NEW t \in Sources, cursors'[t] = Stat(t), t \notin torn', NEW k \in DOMAIN InFile(t)
                 PROVE  k \in DOMAIN ledger' /\ (k \in overtaken' \/ Current(k, ledger'[k]))
      BY <1>7 DEF RowsAreThere
    <2>1. /\ DOMAIN ledger' = DOMAIN ledger \cup DOMAIN rows
          /\ \A j \in DOMAIN ledger' : ledger'[j] = IF j \in DOMAIN rows THEN rows[j] ELSE ledger[j]
      BY <1>6 DEF Upsert
    <2>2. CASE t = s
      <3>1. v = Seen(s) /\ AtMost(s, v, w)
        BY <1>4, <1>6, <1>8, <2>2, VersionsNow
      <3>2. k \in DOMAIN rows /\ Current(k, rows[k])
        BY <1>4, <1>5, <2>2, <3>1, ReadsCurrent
      <3> QED
        BY <2>1, <2>2, <3>2
    <2>3. CASE t # s
      <3>1. k \in DOMAIN ledger /\ (k \in overtaken \/ Current(k, ledger[k]))
        BY <1>6, <1>8, <2>3 DEF RowsAreThere
      <3>2. InFile(t) = RowsAt(t, Seen(t)) /\ Seen(t) \in Held(t) /\ w \in Held(s)
        BY <1>4, VersionsNow, HeldBelow DEF InFile
      <3>3. k \notin DOMAIN rows
        BY <1>5, <2>3, <3>2, KeysApart
      <3> QED
        BY <1>6, <2>1, <3>1, <3>3
    <2> QED
      BY <2>2, <2>3
  <1> QED
    BY <1>1, <1>2, <1>9, <1>10, <1>11, ImportStep

\* Every step keeps the invariant.
LEMMA LedgerStep ==
  ASSUME LedgerInv, [Next]_vars
  PROVE  LedgerInv'
  <1>1. CASE Next
    <2>1. ASSUME NEW p \in Importer, Import(p) PROVE LedgerInv'
      BY <2>1, StartsStep, EmptiesStep, ClearsStep, PricesStep, LoadsStep, LooksStep, OpensStep,
         CommitsStep, CommitFailsStep, EndsStep DEF Import
    <2> QED
      BY <1>1, <2>1, ReportsStep, LogsStep, SendsStep, WritesStep, WriteFailsStep, CheckpointStep,
         AppendsStep DEF Next
  <1>2. CASE UNCHANGED vars
    <2>1. Apart /\ UNCHANGED <<known, queue, logged, main, length>>
      BY <1>2 DEF vars, tracker, sources, store, Apart
    <2>2. queue' \in Seq(Sendable)
      BY <2>1 DEF LedgerInv, Types
    <2> QED
      BY <2>1, <2>2, QuietKeeps
  <1> QED
    BY <1>1, <1>2

\* The ledger's invariant: of importers, cursors, rows and queue.
THEOREM LedgerInvariant == Spec => []LedgerInv
  <1>1. Init => LedgerInv
    BY LedgerInit
  <1>2. LedgerInv /\ [Next]_vars => LedgerInv'
    BY LedgerStep
  <1> QED
    BY <1>1, <1>2, PTL DEF Spec

\* A cursor that matches its session file hides none of its rows, but for a source that is
\* torn: for any number of importers, and any sessions.
THEOREM CursorsHideNothing == Spec => []CursorsAreHonest
  <1>1. LedgerInv => CursorsAreHonest
    <2> SUFFICES ASSUME LedgerInv, NEW s \in {"codex", "claude"}, cursors[s] = Stat(s), s \notin torn,
                        NEW k \in DOMAIN Rows(s)
                 PROVE  k \in DOMAIN ledger /\ (k \in overtaken \/ ledger[k] = Rows(s)[k])
      BY DEF CursorsAreHonest
    <2>1. s \in Sources /\ InFile(s) = Rows(s) /\ Types
      BY SourcesAre DEF InFile, Seen, Rows, Now, LedgerInv
    <2>2. k \in DOMAIN ledger /\ (k \in overtaken \/ Current(k, ledger[k]))
      BY <2>1 DEF LedgerInv, RowsAreThere
    <2> QED
      BY <2>1, <2>2, CurrentIs
  <1> QED
    BY <1>1, LedgerInvariant, PTL

------------------------------------------------------------------------------
\* The ledger of a settled state is what the sources hold

\* Whatever was lost on the way, once an import would find nothing new the ledger has the
\* rows of every turn and message, those of the requests in the log's file and perhaps of
\* others heard of, and no more; and each row is right but for those overtaken.
SettledLedgerIsExact == Settled =>
  /\ DOMAIN ledger = {<<"proxy", r>> : r \in Booked} \cup DOMAIN CodexRows[length["codex"]]
                     \cup DOMAIN ClaudeRows[length["claude"]]
  /\ Counted(main) \subseteq Booked /\ Booked \subseteq Heard
  /\ \A r \in Booked : <<"proxy", r>> \notin overtaken =>
       \E n \in Since(r) : ledger[<<"proxy", r>>] = Record(UsageOf[r][n])
  /\ \A k \in DOMAIN ledger \ overtaken :
       /\ k \in DOMAIN CodexRows[length["codex"]] => ledger[k] = CodexRows[length["codex"]][k]
       /\ k \in DOMAIN ClaudeRows[length["claude"]] => ledger[k] = ClaudeRows[length["claude"]][k]

\* What counted once counts from then on.
LEMMA CountsOn ==
  ASSUME Types, NEW r \in Request, NEW n \in 1..known[r], NEW m \in n..known[r], Counts(UsageOf[r][n])
  PROVE  Counts(UsageOf[r][m]) /\ m > 0
  <1>1. /\ known[r] \in Nat /\ known[r] <= Len(UsageOf[r]) /\ Len(UsageOf[r]) \in Nat
        /\ DOMAIN UsageOf[r] = 1..Len(UsageOf[r])
    BY UsagesAre DEF Types
  <1>2. n \in DOMAIN UsageOf[r] /\ m \in DOMAIN UsageOf[r] /\ (n = m \/ n < m) /\ m > 0
    BY <1>1
  <1> QED
    BY <1>2, UsageGrows

\* The row of a request tells of a usage that was heard.
LEMMA BookedIsTold ==
  ASSUME LedgerInv, NEW r, <<"proxy", r>> \in DOMAIN ledger
  PROVE  r \in Request /\ Told(r, ledger[<<"proxy", r>>])
  <1>1. PICK k : k = <<"proxy", r>> /\ k \in DOMAIN ledger
    OBVIOUS
  <1>2. Types /\ Possible(k, ledger[k])
    BY <1>1 DEF LedgerInv, NothingElse
  <1>3. k \notin DOMAIN CodexRows[length["codex"]] /\ k \notin DOMAIN ClaudeRows[length["claude"]]
    <2>1. \A s \in {"codex", "claude"} : k \in DOMAIN RowsAt(s, Now(s)) => k[1] = Tag(s)
      BY <1>2, VersionsNow, KeyTag, SourcesAre
    <2> QED
      BY <1>1, <2>1 DEF Tag, RowsAt, Now
  <1> QED
    BY <1>1, <1>2, <1>3 DEF Possible

\* So the invariant gives the settled ledger.
LEMMA SettledIsExact ==
  ASSUME LedgerInv
  PROVE  SettledLedgerIsExact
  <1> USE DEF LedgerInv
  <1> SUFFICES ASSUME Settled
               PROVE  /\ DOMAIN ledger = {<<"proxy", r>> : r \in Booked}
                           \cup DOMAIN CodexRows[length["codex"]] \cup DOMAIN ClaudeRows[length["claude"]]
                      /\ Counted(main) \subseteq Booked /\ Booked \subseteq Heard
                      /\ \A r \in Booked : <<"proxy", r>> \notin overtaken =>
                           \E n \in Since(r) : ledger[<<"proxy", r>>] = Record(UsageOf[r][n])
                      /\ \A k \in DOMAIN ledger \ overtaken :
                           /\ k \in DOMAIN CodexRows[length["codex"]] =>
                                ledger[k] = CodexRows[length["codex"]][k]
                           /\ k \in DOMAIN ClaudeRows[length["claude"]] =>
                                ledger[k] = ClaudeRows[length["claude"]][k]
    BY DEF SettledLedgerIsExact
  <1>1. \A s \in Sources : \A k \in DOMAIN InFile(s) :
          k \in DOMAIN ledger /\ (k \in overtaken \/ Current(k, ledger[k]))
    BY DEF Settled, RowsAreThere
  <1>2. /\ DOMAIN InFile("log") = {<<"proxy", r>> : r \in Counted(main)}
        /\ InFile("codex") = Rows("codex") /\ Rows("codex") = CodexRows[length["codex"]]
        /\ InFile("claude") = Rows("claude") /\ Rows("claude") = ClaudeRows[length["claude"]]
    BY DEF InFile, RowsAt, Seen, Rows, Now, LogRows
  <1>3. \A s \in {"codex", "claude"} : \A k \in DOMAIN Rows(s) :
          k \in DOMAIN ledger /\ (k \in overtaken \/ ledger[k] = Rows(s)[k])
    BY <1>1, <1>2, SourcesAre, CurrentIs
  <1>4. \A r \in Counted(main) : /\ <<"proxy", r>> \in DOMAIN ledger
                                 /\ <<"proxy", r>> \in overtaken \/ Current(<<"proxy", r>>, ledger[<<"proxy", r>>])
    BY <1>1, <1>2, SourcesAre
  <1>5. Counted(main) \subseteq Booked
    <2> SUFFICES ASSUME NEW r \in Counted(main) PROVE r \in Booked
      OBVIOUS
    <2>1. r \in Request
      BY DEF Counted
    <2>2. <<"proxy", r>> \in DOMAIN ledger
      BY <1>4
    <2> QED
      BY <2>1, <2>2 DEF Booked
  <1>6. ASSUME NEW r \in Booked PROVE r \in Heard
    <2>1. r \in Request /\ Told(r, ledger[<<"proxy", r>>])
      BY BookedIsTold DEF Booked
    <2>2. PICK n \in 1..known[r] : Counts(UsageOf[r][n])
      BY <2>1 DEF Told
    <2>3. known[r] \in n..known[r]
      BY <2>1 DEF Types
    <2> QED
      BY <2>1, <2>2, <2>3, CountsOn DEF Heard, Counted
  <1>7. ASSUME NEW r \in Booked, <<"proxy", r>> \notin overtaken
        PROVE  \E n \in Since(r) : ledger[<<"proxy", r>>] = Record(UsageOf[r][n])
    <2>1. r \in Request /\ Told(r, ledger[<<"proxy", r>>])
      BY BookedIsTold DEF Booked
    <2>2. CASE r \in Counted(main)
      BY <1>4, <1>7, <2>2, CurrentIs
    <2>3. CASE r \notin Counted(main)
      <3>1. PICK n \in 1..known[r] : Counts(UsageOf[r][n]) /\ ledger[<<"proxy", r>>] = Record(UsageOf[r][n])
        BY <2>1 DEF Told
      <3>2. main[r] \in Nat /\ main[r] <= known[r] /\ known[r] \in Nat
        BY <2>1 DEF Types
      <3>3. n >= main[r]
        <4> SUFFICES ASSUME ~(n >= main[r]) PROVE FALSE
          OBVIOUS
        <4>1. main[r] \in n..known[r]
          BY <3>2
        <4>2. Counts(UsageOf[r][main[r]]) /\ main[r] > 0
          BY <2>1, <3>1, <4>1, CountsOn
        <4> QED
          BY <2>1, <2>3, <4>2 DEF Counted
      <3> QED
        BY <3>1, <3>3 DEF Since
    <2> QED
      BY <2>2, <2>3
  <1>8. \A k \in DOMAIN ledger : \/ k \in {<<"proxy", r>> : r \in Booked}
                                 \/ k \in DOMAIN CodexRows[length["codex"]]
                                 \/ k \in DOMAIN ClaudeRows[length["claude"]]
    BY DEF NothingElse, Possible, Booked
  <1>9. \A r \in Booked : <<"proxy", r>> \in DOMAIN ledger
    BY DEF Booked
  <1>10. /\ \A k \in DOMAIN CodexRows[length["codex"]] :
              k \in DOMAIN ledger /\ (k \in overtaken \/ ledger[k] = CodexRows[length["codex"]][k])
         /\ \A k \in DOMAIN ClaudeRows[length["claude"]] :
              k \in DOMAIN ledger /\ (k \in overtaken \/ ledger[k] = ClaudeRows[length["claude"]][k])
    BY <1>2, <1>3
  <1> HIDE DEF LedgerInv
  <1> QED
    BY <1>5, <1>6, <1>7, <1>8, <1>9, <1>10

\* Once an import would find nothing new and nothing is torn, the keys of the ledger are
\* those of its sources, and each row that was not overtaken is what its source holds.
THEOREM SettledLedger == Spec => []SettledLedgerIsExact
  BY LedgerInvariant, SettledIsExact, PTL


------------------------------------------------------------------------------
\* Sums

\* The sums of f over the subsets of S, as the library's fold takes its elements.
Taken(s) == CHOOSE x \in s : TRUE
SumsOn(g, f, S) ==
  g = [s \in SUBSET S |-> IF s = {} THEN 0 ELSE f[Taken(s)] + g[s \ {Taken(s)}]]

\* A set that is not empty becomes smaller by the element taken.
LEMMA TakenIs ==
  ASSUME NEW S, IsFiniteSet(S), S # {}, NEW x \in S
  PROVE  /\ Taken(S) \in S /\ IsFiniteSet(S \ {x})
         /\ Cardinality(S) \in Nat /\ Cardinality(S \ {x}) \in Nat
         /\ Cardinality(S \ {x}) < Cardinality(S)
  <1>1. Taken(S) \in S
    BY DEF Taken
  <1>2. IsFiniteSet(S \ {x}) /\ Cardinality(S \ {x}) = Cardinality(S) - 1
    BY FS_RemoveElement
  <1>3. Cardinality(S) \in Nat /\ Cardinality(S \ {x}) \in Nat
    BY <1>2, FS_CardinalityType
  <1> QED
    BY <1>1, <1>2, <1>3

\* On a finite set there is one such sum.
LEMMA SumsAgree ==
  ASSUME NEW f, NEW g, NEW h, NEW S, NEW T, SumsOn(g, f, S), SumsOn(h, f, T),
         NEW s, IsFiniteSet(s), s \subseteq S, s \subseteq T
  PROVE  g[s] = h[s]
  <1> DEFINE Wrong(t) == IsFiniteSet(t) /\ t \subseteq S /\ t \subseteq T /\ g[t] # h[t]
             Bad == {n \in Nat : \E t \in SUBSET S : Wrong(t) /\ Cardinality(t) = n}
  <1> SUFFICES ASSUME Wrong(s) PROVE FALSE
    OBVIOUS
  <1>1. Cardinality(s) \in Bad
    BY FS_CardinalityType
  <1>2. PICK n \in Bad : \A k \in Bad : n <= k
    BY <1>1, Smallest
  <1>3. PICK t \in SUBSET S : Wrong(t) /\ Cardinality(t) = n
    BY <1>2
  <1>4. g[{}] = 0 /\ h[{}] = 0
    BY DEF SumsOn
  <1>5. t # {}
    BY <1>3, <1>4
  <1> DEFINE u == t \ {Taken(t)}
  <1>6. IsFiniteSet(u) /\ Cardinality(u) \in Nat /\ Cardinality(u) < n
    BY <1>3, <1>5, TakenIs
  <1>7. g[u] = h[u]
    <2>1. Cardinality(u) \notin Bad
      <3>1. n \in Nat
        BY <1>2
      <3> HIDE DEF u, Bad
      <3> QED
        BY <1>2, <1>6, <3>1
    <2>2. u \in SUBSET S /\ u \subseteq T
      BY <1>3
    <2> HIDE DEF u
    <2>3. ASSUME g[u] # h[u]
          PROVE  Cardinality(u) \in Bad
      BY <1>6, <2>2, <2>3
    <2> QED
      BY <2>1, <2>3
  <1>8. g[t] = f[Taken(t)] + g[u] /\ h[t] = f[Taken(t)] + h[u]
    BY <1>3, <1>5 DEF SumsOn
  <1> QED
    BY <1>3, <1>7, <1>8

\* And there is one.
LEMMA SumsExist ==
  ASSUME NEW f, NEW S, IsFiniteSet(S)
  PROVE  \E g : SumsOn(g, f, S)
  <1> DEFINE Wrong(T) == IsFiniteSet(T) /\ ~\E g : SumsOn(g, f, T)
             Bad == {n \in Nat : \E T \in SUBSET S : Wrong(T) /\ Cardinality(T) = n}
  <1> SUFFICES ASSUME Wrong(S) PROVE FALSE
    OBVIOUS
  <1>1. Cardinality(S) \in Bad
    BY FS_CardinalityType
  <1>2. PICK n \in Bad : \A k \in Bad : n <= k
    BY <1>1, Smallest
  <1>3. PICK T \in SUBSET S : Wrong(T) /\ Cardinality(T) = n
    BY <1>2
  <1> DEFINE h(s) == CHOOSE g : SumsOn(g, f, s)
             g == [s \in SUBSET T |-> IF s = {} THEN 0
                                      ELSE f[Taken(s)] + h(s \ {Taken(s)})[s \ {Taken(s)}]]
  <1>4. ASSUME NEW s \in SUBSET T, s # {}
        PROVE  /\ IsFiniteSet(s) /\ s \ {Taken(s)} \in SUBSET T /\ IsFiniteSet(s \ {Taken(s)})
               /\ SumsOn(h(s \ {Taken(s)}), f, s \ {Taken(s)})
    <2>1. IsFiniteSet(s) /\ Cardinality(s) <= n
      BY <1>3, FS_Subset
    <2>2. Taken(s) \in s /\ IsFiniteSet(s \ {Taken(s)}) /\ Cardinality(s) \in Nat
          /\ Cardinality(s \ {Taken(s)}) \in Nat /\ Cardinality(s \ {Taken(s)}) < Cardinality(s)
      BY <2>1, <1>4, TakenIs DEF Taken
    <2>3. s \ {Taken(s)} \in SUBSET T
      OBVIOUS
    <2>4. Cardinality(s \ {Taken(s)}) \notin Bad
      BY <1>2, <2>1, <2>2
    <2>5. \E x : SumsOn(x, f, s \ {Taken(s)})
      BY <1>3, <2>2, <2>3, <2>4
    <2> QED
      BY <2>1, <2>2, <2>3, <2>5
  <1> HIDE DEF h
  <1>5. ASSUME NEW s \in SUBSET T, s # {}
        PROVE  g[s \ {Taken(s)}] = h(s \ {Taken(s)})[s \ {Taken(s)}]
    <2> DEFINE u == s \ {Taken(s)}
    <2>1. u \in SUBSET T /\ IsFiniteSet(u) /\ SumsOn(h(u), f, u)
      BY <1>4, <1>5
    <2> HIDE DEF u
    <2>2. CASE u = {}
      <3>1. h(u)[u] = 0
        BY <2>1, <2>2 DEF SumsOn
      <3> QED
        BY <2>1, <2>2, <3>1 DEF u
    <2>3. CASE u # {}
      <3> DEFINE v == u \ {Taken(u)}
      <3>1. v \in SUBSET T /\ IsFiniteSet(v) /\ SumsOn(h(v), f, v)
        BY <1>4, <2>1, <2>3
      <3>2. v \subseteq u
        OBVIOUS
      <3>3. h(u)[u] = f[Taken(u)] + h(u)[v]
        BY <2>1, <2>3 DEF SumsOn
      <3>4. g[u] = f[Taken(u)] + h(v)[v]
        BY <2>1, <2>3
      <3> HIDE DEF v, g
      <3>5. h(u)[v] = h(v)[v]
        BY <2>1, <3>1, <3>2, SumsAgree
      <3> QED
        BY <3>3, <3>4, <3>5 DEF u
    <2> QED
      BY <2>2, <2>3
  <1>6. SumsOn(g, f, T)
    <2>1. \A s \in SUBSET T : s # {} => g[s] = f[Taken(s)] + g[s \ {Taken(s)}]
      BY <1>5
    <2>2. g[{}] = 0
      OBVIOUS
    <2>3. g = [s \in SUBSET T |-> g[s]]
      OBVIOUS
    <2> HIDE DEF g
    <2> QED
      BY <2>1, <2>2, <2>3 DEF SumsOn
  <1> QED
    BY <1>3, <1>6

\* The library's sum is it.
LEMMA SumIs ==
  ASSUME NEW f, NEW S, IsFiniteSet(S), NEW g, SumsOn(g, f, S)
  PROVE  SumFunctionOnSet(f, S) = g[S]
  <1> DEFINE iter == CHOOSE h : h = [s \in SUBSET S |->
                       IF s = {} THEN 0 ELSE f[CHOOSE x \in s : TRUE] + h[s \ {CHOOSE x \in s : TRUE}]]
  <1>1. SumFunctionOnSet(f, S) = iter[S]
    BY DEF SumFunctionOnSet, FoldFunctionOnSet, MapThenFoldSet
  <1>2. SumsOn(iter, f, S)
    <2>1. \E h : h = [s \in SUBSET S |->
                       IF s = {} THEN 0 ELSE f[CHOOSE x \in s : TRUE] + h[s \ {CHOOSE x \in s : TRUE}]]
      BY Zenon DEF SumsOn, Taken
    <2> QED
      BY <2>1, Zenon DEF SumsOn, Taken
  <1> HIDE DEF iter
  <1> QED
    BY <1>1, <1>2, SumsAgree

\* The sum over a finite set is that over the rest and one value.
LEMMA SumTakes ==
  ASSUME NEW f, NEW S, IsFiniteSet(S)
  PROVE  /\ S = {} => SumFunctionOnSet(f, S) = 0
         /\ S # {} => SumFunctionOnSet(f, S) = f[Taken(S)] + SumFunctionOnSet(f, S \ {Taken(S)})
  <1>1. PICK g : SumsOn(g, f, S)
    BY SumsExist
  <1>2. SumFunctionOnSet(f, S) = g[S]
    BY <1>1, SumIs
  <1>3. CASE S = {}
    <2>1. g[S] = 0
      BY <1>1, <1>3 DEF SumsOn
    <2> QED
      BY <1>2, <1>3, <2>1
  <1>4. CASE S # {}
    <2> DEFINE T == S \ {Taken(S)}
    <2>1. IsFiniteSet(T) /\ T \subseteq S
      BY <1>4, FS_RemoveElement
    <2>2. PICK h : SumsOn(h, f, T)
      BY <2>1, SumsExist
    <2>3. SumFunctionOnSet(f, T) = h[T]
      BY <2>1, <2>2, SumIs
    <2>4. g[S] = f[Taken(S)] + g[T]
      BY <1>1, <1>4 DEF SumsOn
    <2> HIDE DEF T
    <2>5. g[T] = h[T]
      BY <1>1, <2>1, <2>2, SumsAgree
    <2> QED
      BY <1>2, <1>4, <2>3, <2>4, <2>5 DEF T
  <1> QED
    BY <1>3, <1>4

\* Sums of numbers are numbers.
LEMMA SumNat ==
  ASSUME NEW f, NEW S, IsFiniteSet(S), \A x \in S : f[x] \in Nat
  PROVE  SumFunctionOnSet(f, S) \in Nat
  <1> DEFINE Wrong(t) == SumFunctionOnSet(f, t) \notin Nat
             Bad == {n \in Nat : \E t \in SUBSET S : Wrong(t) /\ IsFiniteSet(t) /\ Cardinality(t) = n}
  <1> SUFFICES ASSUME Wrong(S) PROVE FALSE
    OBVIOUS
  <1>1. Cardinality(S) \in Bad
    BY FS_CardinalityType
  <1>2. PICK n \in Bad : \A k \in Bad : n <= k
    BY <1>1, Smallest
  <1>3. PICK t \in SUBSET S : Wrong(t) /\ IsFiniteSet(t) /\ Cardinality(t) = n
    BY <1>2
  <1>4. t # {} /\ SumFunctionOnSet(f, t) = f[Taken(t)] + SumFunctionOnSet(f, t \ {Taken(t)})
    BY <1>3, SumTakes
  <1> DEFINE u == t \ {Taken(t)}
  <1>5. Taken(t) \in t /\ IsFiniteSet(u) /\ Cardinality(u) \in Nat /\ Cardinality(u) < n
    BY <1>3, <1>4, TakenIs DEF Taken
  <1>6. u \in SUBSET S
    BY <1>3
  <1>7. Cardinality(u) \notin Bad
    BY <1>2, <1>5
  <1> HIDE DEF u
  <1>8. SumFunctionOnSet(f, u) \in Nat
    BY <1>5, <1>6, <1>7
  <1> QED
    BY <1>3, <1>4, <1>5, <1>8 DEF u

\* Any value may be taken first.
LEMMA SumStep ==
  ASSUME NEW f, NEW S, IsFiniteSet(S), \A x \in S : f[x] \in Nat, NEW x \in S
  PROVE  SumFunctionOnSet(f, S) = f[x] + SumFunctionOnSet(f, S \ {x})
  <1> DEFINE Right(t, y) == SumFunctionOnSet(f, t) = f[y] + SumFunctionOnSet(f, t \ {y})
             Bad == {n \in Nat : \E t \in SUBSET S : \E y \in t :
                       ~Right(t, y) /\ IsFiniteSet(t) /\ Cardinality(t) = n}
  <1> SUFFICES ASSUME ~Right(S, x) PROVE FALSE
    OBVIOUS
  <1> HIDE DEF Right
  <1>1. Cardinality(S) \in Bad
    BY FS_CardinalityType
  <1>2. PICK n \in Bad : \A k \in Bad : n <= k
    BY <1>1, Smallest
  <1>3. PICK t \in SUBSET S : \E y \in t : ~Right(t, y) /\ IsFiniteSet(t) /\ Cardinality(t) = n
    BY <1>2
  <1>4. PICK y \in t : ~Right(t, y) /\ IsFiniteSet(t) /\ Cardinality(t) = n
    BY <1>3
  <1>5. PICK c : c = Taken(t)
    OBVIOUS
  <1>6. Right(t, c) /\ c \in t
    <2>1. t # {} /\ c \in t
      BY <1>4, <1>5 DEF Taken
    <2>2. SumFunctionOnSet(f, t) = f[c] + SumFunctionOnSet(f, t \ {c})
      BY <1>4, <1>5, <2>1, SumTakes
    <2> QED
      BY <2>1, <2>2 DEF Right
  <1>7. c # y
    BY <1>4, <1>6
  <1>8. ASSUME NEW a \in t, NEW b \in t, a # b
        PROVE  Right(t \ {a}, b)
    <2>1. IsFiniteSet(t \ {a}) /\ Cardinality(t \ {a}) \in Nat /\ Cardinality(t \ {a}) < n
      BY <1>4, TakenIs
    <2>2. Cardinality(t \ {a}) \notin Bad
      BY <1>2, <2>1
    <2>3. t \ {a} \in SUBSET S /\ b \in t \ {a}
      BY <1>8
    <2> QED
      BY <2>1, <2>2, <2>3
  <1>9. Right(t \ {c}, y) /\ Right(t \ {y}, c)
    BY <1>6, <1>7, <1>8
  <1> DEFINE rest == t \ {c, y}
  <1>10. (t \ {c}) \ {y} = rest /\ (t \ {y}) \ {c} = rest
    OBVIOUS
  <1>11. SumFunctionOnSet(f, rest) \in Nat
    <2>1. IsFiniteSet(rest)
      BY <1>4, FS_Subset
    <2> QED
      BY <1>3, <2>1, SumNat
  <1>12. f[c] \in Nat /\ f[y] \in Nat
    BY <1>4, <1>6
  <1> HIDE DEF rest
  <1>13. SumFunctionOnSet(f, t) = f[c] + (f[y] + SumFunctionOnSet(f, rest))
    BY <1>6, <1>9, <1>10 DEF Right
  <1>14. f[y] + SumFunctionOnSet(f, t \ {y}) = f[y] + (f[c] + SumFunctionOnSet(f, rest))
    BY <1>9, <1>10 DEF Right
  <1>15. SumFunctionOnSet(f, t) = f[y] + SumFunctionOnSet(f, t \ {y})
    BY <1>11, <1>12, <1>13, <1>14
  <1> QED
    BY <1>4, <1>15 DEF Right

\* Renaming what is summed over changes nothing.
LEMMA SumAlong ==
  ASSUME NEW f, NEW h, NEW S, NEW T, NEW b, IsFiniteSet(S),
         T = {b[x] : x \in S}, \A x, y \in S : b[x] = b[y] => x = y,
         \A x \in S : f[x] \in Nat /\ h[b[x]] = f[x]
  PROVE  SumFunctionOnSet(h, T) = SumFunctionOnSet(f, S)
  <1> DEFINE Of(t) == {b[x] : x \in t}
             Right(t) == SumFunctionOnSet(h, Of(t)) = SumFunctionOnSet(f, t)
             Bad == {n \in Nat : \E t \in SUBSET S : ~Right(t) /\ IsFiniteSet(t) /\ Cardinality(t) = n}
  <1>0. ASSUME NEW t \in SUBSET S, IsFiniteSet(t)
        PROVE  IsFiniteSet(Of(t)) /\ \A z \in Of(t) : h[z] \in Nat
    <2>1. IsFiniteSet(Of(t))
      <3>1. [x \in t |-> b[x]] \in Surjection(t, Of(t))
        BY DEF Surjection
      <3> QED
        BY <1>0, <3>1, FS_Surjection
    <2> QED
      BY <2>1
  <1> SUFFICES ASSUME ~Right(S) PROVE FALSE
    OBVIOUS
  <1> HIDE DEF Right, Of
  <1>1. Cardinality(S) \in Bad
    BY FS_CardinalityType
  <1>2. PICK n \in Bad : \A k \in Bad : n <= k
    BY <1>1, Smallest
  <1>3. PICK t \in SUBSET S : ~Right(t) /\ IsFiniteSet(t) /\ Cardinality(t) = n
    BY <1>2
  <1>4. t # {}
    <2>1. Right({})
      <3>1. Of({}) = {}
        BY DEF Of
      <3> QED
        BY <3>1, SumTakes, FS_EmptySet DEF Right
    <2> QED
      BY <1>3, <2>1
  <1>5. PICK c \in t : TRUE
    BY <1>4
  <1>6. IsFiniteSet(t \ {c}) /\ Cardinality(t \ {c}) \in Nat /\ Cardinality(t \ {c}) < n
    BY <1>3, <1>5, TakenIs
  <1>7. Right(t \ {c})
    <2>1. Cardinality(t \ {c}) \notin Bad /\ t \ {c} \in SUBSET S
      BY <1>2, <1>6
    <2> QED
      BY <1>6, <2>1
  <1>8. SumFunctionOnSet(f, t) = f[c] + SumFunctionOnSet(f, t \ {c})
    BY <1>3, <1>5, SumStep
  <1>9. SumFunctionOnSet(h, Of(t)) = h[b[c]] + SumFunctionOnSet(h, Of(t) \ {b[c]})
    <2>1. b[c] \in Of(t)
      BY <1>5 DEF Of
    <2> QED
      BY <1>0, <1>3, <2>1, SumStep
  <1>10. Of(t) \ {b[c]} = Of(t \ {c})
    BY <1>5 DEF Of
  <1>11. h[b[c]] = f[c]
    BY <1>5
  <1> QED
    BY <1>3, <1>7, <1>8, <1>9, <1>10, <1>11 DEF Right

\* The sum over two sets that are apart.
LEMMA SumUnion ==
  ASSUME NEW f, NEW S, NEW T, IsFiniteSet(S), IsFiniteSet(T), S \cap T = {},
         \A x \in S \cup T : f[x] \in Nat
  PROVE  SumFunctionOnSet(f, S \cup T) = SumFunctionOnSet(f, S) + SumFunctionOnSet(f, T)
  <1> DEFINE Right(t) == SumFunctionOnSet(f, S \cup t) = SumFunctionOnSet(f, S) + SumFunctionOnSet(f, t)
             Bad == {n \in Nat : \E t \in SUBSET T : ~Right(t) /\ IsFiniteSet(t) /\ Cardinality(t) = n}
  <1> SUFFICES ASSUME ~Right(T) PROVE FALSE
    OBVIOUS
  <1> HIDE DEF Right
  <1>1. Cardinality(T) \in Bad
    BY FS_CardinalityType
  <1>2. PICK n \in Bad : \A k \in Bad : n <= k
    BY <1>1, Smallest
  <1>3. PICK t \in SUBSET T : ~Right(t) /\ IsFiniteSet(t) /\ Cardinality(t) = n
    BY <1>2
  <1>4. t # {}
    <2>1. Right({})
      <3>1. S \cup {} = S
        OBVIOUS
      <3>2. SumFunctionOnSet(f, S) \in Nat /\ SumFunctionOnSet(f, {}) = 0
        BY SumNat, SumTakes, FS_EmptySet
      <3> QED
        BY <3>1, <3>2 DEF Right
    <2> QED
      BY <1>3, <2>1
  <1>5. PICK c \in t : TRUE
    BY <1>4
  <1>6. IsFiniteSet(t \ {c}) /\ Cardinality(t \ {c}) \in Nat /\ Cardinality(t \ {c}) < n
    BY <1>3, <1>5, TakenIs
  <1>7. Right(t \ {c})
    <2>1. Cardinality(t \ {c}) \notin Bad /\ t \ {c} \in SUBSET T
      BY <1>2, <1>6
    <2> QED
      BY <1>6, <2>1
  <1>8. SumFunctionOnSet(f, t) = f[c] + SumFunctionOnSet(f, t \ {c})
    BY <1>3, <1>5, SumStep
  <1>9. SumFunctionOnSet(f, S \cup t) = f[c] + SumFunctionOnSet(f, (S \cup t) \ {c})
    <2>1. IsFiniteSet(S \cup t)
      BY <1>3, FS_Union
    <2> QED
      BY <1>3, <1>5, <2>1, SumStep
  <1>10. (S \cup t) \ {c} = S \cup (t \ {c})
    BY <1>5
  <1>11. /\ f[c] \in Nat /\ SumFunctionOnSet(f, S) \in Nat
         /\ SumFunctionOnSet(f, t \ {c}) \in Nat
    <2>1. \A x \in t \ {c} : f[x] \in Nat
      BY <1>3
    <2> QED
      BY <1>5, <1>6, <2>1, SumNat
  <1> QED
    BY <1>3, <1>7, <1>8, <1>9, <1>10, <1>11 DEF Right

------------------------------------------------------------------------------
\* Turns and messages

Talks(i) == CodexLines[i].kind # "model" /\ Counts(CodexLines[i])

\* The running total is the last one reported.
LastReported(n) ==
  \/ (\A j \in 1..n : ~Talks(j)) /\ Codex[n].total = 0
  \/ \E j \in 1..n : /\ Talks(j) /\ (\A i \in (j + 1)..n : ~Talks(i))
                     /\ Codex[n].total = CodexLines[j].total

\* So it is after every line.
LEMMA LastTotal == \A n \in 0..Len(CodexLines) : LastReported(n)
  <1> DEFINE None(m) == (\A j \in 1..m : ~Talks(j)) /\ Codex[m].total = 0
             Latest(m, j) == /\ Talks(j) /\ (\A i \in (j + 1)..m : ~Talks(i))
                             /\ Codex[m].total = CodexLines[j].total
             Right(m) == None(m) \/ \E j \in 1..m : Latest(m, j)
             Bad == {m \in Nat : m <= Len(CodexLines) /\ ~Right(m)}
  <1> SUFFICES ASSUME Bad # {} PROVE FALSE
    BY LinesAre DEF LastReported
  <1>1. PICK m \in Bad : \A k \in Bad : m <= k
    BY Smallest
  <1>2. m # 0
    <2>1. None(0)
      BY LinesAre, CodexIs DEF NoTurns
    <2> QED
      BY <1>1, <2>1
  <1>3. m \in 1..Len(CodexLines) /\ m - 1 \in Nat /\ Right(m - 1)
    <2>1. m \in 1..Len(CodexLines) /\ m - 1 \in Nat /\ m - 1 \notin Bad
      BY <1>1, <1>2, LinesAre
    <2> QED
      BY <1>1, <2>1, LinesAre
  <1>4. /\ ~IsNew(Codex[m - 1], m) => Codex[m].total = Codex[m - 1].total
        /\ IsNew(Codex[m - 1], m) => Codex[m].total = CodexLines[m].total
    BY <1>3, CodexNext
  <1>5. CASE Talks(m)
    <2>1. Codex[m].total = CodexLines[m].total
      BY <1>4, <1>5 DEF Talks, IsNew, ReportsTurn
    <2>2. Latest(m, m) /\ m \in 1..m
      BY <1>3, <1>5, <2>1
    <2> QED
      BY <1>1, <2>2
  <1>6. CASE ~Talks(m)
    <2>1. Codex[m].total = Codex[m - 1].total
      BY <1>4, <1>6 DEF Talks, IsNew, ReportsTurn
    <2>2. CASE None(m - 1)
      <3>1. None(m)
        BY <1>3, <1>6, <2>1, <2>2
      <3> QED
        BY <1>1, <3>1
    <2>3. CASE \E j \in 1..(m - 1) : Latest(m - 1, j)
      <3>1. PICK j \in 1..(m - 1) : Latest(m - 1, j)
        BY <2>3
      <3>2. \A i \in (j + 1)..m : i = m \/ i \in (j + 1)..(m - 1)
        BY <1>3
      <3>3. Latest(m, j) /\ j \in 1..m
        BY <1>3, <1>6, <2>1, <3>1, <3>2
      <3> QED
        BY <1>1, <3>3
    <2> QED
      BY <1>3, <2>2, <2>3
  <1> QED
    BY <1>5, <1>6

\* What the reader takes for a new turn is what the session has as one.
LEMMA NewIsDistinct ==
  ASSUME NEW n \in 1..Len(CodexLines)
  PROVE  IsNew(Codex[n - 1], n) <=> Distinct(n)
  <1> DEFINE total(j) == CodexLines[j].total
  <1>1. n - 1 \in 0..Len(CodexLines) /\ n \in Nat
    BY LinesAre
  <1>2. IsNew(Codex[n - 1], n) <=> Talks(n) /\ (total(n) = 0 \/ total(n) # Codex[n - 1].total)
    BY DEF IsNew, ReportsTurn, Talks
  <1>3. Distinct(n) <=> /\ Talks(n)
                        /\ \/ total(n) = 0
                           \/ \A j \in 1..(n - 1) :
                                ~Talks(j) \/ total(j) # total(n)
                                \/ \E k \in (j + 1)..(n - 1) : Talks(k) /\ total(k) # total(n)
    BY Zenon DEF Distinct, Talks
  <1> HIDE DEF total
  <1>4. CASE (\A j \in 1..(n - 1) : ~Talks(j)) /\ Codex[n - 1].total = 0
    BY <1>2, <1>3, <1>4
  <1>5. ASSUME NEW l \in 1..(n - 1), Talks(l), \A i \in (l + 1)..(n - 1) : ~Talks(i),
               Codex[n - 1].total = total(l)
        PROVE  IsNew(Codex[n - 1], n) <=> Distinct(n)
    <2>1. CASE total(n) = total(l)
      BY <1>2, <1>3, <1>5, <2>1
    <2>2. CASE total(n) # total(l)
      <3>1. \A j \in 1..(n - 1) : j = l \/ j \in (l + 1)..(n - 1) \/ l \in (j + 1)..(n - 1)
        BY <1>1
      <3>2. \A j \in 1..(n - 1) :
              ~Talks(j) \/ total(j) # total(n)
              \/ \E k \in (j + 1)..(n - 1) : Talks(k) /\ total(k) # total(n)
        BY <1>5, <2>2, <3>1
      <3> QED
        BY <1>2, <1>3, <1>5, <2>2, <3>2
    <2> QED
      BY <2>1, <2>2
  <1>6. \/ (\A j \in 1..(n - 1) : ~Talks(j)) /\ Codex[n - 1].total = 0
        \/ \E l \in 1..(n - 1) : /\ Talks(l) /\ (\A i \in (l + 1)..(n - 1) : ~Talks(i))
                                 /\ Codex[n - 1].total = total(l)
    <2>1. LastReported(n - 1)
      BY <1>1, LastTotal
    <2> QED
      BY <2>1 DEF LastReported, total
  <1> QED
    BY <1>4, <1>5, <1>6

\* The rows of a session are those its reader has, under their numbers.
LEMMA CodexRowsAre ==
  ASSUME NEW k \in 0..Len(CodexLines)
  PROVE  LET rows == Codex[k].rows IN
         /\ rows \in Seq(CodexRecords) /\ Len(rows) \in Nat
         /\ DOMAIN CodexRows[k] = {<<"codex_cli", i>> : i \in 1..Len(rows)}
         /\ \A i \in 1..Len(rows) : CodexRows[k][<<"codex_cli", i>>] = rows[i]
  <1> DEFINE rows == Codex[k].rows
  <1>1. rows \in Seq(CodexRecords) /\ k \in DOMAIN Codex
    BY CodexTypes, CodexIs DEF CodexStates
  <1>2. CodexRows[k] = [x \in {<<"codex_cli", i>> : i \in DOMAIN rows} |-> rows[x[2]]]
    BY <1>1 DEF CodexRows
  <1> HIDE DEF rows
  <1>3. Len(rows) \in Nat /\ DOMAIN rows = 1..Len(rows)
    BY <1>1
  <1>4. /\ DOMAIN CodexRows[k] = {<<"codex_cli", i>> : i \in 1..Len(rows)}
        /\ \A i \in 1..Len(rows) : CodexRows[k][<<"codex_cli", i>>] = rows[i]
    BY <1>2, <1>3
  <1> QED
    BY <1>1, <1>3, <1>4 DEF rows

\* The rows of the turns: one each, of its size.
LEMMA TurnRows ==
  ASSUME NEW n \in 0..Len(CodexLines)
  PROVE  \E b : /\ DOMAIN CodexRows[n] = {b[i] : i \in Turns(n)}
                /\ \A i, j \in Turns(n) : b[i] = b[j] => i = j
                /\ \A i \in Turns(n) : CodexRows[n][b[i]].tokens = Size(CodexLines[i])
  <1> DEFINE Of(m, b) == /\ DOMAIN CodexRows[m] = {b[i] : i \in Turns(m)}
                         /\ \A i, j \in Turns(m) : b[i] = b[j] => i = j
                         /\ \A i \in Turns(m) : CodexRows[m][b[i]].tokens = Size(CodexLines[i])
             Bad == {m \in Nat : m <= Len(CodexLines) /\ ~\E b : Of(m, b)}
  <1> SUFFICES ASSUME Bad # {} PROVE FALSE
    BY LinesAre
  <1>1. PICK m \in Bad : \A k \in Bad : m <= k
    BY Smallest
  <1>2. m \in 0..Len(CodexLines)
    BY <1>1, LinesAre
  <1>4. m # 0
    <2>1. ASSUME m = 0
          PROVE  Of(0, <<>>)
      <3>1. Turns(0) = {}
        BY DEF Turns
      <3>2. DOMAIN CodexRows[0] = {}
        <4>1. Codex[0].rows = <<>>
          BY CodexIs DEF NoTurns
        <4>2. Len(Codex[0].rows) = 0 /\ 0 \in 0..Len(CodexLines)
          BY <4>1, LinesAre
        <4>3. DOMAIN CodexRows[0] = {<<"codex_cli", i>> : i \in 1..0}
          BY <4>2, CodexRowsAre
        <4> QED
          BY <4>3
      <3> QED
        BY <3>1, <3>2
    <2> QED
      BY <1>1, <2>1
  <1>5. m \in 1..Len(CodexLines) /\ m - 1 \in 0..Len(CodexLines) /\ \E b : Of(m - 1, b)
    <2>1. m \in 1..Len(CodexLines) /\ m - 1 \in Nat
      BY <1>2, <1>4, LinesAre
    <2>2. m - 1 \notin Bad
      <3> HIDE DEF Bad
      <3> QED
        BY <1>1, <1>2, <2>1, LinesAre
    <2> QED
      BY <2>1, <2>2, LinesAre
  <1>6. PICK b : Of(m - 1, b)
    BY <1>5
  <1>7. Turns(m) = IF Distinct(m) THEN Turns(m - 1) \cup {m} ELSE Turns(m - 1)
    BY <1>5 DEF Turns
  <1>8. m \notin Turns(m - 1)
    BY <1>5 DEF Turns
  <1>9. CASE ~Distinct(m)
    <2>1. Codex[m].rows = Codex[m - 1].rows
      BY <1>5, <1>9, NewIsDistinct, CodexNext
    <2>2. CodexRows[m] = CodexRows[m - 1]
      <3>1. m \in DOMAIN Codex /\ m - 1 \in DOMAIN Codex
        BY <1>2, <1>5, CodexIs
      <3> QED
        BY <2>1, <3>1 DEF CodexRows
    <2>3. Of(m, b)
      BY <1>6, <1>7, <1>9, <2>2
    <2> QED
      BY <1>1, <2>3
  <1>10. CASE Distinct(m)
    <2> DEFINE old == Codex[m - 1].rows
               rec == Record(TurnUsage(Codex[m - 1].model, m))
               key == <<"codex_cli", Len(old) + 1>>
               c == [i \in Turns(m) |-> IF i = m THEN key ELSE b[i]]
    <2>1. Codex[m].rows = Append(old, rec)
      BY <1>5, <1>10, NewIsDistinct, CodexNext
    <2>2. rec.tokens = Size(CodexLines[m])
      BY DEF Record, TurnUsage, Size
    <2> HIDE DEF rec
    <2>3. /\ Len(old) \in Nat /\ Len(Codex[m].rows) = Len(old) + 1
          /\ \A i \in 1..Len(old) : Codex[m].rows[i] = old[i]
          /\ Codex[m].rows[Len(old) + 1] = rec
      <3>1. old \in Seq(CodexRecords)
        BY <1>5, CodexTypes DEF CodexStates
      <3> HIDE DEF old
      <3> QED
        BY <2>1, <3>1
    <2>4. /\ DOMAIN CodexRows[m] = DOMAIN CodexRows[m - 1] \cup {key}
          /\ key \notin DOMAIN CodexRows[m - 1]
          /\ CodexRows[m][key] = rec
          /\ \A k \in DOMAIN CodexRows[m - 1] : CodexRows[m][k] = CodexRows[m - 1][k]
      <3>1. /\ DOMAIN CodexRows[m - 1] = {<<"codex_cli", i>> : i \in 1..Len(old)}
            /\ \A i \in 1..Len(old) : CodexRows[m - 1][<<"codex_cli", i>>] = old[i]
        BY <1>5, CodexRowsAre
      <3>2. LET rows == Codex[m].rows IN
            /\ DOMAIN CodexRows[m] = {<<"codex_cli", i>> : i \in 1..Len(rows)}
            /\ \A i \in 1..Len(rows) : CodexRows[m][<<"codex_cli", i>>] = rows[i]
        BY <1>2, CodexRowsAre
      <3> HIDE DEF old
      <3>3. /\ DOMAIN CodexRows[m] = {<<"codex_cli", i>> : i \in 1..(Len(old) + 1)}
            /\ \A i \in 1..(Len(old) + 1) : CodexRows[m][<<"codex_cli", i>>] = Codex[m].rows[i]
        BY <2>3, <3>2
      <3>5. \A i \in Nat : i \in 1..(Len(old) + 1) <=> i \in 1..Len(old) \/ i = Len(old) + 1
        BY <2>3
      <3> QED
        BY <2>3, <3>1, <3>3, <3>5
    <2> HIDE DEF key
    <2>5. /\ c[m] = key /\ m \in Turns(m) /\ Turns(m) = Turns(m - 1) \cup {m}
          /\ \A i \in Turns(m - 1) : c[i] = b[i] /\ i # m
      BY <1>7, <1>8, <1>10
    <2> HIDE DEF c
    <2>6. \A i \in Turns(m - 1) : c[i] \in DOMAIN CodexRows[m - 1]
      BY <1>6, <2>5
    <2>7. Of(m, c)
      <3>1. DOMAIN CodexRows[m] = {c[i] : i \in Turns(m)}
        <4>1. {c[i] : i \in Turns(m)} = {b[i] : i \in Turns(m - 1)} \cup {key}
          BY <2>5
        <4> QED
          BY <1>6, <2>4, <4>1
      <3>2. \A i, j \in Turns(m) : c[i] = c[j] => i = j
        BY <1>6, <2>4, <2>5, <2>6
      <3>3. \A i \in Turns(m) : CodexRows[m][c[i]].tokens = Size(CodexLines[i])
        BY <1>6, <2>2, <2>4, <2>5, <2>6
      <3> QED
        BY <3>1, <3>2, <3>3
    <2> QED
      BY <1>1, <2>7
  <1> QED
    BY <1>9, <1>10

\* The rows of the messages: one each, of its last report.
LEMMA MessageRows ==
  ASSUME NEW n \in 0..Len(ClaudeLines)
  PROVE  LET b == [i \in Messages(n) |-> <<"claude_cli", ClaudeLines[i].id>>] IN
         /\ DOMAIN ClaudeRows[n] = {b[i] : i \in Messages(n)}
         /\ \A i, j \in Messages(n) : b[i] = b[j] => i = j
         /\ \A i \in Messages(n) : ClaudeRows[n][b[i]] = Record(ClaudeLines[i])
  <1> DEFINE key(i) == <<"claude_cli", ClaudeLines[i].id>>
             Right(m) == /\ DOMAIN ClaudeRows[m] = {key(i) : i \in Messages(m)}
                         /\ \A i \in Messages(m) : ClaudeRows[m][key(i)] = Record(ClaudeLines[i])
             Bad == {m \in Nat : m <= Len(ClaudeLines) /\ ~Right(m)}
  <1>1. \A i, j \in Messages(n) : key(i) = key(j) => i = j
    <2> SUFFICES ASSUME NEW i \in Messages(n), NEW j \in Messages(n), key(i) = key(j), i < j
                 PROVE  FALSE
      BY LinesAre DEF Messages
    <2>1. j \in (i + 1)..n /\ Counts(ClaudeLines[j]) /\ ClaudeLines[i].id = ClaudeLines[j].id
      BY LinesAre DEF Messages
    <2> QED
      BY <2>1 DEF Messages
  <1>2. Bad = {}
    <2> SUFFICES ASSUME Bad # {} PROVE FALSE
      OBVIOUS
    <2>1. PICK m \in Bad : \A k \in Bad : m <= k
      BY Smallest
    <2>2. m # 0
      <3>1. Messages(0) = {} /\ ClaudeRows[0] = <<>>
        BY ClaudeIs, LinesAre DEF Messages
      <3> QED
        BY <2>1, <3>1
    <2>3. m \in 1..Len(ClaudeLines) /\ Right(m - 1)
      <3>1. m \in 1..Len(ClaudeLines) /\ m - 1 \in Nat /\ m - 1 \notin Bad
        BY <2>1, <2>2, LinesAre
      <3> QED
        BY <3>1, LinesAre
    <2>4. CASE ~Counts(ClaudeLines[m])
      <3>1. ClaudeRows[m] = ClaudeRows[m - 1]
        BY <2>3, <2>4, ClaudeStep
      <3>2. Messages(m) = Messages(m - 1)
        <4>1. \A i \in 1..m : i = m \/ i \in 1..(m - 1)
          BY <2>3
        <4>2. \A i \in 1..(m - 1) : i \in 1..m /\ m \in (i + 1)..m
                /\ \A j \in (i + 1)..m : j = m \/ j \in (i + 1)..(m - 1)
          BY <2>3
        <4>3. \A i \in 1..(m - 1) : \A j \in (i + 1)..(m - 1) : j \in (i + 1)..m
          BY <2>3
        <4> QED
          BY <2>4, <4>1, <4>2, <4>3 DEF Messages
      <3> QED
        BY <2>1, <2>3, <3>1, <3>2
    <2>5. CASE Counts(ClaudeLines[m])
      <3>1. /\ DOMAIN ClaudeRows[m] = DOMAIN ClaudeRows[m - 1] \cup {key(m)}
            /\ ClaudeRows[m][key(m)] = Record(ClaudeLines[m])
            /\ \A k \in DOMAIN ClaudeRows[m - 1] \ {key(m)} : ClaudeRows[m][k] = ClaudeRows[m - 1][k]
        BY <2>3, <2>5, ClaudeStep
      <3>2. Messages(m) = {m} \cup {i \in Messages(m - 1) : key(i) # key(m)}
        <4>1. \A i \in 1..m : i = m \/ i \in 1..(m - 1)
          BY <2>3
        <4>2. \A i \in 1..(m - 1) : i \in 1..m /\ m \in (i + 1)..m
                /\ \A j \in (i + 1)..m : j = m \/ j \in (i + 1)..(m - 1)
          BY <2>3
        <4>3. \A i \in 1..(m - 1) : \A j \in (i + 1)..(m - 1) : j \in (i + 1)..m
          BY <2>3
        <4>4. m \in Messages(m)
          BY <2>3, <2>5 DEF Messages
        <4>5. \A i : key(i) # key(m) <=> ClaudeLines[i].id # ClaudeLines[m].id
          OBVIOUS
        <4> HIDE DEF key
        <4>6. \A i \in 1..(m - 1) : i \in Messages(m) <=> i \in Messages(m - 1) /\ key(i) # key(m)
          BY <2>5, <4>2, <4>3, <4>5 DEF Messages
        <4>7. Messages(m) \subseteq 1..m /\ Messages(m - 1) \subseteq 1..(m - 1)
          BY DEF Messages
        <4> QED
          BY <4>1, <4>4, <4>6, <4>7
      <3> HIDE DEF key
      <3>3. DOMAIN ClaudeRows[m] = {key(i) : i \in Messages(m)}
        BY <2>3, <3>1, <3>2
      <3>4. ASSUME NEW i \in Messages(m)
            PROVE  ClaudeRows[m][key(i)] = Record(ClaudeLines[i])
        <4>1. CASE i = m
          BY <3>1, <4>1
        <4>2. CASE i # m
          <5>1. i \in Messages(m - 1) /\ key(i) # key(m)
            BY <3>2, <4>2
          <5>2. key(i) \in DOMAIN ClaudeRows[m - 1] \ {key(m)}
            BY <2>3, <5>1
          <5> QED
            BY <2>3, <3>1, <5>1, <5>2
        <4> QED
          BY <4>1, <4>2
      <3> QED
        BY <2>1, <3>3, <3>4
    <2> QED
      BY <2>4, <2>5
  <1>3. Right(n)
    BY <1>2, LinesAre
  <1> QED
    BY <1>1, <1>3

------------------------------------------------------------------------------
\* The settled report

\* What is renamed is as many.
LEMMA RenamedIs ==
  ASSUME NEW S, IsFiniteSet(S), NEW T, NEW b, T = {b[x] : x \in S},
         \A x, y \in S : b[x] = b[y] => x = y
  PROVE  IsFiniteSet(T) /\ Cardinality(T) = Cardinality(S)
  <1> DEFINE c == [x \in S |-> b[x]]
  <1>1. c \in Surjection(S, T) /\ c \in Injection(S, T)
    BY DEF Surjection, Injection, IsInjective
  <1> HIDE DEF c
  <1> QED
    BY <1>1, FS_Surjection

\* The rows of requests, and that the usages they tell of have sizes.
LEMMA BookedRows ==
  ASSUME Types
  PROVE  LET b == [r \in Booked |-> <<"proxy", r>>] IN
         /\ IsFiniteSet(Booked) /\ {<<"proxy", r>> : r \in Booked} = {b[r] : r \in Booked}
         /\ \A r, q \in Booked : b[r] = b[q] => r = q
         /\ \A r \in Booked : \A n \in Since(r) : Size(UsageOf[r][n]) \in Nat
  <1>1. IsFiniteSet(Booked)
    BY ConstantsOK, FS_Subset DEF Booked
  <1>2. ASSUME NEW r \in Booked, NEW n \in Since(r)
        PROVE  Size(UsageOf[r][n]) \in Nat
    <2>1. r \in Request /\ n \in 1..Len(UsageOf[r])
      <3>1. /\ r \in Request /\ known[r] \in Nat /\ known[r] <= Len(UsageOf[r])
            /\ Len(UsageOf[r]) \in Nat
        BY ConstantsOK DEF Booked, Types
      <3> QED
        BY <3>1 DEF Since
    <2>2. UsageOf[r][n].input \in Nat /\ UsageOf[r][n].output \in Nat
      <3> DEFINE Usages == [model : DOMAIN Rates, input : Nat, cached : Nat,
                            writes : Nat, hour : Nat, output : Nat]
      <3>1. UsageOf[r] \in Seq(Usages)
        BY <2>1, ConstantsOK
      <3> HIDE DEF Usages
      <3>2. UsageOf[r][n] \in Usages
        BY <2>1, <3>1
      <3> QED
        BY <3>2 DEF Usages
    <2> QED
      BY <2>2 DEF Size
  <1> HIDE DEF Booked
  <1> QED
    BY <1>1, <1>2

\* What turns and messages there are, and that their sizes are numbers.
LEMMA TurnsAre ==
  ASSUME NEW n \in 0..Len(CodexLines), NEW m \in 0..Len(ClaudeLines)
  PROVE  /\ IsFiniteSet(Turns(n)) /\ \A i \in Turns(n) : Size(CodexLines[i]) \in Nat
         /\ IsFiniteSet(Messages(m)) /\ \A i \in Messages(m) : Size(ClaudeLines[i]) \in Nat
  <1>1. IsFiniteSet(1..n) /\ IsFiniteSet(1..m)
    BY LinesAre, FS_Interval
  <1>2. ASSUME NEW i \in Turns(n) PROVE Size(CodexLines[i]) \in Nat
    <2>1. i \in DOMAIN CodexLines /\ CodexLines[i].kind # "model"
      BY LinesAre DEF Turns, Distinct
    <2>2. CodexLines[i] \in {l \in Range(CodexLines) : l.kind # "model"}
      BY <2>1 DEF Range
    <2> QED
      BY <2>2, ConstantsOK DEF Size
  <1>3. ASSUME NEW i \in Messages(m) PROVE Size(ClaudeLines[i]) \in Nat
    <2>1. i \in DOMAIN ClaudeLines
      BY LinesAre DEF Messages
    <2>2. ClaudeLines[i] \in Range(ClaudeLines)
      BY <2>1 DEF Range
    <2> QED
      BY <2>2, ConstantsOK DEF Size
  <1>4. Turns(n) \subseteq 1..n /\ Messages(m) \subseteq 1..m
    BY DEF Turns, Messages
  <1> QED
    BY <1>1, <1>2, <1>3, <1>4, FS_Subset

\* Two sets that are apart have as many elements together as each.
LEMMA ApartUnion ==
  ASSUME NEW S, NEW T, IsFiniteSet(S), IsFiniteSet(T), S \cap T = {}
  PROVE  IsFiniteSet(S \cup T) /\ Cardinality(S \cup T) = Cardinality(S) + Cardinality(T)
  <1>1. /\ IsFiniteSet(S \cup T)
        /\ Cardinality(S \cup T) = Cardinality(S) + Cardinality(T) - Cardinality(S \cap T)
    BY FS_Union
  <1>2. Cardinality(S \cap T) = 0
    BY FS_EmptySet
  <1>3. Cardinality(S) \in Nat /\ Cardinality(T) \in Nat
    BY FS_CardinalityType
  <1> QED
    BY <1>1, <1>2, <1>3

\* Three sums in one.
LEMMA SumThree ==
  ASSUME NEW F, NEW A, NEW B, NEW C, IsFiniteSet(A), IsFiniteSet(B), IsFiniteSet(C),
         A \cap B = {}, A \cap C = {}, B \cap C = {}, \A x \in A \cup B \cup C : F[x] \in Nat
  PROVE  SumFunctionOnSet(F, A \cup B \cup C) =
           SumFunctionOnSet(F, A) + SumFunctionOnSet(F, B) + SumFunctionOnSet(F, C)
  <1>1. IsFiniteSet(A \cup B) /\ (A \cup B) \cap C = {}
    BY ApartUnion
  <1>2. SumFunctionOnSet(F, A \cup B) = SumFunctionOnSet(F, A) + SumFunctionOnSet(F, B)
    BY SumUnion
  <1>3. SumFunctionOnSet(F, (A \cup B) \cup C) = SumFunctionOnSet(F, A \cup B) + SumFunctionOnSet(F, C)
    BY <1>1, SumUnion
  <1> QED
    BY <1>2, <1>3

\* So the invariant gives the settled report.
LEMMA SettledReport ==
  ASSUME LedgerInv
  PROVE  SettledReportIsRight
  <1> SUFFICES ASSUME Settled
               PROVE  /\ Counted(main) \subseteq Booked /\ Booked \subseteq Heard
                      /\ Report.requests = Cardinality(Booked) + Cardinality(Turns(length["codex"]))
                                           + Cardinality(Messages(length["claude"]))
                      /\ overtaken = {} =>
                           /\ \A r \in Booked : \E n \in Since(r) :
                                ledger[<<"proxy", r>>].tokens = Size(UsageOf[r][n])
                           /\ Report.tokens =
                                SumFunction([r \in Booked |-> ledger[<<"proxy", r>>].tokens])
                                + TokensOf(CodexLines, Turns(length["codex"]))
                                + TokensOf(ClaudeLines, Messages(length["claude"]))
    BY DEF SettledReportIsRight
  <1>1. Types
    BY DEF LedgerInv
  <1>0. SettledLedgerIsExact
    BY SettledIsExact
  <1>2. PICK n \in 0..Len(CodexLines) : n = length["codex"]
    BY <1>1, LinesAre DEF Types
  <1>3. PICK m \in 0..Len(ClaudeLines) : m = length["claude"]
    BY <1>1, LinesAre DEF Types
  <1> DEFINE A == {<<"proxy", r>> : r \in Booked}
             B == DOMAIN CodexRows[n]
             C == DOMAIN ClaudeRows[m]
             F == [k \in DOMAIN ledger |-> ledger[k]["tokens"]]
             f == [r \in Booked |-> ledger[<<"proxy", r>>].tokens]
             g == [i \in Turns(n) |-> Size(CodexLines[i])]
             h == [i \in Messages(m) |-> Size(ClaudeLines[i])]
  <1>4. /\ DOMAIN ledger = A \cup B \cup C
        /\ overtaken = {} => /\ \A k \in B : ledger[k] = CodexRows[n][k]
                             /\ \A k \in C : ledger[k] = ClaudeRows[m][k]
    BY <1>0, <1>2, <1>3 DEF SettledLedgerIsExact
  <1>5. A \cap B = {} /\ A \cap C = {} /\ B \cap C = {}
    <2>1. RowsAt("codex", n) = CodexRows[n] /\ RowsAt("claude", m) = ClaudeRows[m]
      BY DEF RowsAt
    <2>2. n \in Held("codex") /\ m \in Held("claude")
      BY <1>1, LinesAre DEF Held, Types
    <2>3. /\ \A k \in A : k[1] = "proxy"
          /\ \A k \in B : k[1] = "codex_cli"
          /\ \A k \in C : k[1] = "claude_cli"
      BY <2>1, <2>2, KeyTag, SourcesAre DEF Tag
    <2> HIDE DEF A, B, C
    <2> QED
      BY <2>3
  <1>6. PICK a : /\ A = {a[r] : r \in Booked} /\ \A r, q \in Booked : a[r] = a[q] => r = q
                 /\ a = [r \in Booked |-> <<"proxy", r>>]
    BY <1>1, BookedRows
  <1>14. /\ \A r \in Booked : ledger[a[r]].tokens = f[r]
         /\ overtaken = {} => \A r \in Booked : /\ f[r] \in Nat
                                                /\ \E j \in Since(r) : f[r] = Size(UsageOf[r][j])
    <2>1. \A r \in Booked : ledger[a[r]].tokens = f[r]
      BY <1>6
    <2>2. ASSUME overtaken = {}, NEW r \in Booked
          PROVE  f[r] \in Nat /\ \E j \in Since(r) : f[r] = Size(UsageOf[r][j])
      <3>1. PICK j \in Since(r) : ledger[<<"proxy", r>>] = Record(UsageOf[r][j])
        BY <1>0, <2>2 DEF SettledLedgerIsExact
      <3>2. Size(UsageOf[r][j]) \in Nat
        BY <1>1, BookedRows
      <3>3. f[r] = Size(UsageOf[r][j])
        BY <3>1 DEF Record, Size
      <3> QED
        BY <3>2, <3>3
    <2> QED
      BY <2>1, <2>2
  <1>7. PICK b : /\ B = {b[i] : i \in Turns(n)} /\ \A i, j \in Turns(n) : b[i] = b[j] => i = j
                 /\ \A i \in Turns(n) : CodexRows[n][b[i]].tokens = g[i] /\ g[i] \in Nat
    BY TurnRows, TurnsAre
  <1>8. PICK c : /\ C = {c[i] : i \in Messages(m)} /\ \A i, j \in Messages(m) : c[i] = c[j] => i = j
                 /\ \A i \in Messages(m) : ClaudeRows[m][c[i]].tokens = h[i] /\ h[i] \in Nat
    <2>1. \A i \in Messages(m) : Record(ClaudeLines[i]).tokens = h[i] /\ h[i] \in Nat
      BY TurnsAre DEF Record, Size
    <2> DEFINE c == [i \in Messages(m) |-> <<"claude_cli", ClaudeLines[i].id>>]
    <2>2. /\ C = {c[i] : i \in Messages(m)}
          /\ \A i, j \in Messages(m) : c[i] = c[j] => i = j
          /\ \A i \in Messages(m) : ClaudeRows[m][c[i]] = Record(ClaudeLines[i])
      BY MessageRows, ZenonT(60)
    <2>3. \A i \in Messages(m) : ClaudeRows[m][c[i]].tokens = h[i] /\ h[i] \in Nat
      BY <2>1, <2>2
    <2> WITNESS c
    <2> QED
      BY <2>2, <2>3
  <1>9. IsFiniteSet(Booked) /\ IsFiniteSet(Turns(n)) /\ IsFiniteSet(Messages(m))
    BY <1>1, BookedRows, TurnsAre
  <1> HIDE DEF A, B, C, f, g, h
  <1>10. /\ IsFiniteSet(A) /\ Cardinality(A) = Cardinality(Booked)
         /\ IsFiniteSet(B) /\ Cardinality(B) = Cardinality(Turns(n))
         /\ IsFiniteSet(C) /\ Cardinality(C) = Cardinality(Messages(m))
    <2>1. IsFiniteSet(A) /\ Cardinality(A) = Cardinality(Booked)
      BY <1>6, <1>9, RenamedIs
    <2>2. IsFiniteSet(B) /\ Cardinality(B) = Cardinality(Turns(n))
      BY <1>7, <1>9, RenamedIs
    <2>3. IsFiniteSet(C) /\ Cardinality(C) = Cardinality(Messages(m))
      BY <1>8, <1>9, RenamedIs
    <2> QED
      BY <2>1, <2>2, <2>3
  <1>11. Report.requests = Cardinality(Booked) + Cardinality(Turns(n)) + Cardinality(Messages(m))
    <2>1. Report.requests = Cardinality(A \cup B \cup C)
      BY <1>4 DEF Report, Summary
    <2>2. Cardinality(A \cup B \cup C) = Cardinality(A) + Cardinality(B) + Cardinality(C)
      <3>1. IsFiniteSet(A \cup B) /\ Cardinality(A \cup B) = Cardinality(A) + Cardinality(B)
        BY <1>5, <1>10, ApartUnion
      <3>2. (A \cup B) \cap C = {}
        BY <1>5
      <3>3. Cardinality((A \cup B) \cup C) = Cardinality(A \cup B) + Cardinality(C)
        BY <1>10, <3>1, <3>2, ApartUnion
      <3> QED
        BY <3>1, <3>3
    <2> QED
      BY <2>1, <2>2, <1>10
  <1>12. ASSUME overtaken = {}
         PROVE  Report.tokens = SumFunctionOnSet(f, Booked) + SumFunctionOnSet(g, Turns(n))
                                + SumFunctionOnSet(h, Messages(m))
    <2>1. Report.tokens = SumFunctionOnSet(F, A \cup B \cup C)
      <3>1. DOMAIN F = A \cup B \cup C
        BY <1>4
      <3>2. Report.tokens = SumFunction(F)
        BY DEF Report, Summary, Sum
      <3> HIDE DEF F
      <3> QED
        BY <3>1, <3>2 DEF SumFunction
    <2>2. \A k \in A \cup B \cup C : F[k] = ledger[k].tokens
      BY <1>4
    <2> HIDE DEF F
    <2>3. \A r \in Booked : a[r] \in A /\ f[r] \in Nat /\ F[a[r]] = f[r]
      <3>1. \A r \in Booked : a[r] \in A
        BY <1>6
      <3> QED
        BY <1>4, <1>12, <1>14, <2>2, <3>1
    <2>4. \A i \in Turns(n) : b[i] \in B /\ g[i] \in Nat /\ F[b[i]] = g[i]
      BY <1>4, <1>7, <1>12, <2>2, SMTT(30)
    <2>5. \A i \in Messages(m) : c[i] \in C /\ h[i] \in Nat /\ F[c[i]] = h[i]
      BY <1>4, <1>8, <1>12, <2>2, SMTT(30)
    <2>6. SumFunctionOnSet(F, A) = SumFunctionOnSet(f, Booked)
      BY <1>6, <1>9, <2>3, SumAlong
    <2>7. SumFunctionOnSet(F, B) = SumFunctionOnSet(g, Turns(n))
      BY <1>7, <1>9, <2>4, SumAlong
    <2>8. SumFunctionOnSet(F, C) = SumFunctionOnSet(h, Messages(m))
      BY <1>8, <1>9, <2>5, SumAlong
    <2>9. \A k \in A \cup B \cup C : F[k] \in Nat
      BY <1>6, <1>7, <1>8, <2>3, <2>4, <2>5
    <2> QED
      BY <1>5, <1>10, <2>1, <2>6, <2>7, <2>8, <2>9, SumThree
  <1>13. /\ SumFunction(f) = SumFunctionOnSet(f, Booked)
         /\ TokensOf(CodexLines, Turns(n)) = SumFunctionOnSet(g, Turns(n))
         /\ TokensOf(ClaudeLines, Messages(m)) = SumFunctionOnSet(h, Messages(m))
    BY DEF SumFunction, TokensOf, f, g, h
  <1>15. Counted(main) \subseteq Booked /\ Booked \subseteq Heard
    BY <1>0 DEF SettledLedgerIsExact
  <1>16. overtaken = {} => \A r \in Booked : \E j \in Since(r) :
           ledger[<<"proxy", r>>].tokens = Size(UsageOf[r][j])
    BY <1>14 DEF f
  <1> QED
    BY <1>2, <1>3, <1>11, <1>12, <1>13, <1>15, <1>16 DEF f

\* Once an import would find nothing new and nothing is torn, the report has every turn of
\* Codex, every message of Claude and every request of the log's file once, and unless a
\* row was overtaken the sum of their usages.
THEOREM SettledReports == Spec => []SettledReportIsRight
  BY LedgerInvariant, SettledReport, PTL

==============================================================================
