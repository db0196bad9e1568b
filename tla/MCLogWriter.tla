----------------------------- MODULE MCLogWriter -----------------------------
(* Two sessions of the proxy: the second starts after the first, or beside it. *)
EXTENDS LogWriter, TLC

CONSTANTS s1, s2

MostlyTheFirst == [s \in Session |-> IF s = s1 THEN 3 ELSE 1]

\* A bound: health is asked for only while one session is alone and no flush waits,
\* for what it reads is of that session's handlers and writer only.
AskedAlone == \A s \in Session : reading[s] # Unasked =>
                /\ flush[s].at = "none"
                /\ \A t \in Session \ {s} : life[t] = "new"
==============================================================================
