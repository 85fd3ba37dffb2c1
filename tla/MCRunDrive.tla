----------------------------- MODULE MCRunDrive -----------------------------
(***************************************************************************)
(* The documents TLC runs RunDrive on.  An edge <<m, n>> is a success edge *)
(* from m to n.                                                            *)
(***************************************************************************)
EXTENDS RunDrive, TLC

CONSTANTS left, right, after, pause, pause2

DepsOf(edges) == [n \in Nodes |-> {m \in Nodes : <<m, n>> \in edges}]

\* The graphs are at most three edges deep.
AncOf(edges) ==
  LET d == DepsOf(edges)
      Up(S) == S \cup UNION {d[m] : m \in S} IN
  [n \in Nodes |-> Up(Up(d[n]))]

Retry(budget) == [n \in Nodes |-> IF n = left THEN budget ELSE 0]

\* left and right run in parallel and after joins them.
JoinDeps == DepsOf({<<left, after>>, <<right, after>>})
JoinAnc == AncOf({<<left, after>>, <<right, after>>})

\* The wait pause, and pause2 when it is there, runs beside right, and after follows pause.
BesideDeps == DepsOf({<<pause, after>>})
BesideAnc == AncOf({<<pause, after>>})

\* left and right run in parallel, and the wait pause joins them.
MeetDeps == DepsOf({<<left, pause>>, <<right, pause>>})
MeetAnc == AncOf({<<left, pause>>, <<right, pause>>})

RetryOnce == Retry(1)
NoRetry == Retry(0)
=============================================================================
