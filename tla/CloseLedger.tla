---------------------------- MODULE CloseLedger ----------------------------
(***************************************************************************)
(* What corollary/engine/runtime.py promises about lost connections: every *)
(* close of a socket is owed one report, a reopen does not cancel the debt,*)
(* and beyond that debt only a socket that is still down is reported.      *)
(***************************************************************************)
CONSTANT Socket
VARIABLES
  owed,   \* the sockets whose latest close no evaluation has reported
  down    \* the sockets that closed and have not reopened
vars == <<owed, down>>

Init == owed = {} /\ down = {}

Close(s) == owed' = owed \cup {s} /\ down' = down \cup {s}

Open(s) == down' = down \ {s} /\ UNCHANGED owed

Report(s) == /\ s \in owed \cup down
             /\ owed' = owed \ {s}
             /\ UNCHANGED down

Next == \E s \in Socket : Close(s) \/ Open(s) \/ Report(s)

Spec == Init /\ [][Next]_vars
=============================================================================
