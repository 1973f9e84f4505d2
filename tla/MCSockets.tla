------------------------------ MODULE MCSockets ------------------------------
(***************************************************************************)
(* Sockets for TLC: one market-data socket and the order socket.  In half  *)
(* of the behaviours everything happens in next to no time; in the others  *)
(* time passes, no connection is lost or refused and nothing is shut down, *)
(* and the question is whom the watchdog may call silent.                  *)
(***************************************************************************)
EXTENDS Sockets

VARIABLE scene

CloseStep == \/ \E s \in Socket : Task(s)
             \/ Supervise \/ Shutdown
             \/ Bell \/ Evaluate

SilenceStep == \/ \E s \in Socket : \/ Connect(s) \/ Receive(s) \/ SignedIn(s)
                                    \/ Acknowledged(s) \/ Dies(s)
               \/ Supervise
               \/ Bell \/ Evaluate \/ Clock

MCInit == Init /\ scene \in {"closes", "silence"}

MCSpec == /\ MCInit
          /\ [][/\ \/ scene = "closes" /\ CloseStep
                   \/ scene = "silence" /\ SilenceStep
                /\ UNCHANGED scene]_<<vars, scene>>
=============================================================================
