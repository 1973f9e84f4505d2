----------------------------- MODULE MCWatchdog -----------------------------
(***************************************************************************)
(* Watchdog for TLC: a socket is a number, its place in the name order.    *)
(* A behaviour has one scene, chosen at the start: one socket and every    *)
(* call there is; three sockets that only open and close; two sockets that *)
(* stay open and speak or fall silent.                                     *)
(***************************************************************************)
EXTENDS Watchdog

VARIABLE scene

\* The closes that wait for their report.
CloseStep == \/ \E s \in Socket : StreamOpen(s) \/ StreamClosed(s)
             \/ Evaluate
             \/ Clock

\* The risk manager beats with the clock: its silence hides no other.
BeatingClock == /\ now < MaxTime
                /\ now' = now + 1 /\ beat' = now'
                /\ UNCHANGED <<closes, activity, heard, expectations, verdict,
                               history>>

\* Who should speak, who does, and who is silent.
SilenceStep == \/ \E s \in Socket \ {3} :
                    \/ Message(s)
                    \/ ExpectFeed(s) \/ StopExpectingFeed(s)
                    \/ ExpectHandshake(s) \/ StopExpectingHandshake(s)
               \/ Evaluate
               \/ BeatingClock

EveryStep == \/ Report(1)
             \/ Poll \/ Heartbeat
             \/ ExpectAnyFeed \/ StopExpectingAnyFeed
             \/ Evaluate
             \/ Clock

SceneInit == Init /\ scene \in {"everything", "closes", "silence"}
SceneNext == /\ \/ scene = "everything" /\ EveryStep
                \/ scene = "closes" /\ CloseStep
                \/ scene = "silence" /\ SilenceStep
             /\ UNCHANGED scene
SceneSpec == SceneInit /\ [][SceneNext]_<<vars, scene>>
=============================================================================
