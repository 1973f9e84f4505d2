---------------------------- MODULE MCEngineHalt ----------------------------
(***************************************************************************)
(* EngineHalt for TLC.  In half of the behaviours two faults come and go   *)
(* and one operator request is served at a time; in the others there is    *)
(* one fault, and two requests race each other as well as the tick.        *)
(***************************************************************************)
EXTENDS EngineHalt

CONSTANTS OneRule, OneRequest   \* what there is one of, in each half

VARIABLE crowd

InCrowd ==
  /\ fault # NoRule /\ crowd = "requests" => fault = OneRule
  /\ \A r \in Request :
       request[r] # NoRequest /\ crowd = "faults" => r = OneRequest

MCInit == Init /\ crowd \in {"faults", "requests"}

MCSpec == /\ MCInit
          /\ [][Next /\ UNCHANGED crowd /\ InCrowd']_<<vars, crowd>>
          /\ Fairness
=============================================================================
