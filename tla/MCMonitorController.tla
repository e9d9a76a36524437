------------------------ MODULE MCMonitorController -------------------------
EXTENDS MonitorController

CONSTANTS c1, c2

Connecting(n, mode, full) ==
  [act |-> "connect", n |-> n, mode |-> mode, full |-> full]

\* A viewer, a camera, the end of a viewer, an answer without a change.
MCAsked ==
  {Connecting(1, "fap", TRUE), Connecting(1, "camera", TRUE),
   [act |-> "disconnect", n |-> 1], [act |-> "other"], [act |-> "garbage"]}

\* Bound: both clients start viewers, the other requests are made by one each.
Makes(c) ==
  {"connect", "nothing"} \cup (IF c = c1 THEN {"disconnect", "garbage"} ELSE {"other"})

MCNext == Next /\ \A c \in Clients : inbox'[c].act \in Makes(c)
MCSpec == Init /\ [][MCNext]_vars /\ Fairness
=============================================================================
