------------------------- MODULE MCWebsocketClient -------------------------
EXTENDS WebsocketClient

MCSaid == {[type |-> "address", ip |-> "b"],
           [type |-> "seat"]}
=============================================================================
