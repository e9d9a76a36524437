--------------------------- MODULE MCExportDaemon ---------------------------
EXTENDS ExportDaemon

CONSTANTS b1, b2

\* Two ports of the root hub.
MCHub == [b \in BusIds |-> b]
\* The second device is behind the first.
BehindHub == [b \in BusIds |-> b1]
\* The second bus id has the first as a substring, as 1-10 has 1-1.
Substring == {<<b2, b1>>}
=============================================================================
