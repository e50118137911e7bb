------------------------------ MODULE MCWebSocket ------------------------------
\* The instance of WebSocket that TLC checks.
EXTENDS WebSocket

F(op, fin, size) == [op |-> op, fin |-> fin, size |-> size]
MCFrames == {F("TEXT", TRUE, 1), F("TEXT", FALSE, 1), F("CONT", FALSE, 1),
             F("CONT", TRUE, 2), F("PING", TRUE, 1), F("CLOSE", TRUE, 1),
             F("BIN", TRUE, 3)}

=============================================================================
