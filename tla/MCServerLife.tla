---------------------------- MODULE MCServerLife ----------------------------
\* A server with two websockets and one other request, for which there is room only
\* when a websocket has ended or is not there yet.
EXTENDS ServerLife, TLC
=============================================================================
