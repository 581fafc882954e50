--------------------------- MODULE MCSocketServer ---------------------------
(* SocketServer for TLC: the server and one timer handler of the temperature  *)
(* sensor, client.c and another client that sends something else.             *)
EXTENDS SocketServer

CONSTANTS srv_thread, handler, c1, c2

MCTempUsers == {srv_thread, handler}
MCLightUsers == {srv_thread}
MCClients == {c1, c2}
MCOthers == {c2}
MCWords == { <<"T">>, <<"T", "E", "M", "P">>, <<"L", "I", "G">>, LIGHT \o <<"x">> }
MCSamples == {1600, 4095}
MCChannels == {<<10, 3>>, <<10, 9>>}
=============================================================================
