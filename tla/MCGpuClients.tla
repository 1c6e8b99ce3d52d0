---------------------------- MODULE MCGpuClients ----------------------------
(* Two chats of the same session or of two, and one image request.         *)
EXTENDS GpuClients

CONSTANTS a, b, img

MCOne == {a}
MCChats == {a, b}
MCImages == {img}
MCSessions == {"s1", "s2"}
MCCallers == Chats \union Images \union {"watchdog"}
=============================================================================
