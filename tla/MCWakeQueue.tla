---- MODULE MCWakeQueue ----
(* Three messages of one room, one of another, or the owner's nudge.       *)
EXTENDS WakeQueue
Three == 1..3
Four == 1..4
OneRoom == <<"lobby", "lobby", "lobby">>
Busy == <<"lobby", "garden", "lobby", NoPlace>>
Rooms == {"lobby", "garden"}
====
