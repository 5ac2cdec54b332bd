--------------------------- MODULE MCRoomDelivery ---------------------------
EXTENDS RoomDelivery

MCKeyOf == [r \in Readers |-> "play"]
MCKeys == {"play", "spectate"}
MCSees == [public |-> {"play", "spectate"}, private |-> {"play"}, status |-> {"play", "spectate"}]
MCPayloads == {<<"private">>, <<"public">>, <<"public", "status">>}
=============================================================================
