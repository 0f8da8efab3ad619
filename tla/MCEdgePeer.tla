----------------------------- MODULE MCEdgePeer -----------------------------
(* Instances of EdgePeer for TLC. *)
EXTENDS EdgePeer

\* With TURN a gatherer finds two candidates, with the default of room.js one.
MCIceServers == <<"stun", "turn-udp", "turn">>

\* The other end has the codec of Edge among others, or not at all.
MCVideoCodecs == {{"vp8", "h264"}, {"vp8"}}
=============================================================================
