------------------------------- MODULE MCCall -------------------------------
(* Small instances of Call: which kinds of message are posted.             *)
EXTENDS Call

\* The shortest way to a call.
Path == {"NETWORK_AVAILABLE", "WEBSOCKET_CONNECTED", "SIGNALING_OBSERVER_JOINED",
         "HEADSET_CONNECTED", "SDP_CREATE_SUCCESS", "SIGNALING_ANSWER",
         "PC_ICE_CONNECTED"}

\* The phone and the server, up to the headset.
SignalPosted == NetworkWhat \cup SocketWhat \cup HeadsetWhat
                \cup {"SIGNALING_OBSERVER_JOINED", "SIGNALING_LEAVE", "SIGNALING_ERROR",
                      "IRISTICK_ERROR", "STOP", "RESTART"}
SignalLate == NetworkWhat \cup SocketWhat
              \cup {"SIGNALING_OBSERVER_JOINED", "SIGNALING_LEAVE"}

\* Calls that are made, disturbed and made again.
TalkPosted == Path \cup SessionWhat
              \cup {"SIGNALING_RESET", "SIGNALING_LEAVE", "HEADSET_DISCONNECTED",
                    "SIGNALING_ICE_CANDIDATE", "STOP"}

\* What the user does with the headset during calls.
UserPosted == Path \cup UserWhat
              \cup {"SIGNALING_RESET", "HEADSET_DISCONNECTED", "CAMERA_ERROR"}

\* Both.
AllPosted == TalkPosted \cup UserPosted
None == {}

=============================================================================
