-------------------------- MODULE MC_HsmsTransport ---------------------------
(* Instances of HsmsTransport for TLC.                                     *)
EXTENDS HsmsTransport, TLC
SymSession == Permutations(Session)
\* Frames after which the peer stays connected, and some that end it.
AllFrames == PeerFrameKinds
=============================================================================
