----------------------------- MODULE MCRtmpLoop -----------------------------
(* Instances of RtmpLoop for TLC.                                            *)
EXTENDS RtmpLoop, TLC

CONSTANTS MaxMsgs, MaxBodies

MCMsgBufs == 1..MaxMsgs
MCBodyBufs == 1..MaxBodies

(* Which memory a connection or a channel occupies, which name it uses and   *)
(* what a message contains makes no difference.                              *)
Symmetry ==
  Permutations(Conns) \cup Permutations(Channels) \cup Permutations(Names) \cup Permutations(Payloads)

=============================================================================
