---------------------------- MODULE MCChannelPoll ----------------------------
(* Instances of ChannelPoll for TLC. *)
EXTENDS ChannelPoll

CONSTANTS c1, c2, c3, a1

TwoChannels == {c1, c2}
ThreeChannels == {c1, c2, c3}
\* The descriptor of c1 is used again by c3.
FdsReused == c1 :> 4 @@ c2 :> 3 @@ c3 :> 4
TwoFds == c1 :> 3 @@ c2 :> 4
OneApp == {a1}
AllMasks == {{"write"}, {"read", "error"}}
==============================================================================
