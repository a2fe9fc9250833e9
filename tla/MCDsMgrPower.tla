---------------------------- MODULE MCDsMgrPower ----------------------------
(* Small devices for DsMgrPower. *)
EXTENDS DsMgrPower

OneVideo == <<"HDMI0">>
OneAudio == <<"SPDIF0">>
=============================================================================
