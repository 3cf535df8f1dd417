-------------------------- MODULE MCEmergencyStop --------------------------
(* Instances of EmergencyStop for TLC. *)
EXTENDS EmergencyStop, TLC

CONSTANTS s, a

OneSimple == s :> "simple"
OneTransmit == s :> TRUE
SimpleAndAuction == s :> "simple" @@ a :> "auction"
BothTransmit == s :> TRUE @@ a :> TRUE
=============================================================================
