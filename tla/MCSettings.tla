------------------------------ MODULE MCSettings ------------------------------
(* A user who edits what may be edited, and loses a token: among the edits a  *)
(* device too long for its array, and an empty device id.                     *)
EXTENDS Settings, TLC

MCEdits == "mpv_profile" :> {"mine"} @@ "ssl_verifyhost" :> {"false"} @@ "check_updates" :> {"false"}
           @@ "device" :> {"a laptop of a name too long"} @@ "deviceid" :> {""}
MCCuts == "a laptop of a name too long" :> "a laptop"
=============================================================================
