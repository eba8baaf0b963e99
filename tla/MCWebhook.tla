----------------------------- MODULE MCWebhook -----------------------------
(* Webhook with a choice of volumes: every way a volume is declared, every    *)
(* combination of hints for the modes that use them, and volumes that name a  *)
(* log format.                                                                *)
EXTENDS Webhook

NoAttrs == [limit |-> Unset, request |-> Unset]

Plain == {v \in [claim : BOOLEAN, mountMode : {"", "sidecar", "mountpod", "other"},
                 access : {"write", "field", "pv", "flag", "repo"}, attrs : {NoAttrs},
                 logFormat : {""}] : v.access = "pv" => v.claim}

Hinted == [claim : {FALSE}, mountMode : {"", "mountpod"}, access : {"write", "repo"},
           attrs : [limit : {Unset, Invalid, 0, 1}, request : {Unset, 0, 2}], logFormat : {""}]

Formatted == [claim : {FALSE}, mountMode : {"", "mountpod"}, access : {"write"},
              attrs : {NoAttrs}, logFormat : Formats]

MCGraces == {Unset, 0, 2, 3}

MCVolume == Plain \cup Hinted \cup Formatted
=============================================================================
