--------------------------- MODULE MCConfigDocument ---------------------------
(* Small instances of ConfigDocument for TLC.                                  *)
EXTENDS ConfigDocument

\* A credential and a tag by reference, a second profile with the literal that the one resolves to.
MCSources ==
    {[s \in Slot |->
        CASE s = Default -> "prod"
          [] s = Key("prod") -> "$A"
          [] s = Key("new") -> "new"
          [] s = <<"prod", "tag1">> -> "$B"
          [] s = <<"prod", "tag2">> -> "new"
          [] OTHER -> None]}

MCEnvs == {[v \in Var |-> IF v = "$A" THEN "new" ELSE None]}
=============================================================================
