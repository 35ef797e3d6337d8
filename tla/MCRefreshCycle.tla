--------------------------- MODULE MCRefreshCycle ---------------------------
(* Instances of RefreshCycle for TLC.                                      *)
EXTENDS RefreshCycle

(* Of the ten sections: one that expires within the bounds and can fail    *)
(* half-way, and one that does not expire.                                 *)
LocationAndSkills == <<"SKILLS", "LOCATION">>
LocationOnly      == <<"LOCATION">>
SkillsOnly        == <<"SKILLS">>

=============================================================================
