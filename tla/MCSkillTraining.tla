-------------------------- MODULE MCSkillTraining --------------------------
(* An instance of SkillTraining for TLC: two levels of one skill with one  *)
(* of another between them.                                                *)
EXTENDS SkillTraining

Spaceship == "spaceship command"
Gunnery   == "gunnery"

TwoSkills == {Spaceship, Gunnery}
ThreeLevels ==
  {[skill |-> Gunnery,   level |-> 1, finish |-> 1],
   [skill |-> Spaceship, level |-> 1, finish |-> 2],
   [skill |-> Gunnery,   level |-> 2, finish |-> 3]}
Untrained == [s \in TwoSkills |-> 0]

=============================================================================
