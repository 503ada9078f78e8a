---------------------------- MODULE MCLifecycle ----------------------------
(***************************************************************************)
(* Two settings and two ConfigMaps, for TLC.                               *)
(***************************************************************************)
EXTENDS Lifecycle

CONSTANTS ratio, spec

Config(ratioText, specText) == [s \in Setting |-> IF s = ratio THEN ratioText ELSE specText]
MCConfigMaps == {Config("proper", "proper"), Config("malformed", "blank")}

NothingHappens == [act \in LifecycleAct |-> 0]
RolloutOnRollout == [NothingHappens EXCEPT !["edits"] = 1, !["rollouts"] = 2, !["crashes"] = 1, !["faults"] = 1]
=============================================================================
