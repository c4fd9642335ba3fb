---------------------------- MODULE MCPostureGate ----------------------------
(* The devices are interchangeable, and so are the slots for reports; and the *)
(* baselines the risk engine is tried with.                                   *)
EXTENDS RiskEngine, TLC

CONSTANTS disk, screen

Symmetry == Permutations(Device) \cup Permutations(Post)

MCCheck == {[key |-> disk, platform |-> "All", severity |-> "high"],
            [key |-> screen, platform |-> "Windows", severity |-> "high"],
            [key |-> screen, platform |-> "All", severity |-> "low"],
            [key |-> disk, platform |-> "macOS", severity |-> "medium"]}

\* In force for a Windows device, or not.
MCBaselines ==
    [status : {"enabled"}, disposal : {"allow", "gray", "block"},
     platforms : {{}}, checks : SUBSET MCCheck]
    \cup [status : {"disabled", "enabled"}, disposal : {"block"},
          platforms : {{"macOS"}, {"macOS", "Windows"}}, checks : {MCCheck}]

=============================================================================
