---------------------------- MODULE MCWebRelease ----------------------------
(* An instance of WebRelease: five assemblies, and two contents, which are    *)
(* the briefs as well: one with its anchors and one with a mock instead.      *)
EXTENDS WebRelease

RealSlice == [slot \in RequiredSlots |-> "real"]

\* The real slice, the same with the deterministic gate under another version,
\* which is ready as well, and three ways to fall short of it: the
\* deterministic gate under its own, with scaffold and blank versions behind a
\* deterministic artifact port, and nothing bound at all.
MCBindings ==
  {RealSlice,
   [RealSlice EXCEPT !["quality.governance"] = "renamed"],
   [RealSlice EXCEPT !["quality.governance"] = "stub",
                     !["artifact.production"] = "renamed"],
   [RealSlice EXCEPT !["artifact.production"] = "stub",
                     !["agent.engine"] = "scaffold",
                     !["quality.governance"] = "blank"],
   [slot \in RequiredSlots |-> "none"]}

MCContents == {{"ANCHOR"}, {"MOCK"}}
MCBriefs == MCContents

MCProfiles ==
  {[declared |-> FALSE, production |-> FALSE, simulate_hard_error |-> FALSE],
   [declared |-> TRUE, production |-> TRUE, simulate_hard_error |-> FALSE],
   [declared |-> TRUE, production |-> FALSE, simulate_hard_error |-> TRUE]}
=============================================================================
