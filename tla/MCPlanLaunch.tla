---------------------------- MODULE MCPlanLaunch ----------------------------
(* Instances of PlanLaunch for TLC. *)
EXTENDS PlanLaunch, TLC

CONSTANTS r1, r2, r3, r4, meta, google

TwoPlatforms  == {meta, google}
OnePlatform   == {meta}
TwoRequests   == {r1, r2}
ThreeRequests == {r1, r2, r3}
FourRequests  == {r1, r2, r3, r4}
AllOps        == {"regenerate", "approve", "launch"}
ApproveLaunch == {"approve", "launch"}

\* Requests and platforms are interchangeable.
Symmetry == Permutations(Requests) \cup Permutations(Platforms)

=============================================================================
