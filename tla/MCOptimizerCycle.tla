-------------------------- MODULE MCOptimizerCycle --------------------------
(* Instances of OptimizerCycle for TLC. *)
EXTENDS OptimizerCycle, TLC

CONSTANTS c1, c2, c3, camp, adset

NoSets       == {}
OneCampaign  == {camp}
OneAdSet     == {adset}
NoParent     == <<>>
ParentOfOne  == [a \in {adset} |-> camp]
TwoCycles    == {c1, c2}
ThreeCycles  == {c1, c2, c3}

\* The seeded rules (prisma/seed.ts) and their limit cases: a raise above the
\* cap, a cut above the cap, a swing that is refused.
RaiseCap  == [prio |-> 1, type |-> "INCREASE_BUDGET", delta |-> 45, target |-> "other"]
Cut       == [prio |-> 3, type |-> "DECREASE_BUDGET", delta |-> -40, target |-> "other"]
Swinging  == [prio |-> 3, type |-> "DECREASE_BUDGET", delta |-> -60, target |-> "other"]
Strategy  == [prio |-> 4, type |-> "SWITCH_BIDDING_STRATEGY", delta |-> 0, target |-> "other"]
ToRoas    == [prio |-> 4, type |-> "SWITCH_BIDDING_STRATEGY", delta |-> 0, target |-> "TARGET_ROAS"]
Floor     == [prio |-> 5, type |-> "ADJUST_BID_FLOOR", delta |-> 10, target |-> "other"]

SerialRules   == {RaiseCap, Cut}
RaiseRules    == {RaiseCap, Swinging}
OneRule       == {Strategy}
MixedRules    == {RaiseCap, Floor, ToRoas}

\* What a provider may support: every call, or all but a ROAS goal (Snapchat).
AllCaps       == [x \in OneCampaign |-> Abilities]
NoRoasGoal    == [x \in OneCampaign |-> Abilities \ {"roasGoal"}]

Symmetry == Permutations(Cycles)

=============================================================================
