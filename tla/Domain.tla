------------------------------- MODULE Domain -------------------------------
(***************************************************************************)
(* The pure value rules every other part of the engine reads: phases,      *)
(* flows, the progress record, the review cadence and the planner that a   *)
(* planning tier selects.  They are translated from src/src/domain/.       *)
(***************************************************************************)
EXTENDS Integers, Sequences, FiniteSetsExt, SequencesExt

CONSTANT ReviewInterval    \* completed chapters between two global reviews

ASSUME ReviewIntervalAssumption == ReviewInterval \in Nat \ {0}

-----------------------------------------------------------------------------
(* Phases run forward only. *)

PhaseRank == [init |-> 1, premise |-> 2, outline |-> 3, writing |-> 4, complete |-> 5]

Phases == DOMAIN PhaseRank

CanTransitionPhase(from, to) == PhaseRank[to] >= PhaseRank[from]

-----------------------------------------------------------------------------
(* Flows say what the writing phase is busy with. *)

FlowTargets ==
  [ writing   |-> {"reviewing", "rewriting", "polishing", "steering"},
    reviewing |-> {"writing", "rewriting", "polishing", "steering"},
    rewriting |-> {"writing", "steering"},
    polishing |-> {"writing", "steering"},
    steering  |-> {"writing", "reviewing", "rewriting", "polishing"} ]

Flows == DOMAIN FlowTargets

CanTransitionFlow(from, to) == from = to \/ to \in FlowTargets[from]

-----------------------------------------------------------------------------
Tiers == {"short", "mid", "long"}

Agents == {"architect_short", "architect_long", "writer", "editor"}

Architects == {"architect_short", "architect_long"}

\* An unknown tier ("") gets the long planner, as in the code.
PlannerForTier(tier) == IF tier = "short" THEN "architect_short" ELSE "architect_long"

-----------------------------------------------------------------------------
(* The progress record.  `current` is 0 where the code leaves it out. *)

Progress(Numbers, Totals) ==
  [ phase : Phases, flow : Flows, current : {0} \cup Numbers, total : Totals,
    completed : Seq(Numbers), pending : Seq(Numbers), layered : BOOLEAN ]

EmptyProgress ==
  [ phase |-> "init", flow |-> "writing", current |-> 0, total |-> 0,
    completed |-> <<>>, pending |-> <<>>, layered |-> FALSE ]

LatestCompleted(p) == Max({0} \cup ToSet(p.completed))

NextChapter(p) == LatestCompleted(p) + 1

ShouldReview(count) == count > 0 /\ count % ReviewInterval = 0
=============================================================================
