---------------------------- MODULE CuratedFacts ----------------------------
(* Registries of three facts per concept for TLC: a thesis, a counterpoint *)
(* and a consequence, as build_argued_plan lays them out.                  *)
CONSTANT Concepts

Fact(c, kind) == <<c, kind>>
MCFacts == {Fact(c, k) : c \in Concepts, k \in {"thesis", "rival", "counter", "consequence"}}
MCSubjectOf == [f \in MCFacts |-> f[1]]
MCCounters == {<<Fact(c, "counter"), Fact(c, "thesis")>> : c \in Concepts}
MCFollowsFrom == {<<Fact(c, "consequence"), Fact(c, "thesis")>> : c \in Concepts}

Thesis(c) == [role |-> "Thesis", fact |-> Fact(c, "thesis")]
Rival(c) == [role |-> "Thesis", fact |-> Fact(c, "rival")]
Counterpoint(c) == [role |-> "Counterpoint", fact |-> Fact(c, "counter")]
Consequence(c) == [role |-> "Consequence", fact |-> Fact(c, "consequence")]

(* The three claims of an argued plan.                                     *)
ArguedPlans == {<<Thesis(c), Counterpoint(c), Consequence(c)>> : c \in Concepts}

(* Shorter plans, and lists the operator refuses at once or half-way.      *)
MCPlans == ArguedPlans \cup
  UNION {{<<Thesis(c)>>, <<Thesis(c), Consequence(c)>>,
          <<Thesis(c), Counterpoint(c)>>, <<Counterpoint(c)>>,
          <<Rival(c)>>,
          <<Thesis(c), [role |-> "Counterpoint", fact |-> Fact(c, "consequence")]>>,
          <<Thesis(c), [role |-> "DialogueAct", fact |-> Fact(c, "thesis")]>>} : c \in Concepts}
  \cup {<<Thesis(c), Counterpoint(d)>> : c, d \in Concepts}
============================================================================
