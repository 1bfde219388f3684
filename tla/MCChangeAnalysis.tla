-------------------------- MODULE MCChangeAnalysis --------------------------
(***************************************************************************)
(* Instances of ChangeAnalysis for TLC: every catalog whose artifacts each *)
(* meet all four conditions or all but one.  The rules of AutonomyGate are *)
(* evaluated over every artifact, source and change with two requirements  *)
(* and three values.                                                       *)
(***************************************************************************)
EXTENDS ChangeAnalysis

AllButOne == [Artifacts -> {Conditions} \union {Conditions \ {c} : c \in Conditions}]

Gate == INSTANCE AutonomyGate

GateRequirements == {"torque", "grade"}
GateValues == {"12", "15", "18"}
Sources == Gate!RequirementSets(GateRequirements, GateValues)
GateArtifacts ==
  [id : {"p"}, requirement : GateRequirements, current : GateValues, requirements : Sources,
   contentRef : {"p#v1"}, authorized : BOOLEAN]
GateChanges ==
  [procedure : {"P"}, version : {"3", "4"}, previousVersion : {"2", "3"}, operation : {"op"},
   requirement : GateRequirements, previous : {"12"}, current : {"12", "15"}, scope : {{}, {"p"}}]

ASSUME GateWriteChecked ==
  \A artifact \in GateArtifacts, source \in Sources, change \in GateChanges :
    /\ Gate!AuthorizedWriteConforms(artifact, source, change, "p#v2")
    /\ Gate!RemediatedStaysAuthorized(artifact, source, change, "p#v2")

ASSUME SupersessionChecked ==
  \A state \in Gate!WorkflowState, change \in GateChanges, incoming \in GateChanges :
    Gate!SupersessionIsFinal(state, change, incoming)

=============================================================================
