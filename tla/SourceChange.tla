---------------------------- MODULE SourceChange -----------------------------
(***************************************************************************)
(* Step 1 of a workflow: an approved change is the difference of two       *)
(* versions of a source procedure.  A fixture names the versions; the      *)
(* values come from the documents of a directory, read in name order.      *)
(* Documents, requirements and values are model values.                    *)
(***************************************************************************)
EXTENDS Naturals, Sequences, FiniteSets, SequencesExt, FiniteSetsExt

CONSTANTS
  Requirements,  \* requirement ids of the procedures
  Absent         \* the value of a requirement a version does not have

ASSUME RequirementsAssumption == IsFiniteSet(Requirements)

-----------------------------------------------------------------------------
(***************************************************************************)
(* The fixture and the documents beside it                                 *)
(***************************************************************************)

\* The documents of a directory are listed by name; a section of one either has no
\* requirements or says of every requirement which value it has, if any.
WellShaped(fixture) ==
  LET sources == fixture.directory.sources
  IN /\ Len(sources) \in Nat /\ DOMAIN sources = 1..Len(sources)
     /\ \A i \in DOMAIN sources :
          LET operations == sources[i].operations
          IN /\ Len(operations) \in Nat /\ DOMAIN operations = 1..Len(operations)
             /\ \A j \in DOMAIN operations :
                  operations[j].requirements # Absent =>
                    operations[j].requirements
                      = [r \in Requirements |-> operations[j].requirements[r]]

\* validate_fixture: a conclusion, an unknown field or a missing one refuses it.
ValidFixture(fixture) == fixture.keys = "SOURCE_CHANGE_ONLY"

\* The first operation of a document that has requirements.
FirstOperation(doc) ==
  LET shaped == { i \in DOMAIN doc.operations : doc.operations[i].requirements # Absent }
  IN IF shaped = {} THEN Absent ELSE doc.operations[Min(shaped)]

\* Where a directory has the documents that hold a version of a procedure.
Holding(directory, procedure, version) ==
  { i \in DOMAIN directory.sources :
      /\ directory.sources[i].procedure = procedure
      /\ directory.sources[i].version = version
      /\ FirstOperation(directory.sources[i]) # Absent }

\* _load_source_versions: of two documents of one version the later name wins.
LoadVersion(directory, procedure, version) ==
  LET held == Holding(directory, procedure, version)
      first == FirstOperation(directory.sources[Max(held)])
  IN IF held = {} THEN Absent
     ELSE [procedure    |-> procedure,
           version      |-> version,
           operation    |-> first.operation,
           requirements |-> first.requirements]

\* _load_catalog: of two artifacts of one id the earlier counts.
Catalog(directory) ==
  { directory.artifacts[i] :
      i \in { j \in DOMAIN directory.artifacts :
                \A k \in 1..(j - 1) : directory.artifacts[k].id # directory.artifacts[j].id } }

\* dataset_from_fixture, or Absent where it raises FixtureRejected.
Dataset(fixture) ==
  LET previous == LoadVersion(fixture.directory, fixture.procedure, fixture.previous)
      current == LoadVersion(fixture.directory, fixture.procedure, fixture.current)
  IN IF /\ ValidFixture(fixture)
        /\ previous # Absent /\ current # Absent
        /\ Catalog(fixture.directory) # {}
        /\ fixture.scope # {}
       THEN [previous |-> previous, current |-> current,
             catalog |-> Catalog(fixture.directory), scope |-> fixture.scope]
       ELSE Absent

-----------------------------------------------------------------------------
(***************************************************************************)
(* The source store and the derivation of the change                       *)
(***************************************************************************)

\* content_ref
Ref(version) == <<version.procedure, version.version>>

\* SourceProcedureStore.register: append-only.  It raises on other content under a
\* known ref; the store of a session is new and its two versions differ in theirs.
Register(store, version) ==
  [ref \in DOMAIN store \union {Ref(version)} |->
     IF ref \in DOMAIN store THEN store[ref] ELSE version]

\* MUTANT: what the previous version did not have is not a difference.
ChangedOnly(previous, current) ==
  { r \in Requirements : /\ previous.requirements[r] # current.requirements[r]
                         /\ previous.requirements[r] # Absent }

\* diff_requirements: additions and removals included.
DiffRequirements(previous, current) ==
  { r \in Requirements : previous.requirements[r] # current.requirements[r] }

\* ingest_source_change does not raise.
Ingestible(previous, current) ==
  /\ previous.procedure = current.procedure
  /\ previous.operation = current.operation
  /\ previous.version # current.version
  /\ Cardinality(DiffRequirements(previous, current)) = 1
  /\ \A r \in DiffRequirements(previous, current) :
       Absent \notin {previous.requirements[r], current.requirements[r]}

\* The approved change of two versions.
ApprovedChange(previous, current) ==
  LET requirement == CHOOSE r \in DiffRequirements(previous, current) : TRUE
  IN [requirement    |-> requirement,
      previous_value |-> previous.requirements[requirement],
      current_value  |-> current.requirements[requirement],
      previous_ref   |-> Ref(previous),
      evidence_ref   |-> Ref(current)]

\* The ingestion of a dataset into a new store: its change and what resolves after.
Ingest(dataset) ==
  IF dataset # Absent /\ Ingestible(dataset.previous, dataset.current)
    THEN [change |-> ApprovedChange(dataset.previous, dataset.current),
          store  |-> Register(Register(<<>>, dataset.previous), dataset.current)]
    ELSE Absent

-----------------------------------------------------------------------------
\* A change tells the whole truth about two versions that can be retrieved: it
\* names the one requirement that differs, with the two values that are there,
\* and every other requirement is what it was (ingest_source_change).
TellsTheDifference(change, store) ==
  /\ {change.previous_ref, change.evidence_ref} \subseteq DOMAIN store
  /\ LET before == store[change.previous_ref].requirements
         after == store[change.evidence_ref].requirements
     IN /\ change.previous_value # change.current_value
        /\ Absent \notin {change.previous_value, change.current_value}
        /\ after = [before EXCEPT ![change.requirement] = change.current_value]
        /\ before[change.requirement] = change.previous_value

=============================================================================
