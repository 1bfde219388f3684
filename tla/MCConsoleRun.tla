---------------------------- MODULE MCConsoleRun -----------------------------
(***************************************************************************)
(* Instances of ConsoleRun for TLC: the fixtures a client may send.        *)
(***************************************************************************)
EXTENDS ConsoleRun

CONSTANTS A, B, position, count

Requires(p, c) == [r \in Requirements |-> IF r = position THEN p ELSE c]
Document(version, operations) ==
  [procedure |-> "SOP", version |-> version, operations |-> operations]
Operation(name, requirements) == [operation |-> name, requirements |-> requirements]
Artifacts == << [id |-> "WI", value |-> A], [id |-> "WI", value |-> B], [id |-> "X", value |-> A] >>

\* The directory of a fixture: version 1, whatever version 2 is, and a document
\* without requirements beside them.
Fixture(two) ==
  [keys |-> "SOURCE_CHANGE_ONLY", procedure |-> "SOP", previous |-> 1, current |-> 2,
   scope |-> {"WI"},
   directory |-> [sources |-> <<Document(1, <<Operation("PACK", Requires(A, A))>>),
                                Document(2, <<Operation("NOTE", Absent)>>)>> \o two,
                  artifacts |-> Artifacts]]

Second(p, c) == Document(2, <<Operation("NOTE", Absent), Operation("PACK", Requires(p, c))>>)

\* One change, two, none, a missing version, a removal, two documents of one version,
\* another operation, an addition beside a change, and what a client may get wrong.
ClientFixtures ==
  LET sound == Fixture(<<Second(B, A)>>)
  IN { sound, Fixture(<<Second(B, B)>>), Fixture(<<Second(A, A)>>), Fixture(<<>>),
       Fixture(<<Second(A, Absent)>>), Fixture(<<Second(B, B), Second(B, A)>>),
       Fixture(<<Document(2, <<Operation("SHIP", Requires(B, A))>>)>>),
       [sound EXCEPT !.directory.sources =
          << Document(1, <<Operation("PACK", Requires(A, Absent))>>), Second(B, A) >>],
       [sound EXCEPT !.keys = "CONCLUSION"], [sound EXCEPT !.scope = {}],
       [sound EXCEPT !.current = 1], [sound EXCEPT !.directory.artifacts = <<>>] }

=============================================================================
