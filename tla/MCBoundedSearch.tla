--------------------------- MODULE MCBoundedSearch ---------------------------
(***************************************************************************)
(* TLC instances of BoundedSearch, compared with the reference enumeration *)
(* of all maximal executions.                                              *)
(***************************************************************************)
EXTENDS BoundedEnumeration, MCPrograms

MCProgramsTwo ==
    {Two(<<W("x"), R("y"), W("x")>>, <<W("y"), R("x")>>),
     Two(<<L("m"), L("n"), U("n"), U("m")>>, <<L("n"), L("m"), U("m"), U("n")>>),
     Two(<<L("m"), W("x"), U("m")>>, <<R("x"), L("m"), U("m")>>)}

MCProgramsThree ==
    {Three(<<W("x"), R("y")>>, <<W("y")>>, <<R("x")>>),
     Three(<<L("m"), U("m")>>, <<L("m"), U("m")>>, <<W("x")>>)}

\* Those of two threads have a third one without statements here.
MCBoundedPrograms == {Three(p[0], p[1], <<>>) : p \in MCProgramsTwo} \cup MCProgramsThree

=============================================================================
