---------------------------- MODULE MCExploration ----------------------------
(***************************************************************************)
(* TLC instances of Exploration with an arbitrary reduction.               *)
(***************************************************************************)
EXTENDS ExplorationInvariant, MCPrograms

MCPrograms2 ==
    {Two(<<W("x"), R("y")>>, <<W("y"), R("x")>>),
     Two(<<L("m"), U("m")>>, <<L("m"), U("m")>>),
     Two(<<>>, <<R("x")>>)}

=============================================================================
