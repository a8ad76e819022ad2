------------------------------ MODULE MCP2Test ------------------------------
(***************************************************************************)
(* P2Test for TLC, in parts of the test that together start every process. *)
(***************************************************************************)
EXTENDS P2Test

MCDevices == {Term0}

MCInstances ==
  {{"p1", "p2", "p3"}, {"p1", "hp_p1", "hp_p2", "p4", "p4b", "p5"},
   {"p1", "p4", "p4b", "p5", "p6", "p7", "p9", "p10"},
   {"p1"} \cup P8Family}
============================================================================
