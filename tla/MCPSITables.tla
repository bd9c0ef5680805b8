----------------------------- MODULE MCPSITables -----------------------------
(***************************************************************************)
(* PSITables with payloads of five bytes: a PAT that fits into a packet    *)
(* with the beginning of another, a PAT that takes two packets, and PMTs   *)
(* of three, five and ten bytes; PID 1 is the network PID of one PAT and a *)
(* program's PID in the other.                                             *)
(***************************************************************************)
EXTENDS PSITables

MCSection == {"pat1", "pat2", "pmt1", "pmt1b", "pmt2"}
MCSize == [s \in MCSection |->
              CASE s = "pat1" -> 3 [] s = "pat2" -> 5
                [] s = "pmt1" -> 10 [] s = "pmt1b" -> 5 [] s = "pmt2" -> 3]
MCPid == 0..2
MCPats == {"pat1", "pat2"}
MCPmts == {"pmt1", "pmt1b", "pmt2"}
MCPrograms == [s \in MCPats |-> IF s = "pat1" THEN {<<0, 1>>, <<1, 2>>}
                                ELSE {<<1, 2>>, <<2, 1>>}]
MCProgram == [s \in MCPmts |-> IF s = "pmt2" THEN 2 ELSE 1]
MCSendable == {<<0, "pat1">>, <<0, "pat2">>, <<2, "pmt1">>, <<2, "pmt1b">>,
               <<1, "pmt2">>}
MCGarbageLengths == {3, 7}
=============================================================================
