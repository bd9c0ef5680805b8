---------------------------- MODULE MCPESAssembly ----------------------------
(***************************************************************************)
(* PESAssembly with a start code of one byte, one more for stream id and   *)
(* length, one for the flags: an unbounded unit with a PTS, a bounded one  *)
(* with PTS and DTS, and one without optional fields.                      *)
(***************************************************************************)
EXTENDS PESAssembly

H(length, optional, data, timestamps) ==
    [start_code |-> TRUE, length |-> length, has_optional_fields |-> optional,
     header_data_length |-> data, timestamps |-> timestamps]

MCUnit == {"video", "audio", "private"}
MCSize == [u \in MCUnit |-> CASE u = "video" -> 6 [] u = "audio" -> 6
                              [] u = "private" -> 3]
MCHeaderOf == [u \in MCUnit |-> CASE u = "video" -> H(0, TRUE, 1, 1)
                                  [] u = "audio" -> H(4, TRUE, 2, 2)
                                  [] u = "private" -> H(1, FALSE, 0, 0)]
\* No start code, complete before the header it announces, and unbounded.
MCGarbageHeaders == {[H(1, TRUE, 3, 1) EXCEPT !.start_code = FALSE],
                     H(1, TRUE, 3, 1), H(0, TRUE, 0, 0)}

\* A constant formula, which TLC evaluates once: the differences of timestamps
\* of TsModulus.
ASSUME DifferenceChecked == TimestampDifferenceIsAdvance

PidSymmetry == Permutations(Pid)
=============================================================================
