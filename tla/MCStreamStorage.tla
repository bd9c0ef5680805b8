--------------------------- MODULE MCStreamStorage ---------------------------
(***************************************************************************)
(* StreamStorage on a small stream: a video PID with unit starts, private  *)
(* data and counter jumps around the wrap from 15 to 0, a second PID that  *)
(* a table may leave out, and the PAT's PID.                               *)
(***************************************************************************)
EXTENDS StreamStorage

P(pid, pusi, cc, disc, priv, pay) ==
    [pid |-> pid, pusi |-> pusi, cc |-> cc, disc |-> disc,
     priv |-> priv, pay |-> pay]

MCPid == {"pat", "video", "audio"}
MCSystemPid == {"pat"}
MCTables == {{"video"}}

MCPackets ==
    {P("video", TRUE, 15, FALSE, 0, 2),
     P("video", FALSE, 0, FALSE, 1, 1),
     P("video", FALSE, 0, TRUE, 1, 0),
     P("video", TRUE, 2, TRUE, 0, 1),
     P("audio", FALSE, 7, FALSE, 0, 0),
     P("pat", TRUE, 0, FALSE, 0, 1)}

\* For StorageDocs.cfg: no unit starts, and a counter that falls.
PlainPackets ==
    {P("audio", FALSE, 5, FALSE, 0, 1), P("audio", FALSE, 1, FALSE, 0, 1),
     P("video", FALSE, 0, FALSE, 0, 1)}
=============================================================================
