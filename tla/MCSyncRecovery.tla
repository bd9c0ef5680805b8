---------------------------- MODULE MCSyncRecovery ----------------------------
(***************************************************************************)
(* SyncRecovery with packets of three cells.  The noise is bytes that are  *)
(* no sync byte, one that starts no packet, and a valid header.            *)
(***************************************************************************)
EXTENDS SyncRecovery

MCHeaderPid == {"video", "audio"}
MCNoise ==
    {<<>>, <<NoSync>>, <<BadHeader, NoSync>>,
     <<[pid |-> "video", cc |-> 1, disc |-> FALSE, payload |-> TRUE,
        rest |-> "rest"]>>}
=============================================================================
