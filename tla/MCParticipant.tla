--------------------------- MODULE MCParticipant ---------------------------
(***************************************************************************)
(* Four registry entries for three objects: like cRPC, the second object   *)
(* is registered under two interface ids.                                  *)
(***************************************************************************)
EXTENDS Participant

MCObjects == {"clock", "rpc", "scheduler"}
MCObject  == <<"clock", "rpc", "rpc", "scheduler">>
=============================================================================
