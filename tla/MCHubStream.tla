---------------------------- MODULE MCHubStream ----------------------------
(***************************************************************************)
(* HubStream with one stream that takes everything and one that takes only *)
(* errors.                                                                 *)
(***************************************************************************)
EXTENDS HubStream, TLC

CONSTANTS all, errors

MCKinds   == {"ERROR", "INFO"}
MCStreams == {all, errors}
MCWanted  == all :> MCKinds @@ errors :> {"ERROR"}
=============================================================================
