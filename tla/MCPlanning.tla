----------------------------- MODULE MCPlanning -----------------------------
(***************************************************************************)
(* An instance of Planning for TLC: the scenarios and recordings of        *)
(* MCRunner, one of two attempts at one message and one of one attempt     *)
(* that goes on from the same message, so that they share cached           *)
(* responses.                                                              *)
(***************************************************************************)
EXTENDS Planning, MCRunner

FollowUp == "s" :> <<"m">> @@ "t" :> <<"m", "n">>
NoMisses == [s \in TwoScenarios |-> 0]
=============================================================================
