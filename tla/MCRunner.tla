------------------------------ MODULE MCRunner ------------------------------
(***************************************************************************)
(* Instances of Runner for TLC.                                            *)
(***************************************************************************)
EXTENDS Runner, TLC

(* One scenario of four single-message attempts that may miss one. *)
OneScenario == {"s"}
FourRuns == [s \in OneScenario |-> 4]
OneMiss == [s \in OneScenario |-> 1]
OneMessage == [s \in OneScenario |-> <<"m">>]

(* A scenario with a scripted turn beside one without, of different gates. *)
TwoScenarios == {"s", "t"}
UnevenRuns == "s" :> 2 @@ "t" :> 1
UnevenMisses == "s" :> 1 @@ "t" :> 0
UnevenScript == "s" :> <<"m", "n">> @@ "t" :> <<"n">>

(***************************************************************************)
(* Caches an earlier run may have left: empty, the whole conversation of   *)
(* attempt 1, or the first turn of attempt 2, whose second turn failed.    *)
(***************************************************************************)
Empty == {}
FirstTurn(i) == [key |-> [said |-> <<"m">>, attempt |-> i, heard |-> <<>>], text |-> "x"]
SecondTurn(i) ==
  [key |-> [said |-> <<"m", "n">>, attempt |-> i, heard |-> <<"x">>], text |-> "x"]
NoRecordings == {Empty}
EarlierRuns == {Empty, {FirstTurn(1), SecondTurn(1)}, {FirstTurn(1), SecondTurn(1), FirstTurn(2)}}
=============================================================================
