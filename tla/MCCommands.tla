----------------------------- MODULE MCCommands -----------------------------
(***************************************************************************)
(* The instance of Commands for TLC: two criteria, the id of one of which  *)
(* begins that of the other, and the pack's.                               *)
(***************************************************************************)
EXTENDS Commands

TwoCriteria == << <<"a">>, <<"a", "b">> >>
OnePack == << <<"pack">> >>
OnePackId == << <<"pack", "c">> >>
HandWritten == {<<"a", "c">>}

(* "a" with "b c" and "a b" with "c" are one id; so is a name that is a suffix. *)
SomeDrafts == {<< <<"c">>, <<"c">> >>, << <<"b", "c">>, <<"c", "2">> >>}

Sonnet == [model |-> "sonnet", temperature |-> "unset", prompt |-> "2"]
SomeJudges == {Sonnet, [Sonnet EXCEPT !.temperature = "zero"], [Sonnet EXCEPT !.prompt = "1"]}

Labelled(id, criterion, human) == [id |-> id, criterion |-> criterion, human |-> human]

Placeholders == {Labelled(1, <<"a">>, TRUE), Labelled(2, <<"a">>, FALSE)}
KnownCases == Placeholders \cup {Labelled(3, <<"a", "b">>, TRUE), Labelled(4, <<"a", "b">>, FALSE)}
SomeCases == KnownCases \cup {Labelled(5, <<"gone">>, TRUE)}

(* A report of before 0.3, by the judge it names, right or wrong on a pass. *)
Legacy(right) ==
  [judge |-> [Sonnet EXCEPT !.prompt = "none"],
   cases |-> {c @@ [judge |-> c.human \/ (c.id = 4 /\ ~right)] : c \in KnownCases}]

EarlierReports == {NoReport, Legacy(TRUE), Legacy(FALSE)}
=============================================================================
