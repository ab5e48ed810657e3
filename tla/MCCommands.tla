---------------------------- MODULE MCCommands ----------------------------
(***************************************************************************)
(* Every text of up to five characters as /autorun; as typed lines every   *)
(* one of up to six, every four words of one letter (a name, as many       *)
(* arguments as argv has room for, and one more), and every path of four   *)
(* parts, from the root or not, the longest of which do not fit a name.    *)
(***************************************************************************)
EXTENDS Commands

Letters == {"a", "/", "."}
Parts == {<<"a">>, <<".">>, <<".", ".">>}

MCAutorunFiles == BoundedSeq({"a", " ", "HT", "nl", "#"}, 5)
MCTypedLines ==
  BoundedSeq(Letters \cup {" "}, 6)
  \cup {<<w[1], " ", w[2], " ", w[3], " ", w[4]>> : w \in [1 .. 4 -> Letters]}
  \cup {start \o w[1] \o <<"/">> \o w[2] \o <<"/">> \o w[3] \o <<"/">> \o w[4] :
          start \in {<<>>, <<"/">>}, w \in [1 .. 4 -> Parts]}
=============================================================================
