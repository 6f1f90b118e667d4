------------------------------ MODULE MCTokenizer ------------------------------
(***************************************************************************)
(* Every text of up to four pieces.  "if" is a keyword, and a word of three *)
(* letters is too long for an identifier.  The counter of lines holds three *)
(* values, so that it overflows.                                           *)
(***************************************************************************)
EXTENDS Tokenizer

Pieces == {<<"i">>, <<"i", "f">>, <<"1">>, <<".">>, <<"\"">>, <<"\\">>, <<"'">>, <<"/">>, <<"+">>,
           <<"&">>, <<"\n">>, <<" ">>, <<";">>, <<"NUL">>}
TextsOf(n) == { FlattenSeq(pieces) : pieces \in [1 .. n -> Pieces] }
AllTexts == UNION { TextsOf(n) : n \in 0 .. 4 }
Words == {<<"i", "f">>}
==============================================================================
