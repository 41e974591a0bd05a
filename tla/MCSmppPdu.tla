------------------------------ MODULE MCSmppPdu ------------------------------
(* SmppPdu with bytes 0 .. 4 and strings read up to two characters: addresses *)
(* up to one character too long, texts up to one byte too long for a length   *)
(* byte, and every place for a body to end.                                   *)
EXTENDS SmppPdu

MCNotUtf8 == {4}
MCStrings == {<<>>, <<1>>, <<3>>, <<1, 2>>, <<2, 3, 1>>}
MCTimes == {<<>>, <<2>>}
MCTexts ==
  {<<>>, <<2>>, <<0>>, <<3, 1>>, <<0, 2>>, <<2, 0>>, <<4, 1>>, <<2, 0, 4>>,
   <<1, 2, 3>>, <<3, 2, 1, 3>>, <<1, 2, 3, 1, 2>>, <<1, 2, 3, 1, 2, 3>>}
=============================================================================
