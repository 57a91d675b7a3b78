------------------------------- MODULE MCWire -------------------------------
(* Small instances of Wire for TLC. *)
EXTENDS Wire

(* A message of each kind, and of texts that are hard to tell the end of. *)
Says(kind, atoms, texts, style) ==
  [kind |-> kind, atoms |-> atoms, texts |-> texts, style |-> style]

MCWords == {"x", "y", "[", "]", "id", ":"}

Json == <<"[", Quote, "id", Quote, ":", LF, Quote, "x", Blank, "y", Quote, "]">>

MCMessages ==
  {Says("EVENT", <<"7", "0">>, <<<<"x", LF, "<", Quote, Blank, "y">>, <<>>>>, "entities"),
   Says("EVENT", <<"7", "1">>, <<<<Slash, "x", Quote, Blank, "y">>>>, "backslashes"),
   Says("RESPONSE", <<>>, <<Json>>, "raw"),
   Says("RESPONSE", <<>>, <<<<"&", "quot;">>, <<Blank, "x">>>>, "nested"),
   Says("RESPONSE", <<>>, <<<<"x">>, <<"x">>, <<"x">>>>, "raw"),
   Says("ERROR", <<"7">>, <<<<Quote, "x", Quote, "y">>>>, "backslashes"),
   Says("SUBSCRIBE", <<"7">>, <<>>, "raw")}

MCTexts ==
  {<<>>, <<"&", "quot;">>, <<Quote, Blank, "x">>, <<"x", LF, "<">>, <<"&", "&", "amp;">>}
=============================================================================
