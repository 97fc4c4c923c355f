------------------------------- MODULE MCGpio -------------------------------
(***************************************************************************)
(* Two lines, the first and the last; B has both commands for the first and *)
(* only the command to switch it on for the last.                           *)
(***************************************************************************)
EXTENDS Gpio

MCLines == {0, 31}
MCNumbers == [w \in {"0", "1", "32", "33"} |->
                CASE w = "0" -> 0 [] w = "1" -> 1 [] w = "32" -> 32 [] w = "33" -> 33]
Pulse(l) == <<"GO", " ", "0", " ", l, " ", "1", " ", "1", "!">>
Off(l) == <<"GO", " ", "0", " ", "O", " ", l, " ", "0", " ", "0", "!">>
Steady(l) == <<"GO", " ", "0", " ", "O", " ", l, " ", "1", " ", "0", "!">>

\* The second is cut short: it spoils the other port's first command
MCEchoTexts == {<<>>, <<"GO", " ", "0", " ", "1">>, Pulse("32"), Off("1")}
MCNoEchoTexts == {<<>>, Pulse("1") \o Steady("32") \o Steady("33")}
MCCommands == {<<0, TRUE>>, <<0, FALSE>>, <<31, TRUE>>}
=============================================================================
