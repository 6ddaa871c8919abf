--------------------------- MODULE MCParameterSets ---------------------------
(* Units of one to five bytes, most of them zeros and ones, so that the       *)
(* start codes and what looks like one lie on every side of every word.       *)
EXTENDS ParameterSets

\* The parameter sets and a slice of each codec.
SomeHeaders == [AVC |-> {<<103>>, <<104>>, <<101>>},
                HEVC |-> {<<64, 1>>, <<66, 1>>, <<68, 1>>, <<78, 1>>, <<38, 1>>}]
SomeTails == {<<>>, <<1>>, <<0, 1>>, <<0, 0, 3>>, <<1, 0, 1>>}
=============================================================================
