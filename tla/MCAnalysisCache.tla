--------------------------- MODULE MCAnalysisCache ---------------------------
(* An instance of AnalysisCache for TLC: a film whose first track is       *)
(* spoken in two languages, the same without that track, and the same with *)
(* the tracks the other way round; two processes.                          *)
EXTENDS AnalysisCache, TLC

Mixed == [samples |-> <<"fr", "en">>, tag |-> "fr", commentary |-> FALSE]
Dub   == [samples |-> <<"en", "en">>, tag |-> "en", commentary |-> FALSE]
Talk  == [samples |-> <<"en", "silence">>, tag |-> "en", commentary |-> TRUE]

MCFilm == [full |-> <<Mixed, Dub>>, cut |-> <<Dub>>, swapped |-> <<Talk, Mixed>>]
MCOriginals == {"fr"}
MCSymmetry == Permutations(Procs)
==============================================================================
