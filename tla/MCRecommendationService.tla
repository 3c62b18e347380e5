----------------------- MODULE MCRecommendationService ----------------------
(***************************************************************************)
(* Small instances of RecommendationService for TLC.                       *)
(***************************************************************************)
EXTENDS RecommendationService, TLC

\* Requests and instruments are interchangeable in every safety property.
Symmetry == Permutations(Requests) \cup Permutations(Instruments)
=============================================================================
