--------------------------- MODULE MCRatingExchange ---------------------------
EXTENDS RatingExchange

N == {"v1", "v2", "v3"}
Keys == [v1 |-> 1, v2 |-> 2, v3 |-> 3]
Views == {"e1", "e2"}
Creators == <<"v1", "v2", "g", "v1">>
\* e2 has a block of v2 and a second one of v1 that e1 lacks; g is no validator.
Blocks == [e1 |-> {1, 3}, e2 |-> {1, 2, 3, 4}]
Weights == [v1 |-> 3, v2 |-> 3, v3 |-> 1]
Round(mode, views, ejected, commit, n) ==
    [mode |-> mode, views |-> views, weight |-> Weights, ejected |-> ejected,
     commit |-> commit, crashes |-> n]
Settings == {Round("checkpoint", {"e2"}, {}, TRUE, 1),
             Round("checkpoint", {"e1"}, {"v3"}, FALSE, 0),
             Round("checkpoint", {"e1", "e2"}, {"v3"}, TRUE, 1),
             Round("wave", {"e1", "e2"}, {}, TRUE, 0),
             Round("wave", {"e2"}, {"v3"}, FALSE, 0),
             [Round("wave", {"e2"}, {"v3"}, FALSE, 0) EXCEPT !.weight = [v \in N |-> 0]]}
=============================================================================
