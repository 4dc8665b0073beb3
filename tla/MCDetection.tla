----------------------------- MODULE MCDetection -----------------------------
EXTENDS Detection

Post(source) ==
    [source |-> source, negative |-> FALSE, rival |-> FALSE, stars |-> 0,
     loud |-> FALSE, enriched |-> TRUE]

Praise == Post("reddit")
Insult == [Post("reddit") EXCEPT !.negative = TRUE]
Rivals == [Post("reddit") EXCEPT !.rival = TRUE]
Rant == [Post("reddit") EXCEPT !.loud = TRUE, !.negative = TRUE]
Unread == [Post("reddit") EXCEPT !.enriched = FALSE]
OneStar == [Post("playstore") EXCEPT !.stars = 1, !.negative = TRUE]
FiveStars == [Post("playstore") EXCEPT !.stars = 5]

AllKinds == {Praise, Insult, Rivals, Rant, Unread, OneStar, FiveStars}
=============================================================================
