----------------------------- MODULE MCAdapters ------------------------------
EXTENDS Adapters, TLC

AllKeys == {"r1", "r2", "s1", "s2", "y1", "v1", "v2", "g1", "g2", "l1"}
Prices == [k \in AllKeys |-> CASE k \in {"r1", "r2"} -> 2
                               [] k \in {"s1", "s2", "v1", "v2"} -> 3
                               [] OTHER -> 1]
SearchesOf ==
    [s \in Sources |-> CASE s = "reddit" -> <<"r1", "r2">>
                         [] s \in {"news", "web"} -> <<"s1", "s2">>
                         [] s = "youtube" -> <<"y1">>
                         [] OTHER -> <<>>]

Post == [when |-> "inside", short |-> FALSE, snippet |-> FALSE, page |-> FALSE]
Plain == Post
Hidden == [Post EXCEPT !.short = TRUE, !.page = TRUE]
Cleared == [Post EXCEPT !.when = "undated", !.short = TRUE, !.snippet = TRUE]
Old == [Post EXCEPT !.when = "outside"]
AllPosts == {Plain, Hidden, Cleared, Old}
PageOf == [p \in AllPosts |-> CASE p = Hidden -> "g1" [] p = Cleared -> "g2" [] OTHER -> "none"]
=============================================================================
