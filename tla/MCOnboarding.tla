---------------------------- MODULE MCOnboarding ----------------------------
EXTENDS Onboarding

PageOf(path, n) == [path |-> path, n |-> n]
Word(word, upper) == [word |-> word, upper |-> upper]

Blank == Word("", FALSE)
Acme == Word("acme", TRUE)
acme == Word("acme", FALSE)
Soap == Word("soap", FALSE)

\* A site that lists its products first, repeats a page and has no collection;
\* and a map without links.
Shop ==
    <<PageOf("/products", 1), PageOf("/products", 2), PageOf("/products", 3),
      PageOf("/", 0), PageOf("/cart", 1), PageOf("/products", 1), PageOf("/our-story", 1)>>

AllMaps == {Shop, <<>>}
AllAnswers == {<<>>, <<acme, Soap, Acme>>}
AllTyped == {<<Acme, Blank, acme>>}
=============================================================================
