------------------------------ MODULE Onboarder ------------------------------
(***************************************************************************)
(* bp-onboarder (agents/bp-onboarder/onboarder.go): one request maps the   *)
(* brand's site, picks a budgeted spread of its pages, scrapes them one    *)
(* after the other and asks the model once for the brand's terms.          *)
(*                                                                         *)
(* The agent keeps nothing between requests.  Requests run beside each     *)
(* other, each on its own brand id, so the state is a function of the      *)
(* request.                                                                *)
(*                                                                         *)
(* A page is a path and a number; the same page twice in a map stands for  *)
(* the forms with and without the trailing slash.  A term is a word and    *)
(* the case it is written in; the empty word is all a blank term trims to. *)
(***************************************************************************)
EXTENDS Integers, Sequences, FiniteSets, FiniteSetsExt, SequencesExt

CONSTANTS
    Requests,      \* the onboardings asked for
    SiteMaps,      \* what Map may answer: sequences of pages
    Answers,       \* the keyword lists the model may answer
    DefaultPages,  \* defaultMaxPages
    MaxCredits     \* maxAnakinCredits

SkippedPaths ==
    {"/account", "/cart", "/checkout", "/login", "/register", "/policies",
     "/search", "/blogs/tagged"}

\* "/our-story" stands for every path that is none of the others.
Paths == SkippedPaths \cup {"/", "/products", "/collections", "/our-story"}
Page == [path : Paths, n : Nat]
Term == [word : STRING, upper : BOOLEAN]

ASSUME OnboarderAssumption ==
    /\ DefaultPages \in Nat \ {0}
    /\ MaxCredits \in Nat \ {0, 1}
    /\ SiteMaps \subseteq Seq(Page)
    /\ Answers \subseteq Seq(Term)

VARIABLE agent  \* [Requests -> where the request is, and what it has read]

HomePage == [path |-> "/", n |-> 0]

Kinds == <<"about", "product", "collection">>  \* the order the turns go in

Classify(page) ==
    CASE page.path \in SkippedPaths -> "skip"
      [] page.path = "/products" -> "product"
      [] page.path = "/collections" -> "collection"
      [] OTHER -> "about"

\* The wanted entries in the list's order, but none that is the same as one
\* before it.
FirstOfEach(list, wanted, same) ==
    FoldLeft(LAMBDA kept, x :
                 IF x \in wanted /\ \A i \in DOMAIN kept : <<kept[i], x>> \notin same
                 THEN Append(kept, x) ELSE kept,
             <<>>, list)

SamePage(links) == {<<page, page>> : page \in Range(links)}

\* The pages of one kind worth reading, each once and in the map's order.
Worth(links, kind) == {page \in Range(links) \ {HomePage} : Classify(page) = kind}
Bucket(links, kind) == FirstOfEach(links, Worth(links, kind), SamePage(links))

\* Mutant: the buckets one after the other, as a map lists them.
ProductsFirst(links) ==
    Bucket(links, "product") \o Bucket(links, "collection") \o Bucket(links, "about")

\* The buckets taken in turns: the first page of each, then the second of each.
\* A kind that has run out passes its turn, here as the homepage, which no
\* bucket has.
Turns(links) ==
    LET bucket == [k \in DOMAIN Kinds |-> Bucket(links, Kinds[k])]
        rounds == Max({Len(bucket[k]) : k \in DOMAIN Kinds})
        turn(n) == LET k == (n % Len(Kinds)) + 1
                       r == (n \div Len(Kinds)) + 1
                   IN  IF r <= Len(bucket[k]) THEN bucket[k][r] ELSE HomePage
        turns == [n \in 1..(rounds * Len(Kinds)) |-> turn(n - 1)]
    IN  FirstOfEach(turns, Range(turns) \ {HomePage}, {})

SelectPages(links, budget) ==
    LET turns == Turns(links)
    IN  <<HomePage>> \o SubSeq(turns, 1, Min({budget - 1, Len(turns)}))

\* Map costs one credit, so a page budget is at most the ceiling less one.
PageBudget(requested) ==
    Min({IF requested <= 0 THEN DefaultPages ELSE requested, MaxCredits - 1})

SameWord(terms) ==
    {pair \in Range(terms) \X Range(terms) : pair[1].word = pair[2].word}
NonBlank(terms) == {term \in Range(terms) : term.word # ""}
Distinct(terms) == FirstOfEach(terms, Range(terms), SameWord(terms))
Clean(terms) == FirstOfEach(terms, NonBlank(terms), SameWord(terms))

Idle ==
    [at |-> "idle", links |-> <<>>, todo |-> <<>>, tried |-> {},
     read |-> FALSE, keywords |-> <<>>]

OnboarderInit == agent = [r \in Requests |-> Idle]

\* The request reaches the agent: its website is never empty, NewClient succeeds.
Asked(r) == agent' = [agent EXCEPT ![r].at = "map"]

\* A task ends, completed with the profile's terms or failed.
Ended(how, keywords) == [Idle EXCEPT !.at = how, !.keywords = keywords]
Failed == Ended("failed", <<>>)

\* A failure of Map or of the model, the request's end among the causes, fails
\* the task.
HandleFails(r) ==
    /\ agent[r].at \in {"map", "chat"}
    /\ agent' = [agent EXCEPT ![r] = Failed]

\* What a request reads of a site; none asks for a budget of its own.
ToRead == [links \in SiteMaps |-> SelectPages(links, PageBudget(0))]

MapAnswers(r) ==
    /\ agent[r].at = "map"
    /\ \E links \in SiteMaps :
          agent' = [agent EXCEPT ![r] =
              IF links = <<>>
              THEN Failed
              ELSE [@ EXCEPT !.at = "scrape",
                             !.links = links,
                             !.todo = ToRead[links]]]

\* One page is scraped, or skipped when its scrape fails or reads nothing.
\* Once the last was tried, a site of which nothing was read fails the task.
ScrapePage(r) ==
    LET left == Tail(agent[r].todo)
        tried == agent[r].tried \cup {Head(agent[r].todo)}
    IN  /\ agent[r].at = "scrape"
        /\ \E answered \in BOOLEAN :
              LET read == agent[r].read \/ answered
              IN  agent' = [agent EXCEPT ![r] =
                      IF left = <<>> /\ ~read
                      THEN Failed
                      ELSE [@ EXCEPT !.todo = left,
                                     !.tried = tried,
                                     !.read = read,
                                     !.at = IF left = <<>> THEN "chat" ELSE "scrape"]]

ProfileFrom(answer) == Clean(answer)

\* The model answers once.  An empty list is refused before it is cleaned.
ModelAnswers(r) ==
    /\ agent[r].at = "chat"
    /\ \E answer \in Answers :
          agent' = [agent EXCEPT ![r] =
              IF answer = <<>> THEN Failed ELSE Ended("completed", ProfileFrom(answer))]

AgentStep(r) == HandleFails(r) \/ MapAnswers(r) \/ ScrapePage(r) \/ ModelAnswers(r)

(***************************************************************************)
(* Properties.                                                             *)
(***************************************************************************)

\* The pages of one request: those tried and those still to try.
Picked(r) == agent[r].tried \cup Range(agent[r].todo)

\* The selection is the spread its comment promises: the homepage among the
\* first, no page twice, none of the account or cart kind, and no kind ahead
\* of another by more than a page unless the other has run out
\* (selectPages, classify).
Spread(picked, links) ==
    LET of(kind) == {page \in picked \ {HomePage} : Classify(page) = kind}
    IN  /\ HomePage \in picked
        /\ of("skip") = {}
        /\ \A i, j \in DOMAIN Kinds :
              \/ Cardinality(of(Kinds[i])) <= Cardinality(of(Kinds[j])) + 1
              \/ of(Kinds[j]) = Worth(links, Kinds[j])

\* One onboarding never plans more calls than its ceiling pays for, whatever
\* the map lists, and reads no page twice: the pages it still means to scrape
\* are none of those it tried, and their selection is spread over the site
\* (pageBudget, selectPages, readSite).
PagesAreSpread ==
    \A r \in Requests : agent[r].at = "scrape" =>
        /\ Spread(Picked(r), agent[r].links)
        /\ Cardinality(Picked(r)) = Cardinality(agent[r].tried) + Len(agent[r].todo)
        /\ 1 + Cardinality(Picked(r)) <= MaxCredits

AgentTypeOK ==
    \A r \in Requests :
        /\ agent[r].at \in {"idle", "map", "scrape", "chat", "completed", "failed"}
        /\ agent[r].at = "scrape" => agent[r].todo # <<>>
        /\ agent[r].at = "chat" => agent[r].read /\ agent[r].todo = <<>>
        /\ agent[r].read => agent[r].tried # {}
=============================================================================
