------------------------------- MODULE Adapters -------------------------------
(***************************************************************************)
(* One call of a collector: the adapter of one source                      *)
(* (internal/anakin/sources) walks its queries through one client, keeps   *)
(* what survives the closing filters (sources/mentions/mentions.go) and    *)
(* bp-collector makes a batch of it (agents/bp-collector/collector.go).    *)
(*                                                                         *)
(* Reddit, news and web ask one query per keyword; youtube asks a search   *)
(* per keyword and comments per video found; web then scrapes the pages of *)
(* short results; appstore and playstore scrape one listing.               *)
(***************************************************************************)
EXTENDS FetchClient, FiniteSets, Sequences

CONSTANTS
    Searches,    \* Searches[s]: the queries of the keywords, in their order
    Videos,      \* the keys of yt_comments
    Page,        \* Page[i]: the key of the page of the post i
    Listing,     \* the key of the listing
    Posts,       \* what upstream may return, records of:
                 \*   when, "inside" or "outside" the window, "undated" or
                 \*     "garbled", a date that does not parse;
                 \*   short, the snippet is below minSnippet; and
                 \*   snippet, page: whether this text has a negative keyword
    VideoLimit,  \* commentVideosPerQuery
    PageLimit    \* maxEnrichments

VARIABLES
    source,     \* CollectInput.Source
    handle,     \* Profile.SourceHandles has the source
    todo,       \* the calls the walk still has to make
    found,      \* drafts, of a post that two keywords brought there are two:
                \*   left, the calls the walk still had to make then (so the
                \*     draft of an earlier keyword has more), and post
    scraped,    \* the drafts whose text is their page now
    tried,      \* web: the drafts whose page was asked for, in their order
    problems,   \* problems is not empty
    stop,       \* ErrBudgetExceeded ended the walk
    batch,      \* the MentionBatch
    asked,      \* history: the queries that were answered and decoded
    given,      \* history: the posts of decoded answers
    missed      \* history: queries that were not answered or not decoded

walkVars == <<source, handle, todo, found, scraped, tried, problems, stop, batch>>
historyVars == <<asked, given, missed>>
vars == <<clientVars, walkVars, historyVars>>

Listings == {"appstore", "playstore"}
Sources == {"reddit", "news", "web", "youtube"} \cup Listings  \* Adapters

(* A scrape is no search: the operation is part of a key.                   *)
ASSUME AdaptersAssumption ==
    /\ Searches \in [Sources -> Seq(Keys)]
    /\ Videos \subseteq Keys
    /\ Listing \in Keys
    /\ Posts \subseteq [when : {"inside", "outside", "undated", "garbled"},
                       short : BOOLEAN, snippet : BOOLEAN, page : BOOLEAN]
    /\ \A p \in Posts : p.short => Page[p] \in Keys
    /\ \A p \in Posts, i \in DOMAIN Searches["web"] : Page[p] # Searches["web"][i]
    /\ VideoLimit \in Nat /\ PageLimit \in Nat

SearchKeys == {Searches[source][i] : i \in DOMAIN Searches[source]}
Drafts == [left : Nat, post : Posts]
NoBatch == [done |-> FALSE, mentions |-> {}, truncated |-> FALSE, errors |-> FALSE]

TypeOK ==
    /\ ClientTypeOK
    /\ source \in Sources
    /\ handle \in BOOLEAN
    /\ todo \in Seq(Keys)
    /\ scraped \subseteq found /\ found \subseteq Drafts
    /\ tried \in Seq(Drafts) /\ Len(tried) <= PageLimit
    /\ problems \in BOOLEAN /\ stop \in BOOLEAN
    /\ batch \in [done : BOOLEAN, mentions : SUBSET [post : Posts, scraped : BOOLEAN],
                  truncated : BOOLEAN, errors : BOOLEAN]
    /\ asked \subseteq Keys /\ missed \subseteq Keys
    /\ given \subseteq Posts

Init ==
    /\ ClientInit
    /\ source \in Sources
    /\ handle \in (IF source \in Listings THEN BOOLEAN ELSE {FALSE})
    /\ todo = IF source \notin Listings THEN Searches[source]
              ELSE IF handle THEN <<Listing>> ELSE <<>>
    /\ found = {} /\ scraped = {}
    /\ tried = <<>>
    /\ problems = (source \in Listings /\ ~ handle)
    /\ stop = FALSE
    /\ batch = NoBatch
    /\ asked = {} /\ given = {} /\ missed = {}

-----------------------------------------------------------------------------
(* The walk.                                                                *)

Ask ==
    /\ ~ batch.done /\ ~ stop /\ todo # <<>>
    /\ Start(Head(todo))
    /\ UNCHANGED <<walkVars, historyVars>>

(* The walk takes the client's result.                                      *)
Take(result) ==
    /\ call.state = result
    /\ Now("idle")
    /\ UNCHANGED <<spent, counted, memo, orphans, billed, lost>>
    /\ UNCHANGED <<source, handle, batch>>

(* Mutant: a keyword that fails is skipped without a word.                  *)
SkipFailed ==
    /\ Take("failed")
    /\ todo' = Tail(todo)
    /\ missed' = missed \cup {call.key}
    /\ UNCHANGED <<found, scraped, tried, problems, stop, asked, given>>

(* One bad keyword, video or page costs only its own results.               *)
TakeFailure ==
    /\ \/ Take("failed")
       \/ /\ Take("answered")  \* wire.Payload, scrape.Decode or json refuse it,
          /\ call.key \notin asked  \* but not if they read this memo before
    /\ todo' = Tail(todo)
    /\ problems' = TRUE
    /\ missed' = missed \cup {call.key}
    /\ UNCHANGED <<found, scraped, tried, stop, asked, given>>

(* Mutant: a ceiling loses what came before it.                             *)
TakeRefusalEmptyHanded ==
    /\ Take("refused")
    /\ stop' = TRUE
    /\ missed' = missed \cup {todo[i] : i \in DOMAIN todo}
    /\ todo' = <<>>
    /\ found' = {} /\ scraped' = {} /\ tried' = <<>>
    /\ UNCHANGED <<problems, asked, given>>

(* A budget ceiling is a stop, not a failure.  In a scrape of a listing it  *)
(* is an error like any other, and the walk was over anyway.                *)
TakeRefusal ==
    /\ Take("refused")
    /\ stop' = TRUE
    /\ missed' = missed \cup {todo[i] : i \in DOMAIN todo}
    /\ todo' = <<>>
    /\ UNCHANGED <<found, scraped, tried, problems, asked, given>>

Answered(P) ==
    /\ Take("answered")
    /\ asked' = asked \cup {call.key}
    /\ given' = given \cup P
    /\ UNCHANGED missed

(* Which of its keywords a draft came by is of interest only to web, which  *)
(* reads on in them; of the others a hash keeps one in the end.             *)
Turn == IF source = "web" THEN Len(todo) ELSE 0

(* toDraft makes the drafts of the posts D of P; each of the others is a    *)
(* problem of its own.  Nobody looks whether a post was found before.       *)
Draft(P, D, problem) ==
    /\ Answered(P)
    /\ found' = found \cup {[left |-> Turn, post |-> p] : p \in D}
    /\ problems' = (problems \/ P # D \/ problem)
    /\ todo' = Tail(todo)
    /\ UNCHANGED <<scraped, tried, stop>>

HaveDate(P) == {p \in P : p.when \in {"inside", "outside"}}

(* searchapi: a result without a date is dated to the end of the window.    *)
TakeResults ==
    /\ source \in {"news", "web"} /\ call.key \in SearchKeys
    /\ \E P \in SUBSET Posts : Draft(P, {p \in P : p.when # "garbled"}, FALSE)

(* rt_search: nothing left by the match filter is a problem.                *)
TakeRedditPosts ==
    /\ source = "reddit"
    /\ \E P \in SUBSET Posts, filtered \in BOOLEAN :
          /\ filtered => P = {}
          /\ Draft(P, HaveDate(P), filtered)

(* yt_comments: a relative date is counted back from the window's end.      *)
TakeComments ==
    /\ source = "youtube" /\ call.key \in Videos
    /\ \E P \in SUBSET Posts : Draft(P, HaveDate(P), FALSE)

(* A listing without reviews means that the page has changed, and a feed    *)
(* without entries that the handle or the URL is wrong.                     *)
TakeReviews ==
    /\ source = "playstore"
    /\ \E P \in SUBSET Posts : Draft(P, HaveDate(P), P = {})

TakeFeed ==
    /\ source = "appstore"
    /\ \E P \in SUBSET Posts : Draft(P, HaveDate(P), P = {})

(* yt_search: the comments of the first videos come next.                   *)
TakeVideos ==
    /\ source = "youtube" /\ call.key \in SearchKeys
    /\ Answered({})
    /\ \E n \in 0..VideoLimit : \E videos \in [1..n -> Videos] :
          todo' = videos \o Tail(todo)
    /\ UNCHANGED <<found, scraped, tried, problems, stop>>

(* The short drafts that enrich did not come to yet.                        *)
ToScrape == {d \in found : d.post.short /\ \A i \in DOMAIN tried : tried[i] # d}

(* web, enrich: when the searches are done, the short drafts are scraped in *)
(* the order of their keywords, PageLimit of them, whether or not another   *)
(* draft had the same page.  One keyword's are in the order upstream chose. *)
NextPage ==
    /\ source = "web" /\ call.state = "idle" /\ todo = <<>>
    /\ ~ stop /\ ~ batch.done
    /\ Len(tried) < PageLimit
    /\ \E d \in ToScrape :
          /\ \A e \in ToScrape : e.left <= d.left
          /\ tried' = Append(tried, d)
          /\ todo' = <<Page[d.post]>>
    /\ UNCHANGED <<clientVars, historyVars, source, handle, found, scraped,
                   problems, stop, batch>>

(* The page replaces the snippet of this draft alone, unless it has no      *)
(* markdown.                                                                *)
TakePage ==
    /\ source = "web" /\ call.key \notin SearchKeys
    /\ Answered({})
    /\ scraped' = scraped \cup {tried[Len(tried)]}
    /\ todo' = Tail(todo)
    /\ UNCHANGED <<found, tried, problems, stop>>

-----------------------------------------------------------------------------
(* The end.                                                                 *)

Text(d) == IF d \in scraped THEN d.post.page ELSE d.post.snippet

(* Mutant: negative keywords are looked for in the snippet.                 *)
KeptBySnippet == {d \in found : d.post.when # "outside" /\ ~ d.post.snippet}

(* mentions.Filter: inside the window, and without a negative keyword.      *)
Kept == {d \in found : d.post.when # "outside" /\ ~ Text(d)}

(* dedupe: of the drafts with the same text, the snippet or the page of a   *)
(* post, one is left.  MentionStore has the stored hashes.                  *)
Mentions == {[post |-> d.post, scraped |-> d \in scraped] : d \in Kept}

MorePages == source = "web" /\ Len(tried) < PageLimit /\ ToScrape # {}

(* Finalize, and Handle: what bp-collector does with the answer of Fetch.   *)
Finish ==
    /\ ~ batch.done /\ call.state = "idle"
    /\ todo = <<>>
    /\ stop \/ ~ MorePages
    /\ batch' = [done |-> TRUE, mentions |-> Mentions, truncated |-> stop,
                 errors |-> problems \/ stop]
    /\ UNCHANGED <<clientVars, historyVars, source, handle, todo, found, scraped,
                   tried, problems, stop>>

Walk == Ask \/ TakeFailure \/ TakeRefusal
        \/ TakeResults \/ TakeRedditPosts \/ TakeVideos \/ TakeComments
        \/ TakeReviews \/ TakeFeed
        \/ NextPage \/ TakePage \/ Finish

Next ==
    \/ Walk
    \/ ClientStep /\ UNCHANGED <<walkVars, historyVars>>
    \/ Upstream /\ UNCHANGED <<walkVars, historyVars>>

(* Every request has a timeout and every wait an end, so the walk goes on;  *)
(* what upstream does is up to it.                                          *)
Fairness == WF_vars(Walk) /\ WF_vars(ClientStep /\ UNCHANGED <<walkVars, historyVars>>)

Spec == Init /\ [][Next]_vars /\ Fairness

-----------------------------------------------------------------------------
(* Properties.                                                              *)

InWindow(p) == p.when = "inside" \/ (p.when = "undated" /\ source \in {"news", "web"})

(* sources/registry.go: a source that hit the ceiling halfway still hands   *)
(* back the half it paid for.  Whatever else fails before or after, a post  *)
(* of an answer, in the window and free of negative keywords in snippet and *)
(* page, is in the batch.                                                   *)
PaidForIsHandedOver ==
    batch.done =>
        \A p \in given : InWindow(p) /\ ~ p.snippet /\ ~ p.page =>
            \E m \in batch.mentions : m.post = p

(* The only draft whose page this is.                                       *)
Alone(d) ==
    /\ d.post.short
    /\ \A e \in found : e.post.short /\ Page[e.post] = Page[d.post] => e = d

(* sources/web/web.go: bodies are filled in before the filters run, so a    *)
(* page whose snippet hid a negative keyword is still caught: a fetched     *)
(* page that one draft has is what decides on it, for it and against it.    *)
(* Two keywords that bring the same page make two drafts, of which one may  *)
(* keep its snippet.  A short snippet is handed over only if the walk was   *)
(* stopped, a scrape of its page failed or maxEnrichments were made.        *)
PageDecides ==
    source = "web" /\ batch.done =>
        /\ \A d \in found : Alone(d) /\ Page[d.post] \in asked /\ InWindow(d.post) =>
              {m \in batch.mentions : m.post = d.post} =
                  IF d.post.page THEN {} ELSE {[post |-> d.post, scraped |-> TRUE]}
        /\ \A m \in batch.mentions : m.post.short /\ ~ m.scraped =>
              \/ batch.truncated
              \/ Page[m.post] \in missed
              \/ Len(tried) = PageLimit

(* A batch without an error and not truncated is the whole of what there is *)
(* to know: every keyword, or the listing, was asked and answered.          *)
SilenceMeansComplete ==
    batch.done /\ ~ batch.errors =>
        /\ missed = {} /\ ~ batch.truncated
        /\ IF source \in Listings THEN Listing \in asked ELSE SearchKeys \subseteq asked

(* A collector answers, whatever upstream does.                             *)
FetchReturns == <>batch.done

=============================================================================
