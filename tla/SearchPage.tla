----------------------------- MODULE SearchPage -----------------------------
(***************************************************************************)
(* The browse page of euro-platform-front (AuctionsListComponent): a       *)
(* search runs for every ?q= and every click on apply or reset, the models *)
(* and trims on offer are fetched for the make and the model selected, and *)
(* no answer is compared with what was asked since.                        *)
(***************************************************************************)
EXTENDS Integers, FiniteSets

CONSTANTS
  MakeOptions, ModelOptions,
  OptionMake,    \* the make of each model
  Queries,       \* the texts searched for
  Others,        \* values of the filters that depend on nothing else
  MaxRequests,   \* a bound: requests of a behaviour
  Empty

ASSUME SearchAssumption ==
  /\ OptionMake \in [ModelOptions -> MakeOptions] /\ MaxRequests \in Nat
  /\ Empty \notin MakeOptions \union ModelOptions \union Queries \union Others

VARIABLES
  q,           \* the ?q= of the route
  selected,    \* searchText, selectedMake, selectedModel and the other filters
  offered,     \* the make whose models, and the model whose trims, are on offer
  results,     \* the filters auctions() answers
  loading,
  requests,    \* the requests under way, each with what it asks for and its rank
  rank,        \* how many requests were made (history)
  lastSearch,  \* the filters of the last search (history)
  answered,    \* the rank of the search results answers (history)
  mishap       \* what went wrong on the way (history)

searchVars == <<q, selected, offered, results, loading, requests, rank, lastSearch, answered, mishap>>

Slipped(what) == IF mishap = "none" THEN what ELSE mishap

NoFilters == [text |-> Empty, make |-> Empty, model |-> Empty, other |-> Empty]

Ask(kinds) ==
  /\ rank + Cardinality(kinds) <= MaxRequests
  /\ rank' = rank + Cardinality(kinds)
  /\ requests' = requests \union {[rank |-> rank', what |-> k] : k \in kinds}

\* runSearch: the filters as they are now.
Search(f) == [kind |-> "search", filters |-> f]

RunSearch(f) ==
  /\ Ask({Search(f)})
  /\ loading' = TRUE
  /\ lastSearch' = f

\* The effect on q runs once at the start.
SearchInit ==
  /\ q = Empty /\ selected = NoFilters
  /\ offered = [models |-> Empty, trims |-> Empty]
  /\ results = Empty /\ answered = 0
  /\ loading = TRUE
  /\ requests = {[rank |-> 1, what |-> Search(NoFilters)]} /\ rank = 1
  /\ lastSearch = NoFilters
  /\ mishap = "none"

\* A navigation to another ?q=, from the search bar of the page or the navbar.
Navigated(t) ==
  /\ t # q /\ q' = t
  /\ selected' = [selected EXCEPT !.text = t]
  /\ RunSearch(selected')
  /\ UNCHANGED <<offered, results, answered, mishap>>

SubmitSearch == Navigated(selected.text)
NavbarSearch == \E t \in Queries : Navigated(t)

TypeText(t) ==
  /\ selected' = [selected EXCEPT !.text = t] /\ selected' # selected
  /\ UNCHANGED <<q, offered, results, loading, requests, rank, lastSearch, answered, mishap>>

SetOther(v) ==
  /\ selected' = [selected EXCEPT !.other = v] /\ selected' # selected
  /\ UNCHANGED <<q, offered, results, loading, requests, rank, lastSearch, answered, mishap>>

\* A bug: the model chosen for the other make stays selected.
KeepModel(m) == [selected EXCEPT !.make = m]

\* onMakeChange.  Empty is the cleared dropdown; the models on offer stay until
\* those of the new make arrive.
MakeChosen(m) == [selected EXCEPT !.make = m, !.model = Empty]

OnMakeChange(m) ==
  /\ m # selected.make
  /\ selected' = MakeChosen(m)
  /\ offered' = [models |-> IF m = Empty THEN Empty ELSE offered.models, trims |-> Empty]
  /\ IF m = Empty THEN UNCHANGED <<requests, rank>> ELSE Ask({[kind |-> "models", of |-> m]})
  /\ UNCHANGED <<q, results, loading, lastSearch, answered, mishap>>

\* onModelChange, with one of the models on offer or the cleared dropdown.
OnModelChange(d) ==
  /\ d # selected.model
  /\ d \in {m \in ModelOptions : OptionMake[m] = offered.models} \union {Empty}
  /\ selected' = [selected EXCEPT !.model = d]
  /\ mishap' = IF d = Empty \/ selected.make = offered.models THEN mishap ELSE Slipped("chosenFromOldList")
  /\ IF Empty \in {d, selected.make}
       THEN offered' = [offered EXCEPT !.trims = Empty] /\ UNCHANGED <<requests, rank>>
       ELSE Ask({[kind |-> "trims", of |-> d]}) /\ UNCHANGED offered
  /\ UNCHANGED <<q, results, loading, lastSearch, answered>>

ApplyFilters ==
  /\ RunSearch(selected)
  /\ UNCHANGED <<q, selected, offered, results, answered, mishap>>

\* A bug: the options survive the reset.
OptionsKept == offered

\* resetFilters clears everything but the text.
OptionsReset == [models |-> Empty, trims |-> Empty]

ResetFilters ==
  /\ selected' = [NoFilters EXCEPT !.text = selected.text]
  /\ offered' = OptionsReset
  /\ RunSearch(selected')
  /\ UNCHANGED <<q, results, answered, mishap>>

\* A bug: an answer that comes once the page has stopped loading is dropped.
AnsweredOnce(r) == IF loading THEN r.what.filters ELSE results

\* Whatever was asked since.
ResultsOf(r) == r.what.filters

SearchAnswered(r) ==
  /\ r.what.kind = "search"
  /\ results' = ResultsOf(r) /\ loading' = FALSE /\ answered' = r.rank
  /\ mishap' = IF r.rank < answered THEN Slipped("overtaken") ELSE mishap
  /\ UNCHANGED offered

OptionsAnswered(r) ==
  /\ \/ /\ r.what.kind = "models"
        /\ offered' = [offered EXCEPT !.models = r.what.of]
        /\ mishap' = IF r.what.of = selected.make THEN mishap ELSE Slipped("late")
     \/ /\ r.what.kind = "trims"
        /\ offered' = [offered EXCEPT !.trims = r.what.of]
        /\ mishap' = IF r.what.of = selected.model THEN mishap ELSE Slipped("late")
  /\ UNCHANGED <<results, loading, answered>>

RequestAnswered(r) ==
  /\ requests' = requests \ {r}
  /\ SearchAnswered(r) \/ OptionsAnswered(r)
  /\ UNCHANGED <<q, selected, rank, lastSearch>>

\* No answer is asked for again, and none is missed: loading() stays as it is.
RequestFails(r) ==
  /\ requests' = requests \ {r}
  /\ mishap' = Slipped("failed")
  /\ UNCHANGED <<q, selected, offered, results, loading, rank, lastSearch, answered>>

\* A bound: a behaviour is followed until the first thing goes wrong.
SearchNext ==
  /\ mishap = "none"
  /\ \/ SubmitSearch \/ NavbarSearch \/ ApplyFilters \/ ResetFilters
     \/ \E t \in Queries : TypeText(t)
     \/ \E v \in Others : SetOther(v)
     \/ \E m \in MakeOptions \union {Empty} : OnMakeChange(m)
     \/ \E d \in ModelOptions \union {Empty} : OnModelChange(d)
     \/ \E r \in requests : RequestAnswered(r) \/ RequestFails(r)

-----------------------------------------------------------------------------
(* What the page promises                                                   *)

Waiting(kind) == \E r \in requests : r.what.kind = kind

\* Once no search is under way the results are those of the last search, and
\* the page has stopped loading, unless answers overtook each other or one
\* never came (runSearch).
ResultsAnswerTheLastSearch ==
  mishap = "none" /\ ~Waiting("search") => results = lastSearch /\ ~loading

\* Once no list is under way, the models on offer are those of the selected
\* make and the trims those of the selected model, and the model selected is
\* one of the make selected, unless a list arrived late or never, or a model
\* was chosen while the old list was still on offer.
OptionsFitTheSelection ==
  mishap = "none" =>
    /\ selected.model # Empty => OptionMake[selected.model] = selected.make
    /\ ~Waiting("models") => offered.models = selected.make
    /\ ~Waiting("models") /\ ~Waiting("trims") => offered.trims = selected.model
=============================================================================
