-------------------------- MODULE FrontPagesProofs --------------------------
(***************************************************************************)
(* Proofs about the browse page, the create-ad wizard and the homepage of  *)
(* FrontPages, for any makes, models, texts, specifications, photos,       *)
(* auctions and number of requests.                                        *)
(***************************************************************************)
EXTENDS FrontPages, FiniteSetTheorems, SequenceTheorems, TLAPS

-----------------------------------------------------------------------------
(* The browse page                                                          *)

Filters == [text : Queries \union {Empty}, make : MakeOptions \union {Empty},
            model : ModelOptions \union {Empty}, other : Others \union {Empty}]

Asking(r, kind, of) == r.what.kind = kind /\ r.what.of = of

\* Every request names what it asks for, and no two have the same rank.
RequestsTyped ==
  /\ rank \in Nat
  /\ \A r \in requests :
       /\ r.rank \in Nat /\ r.rank <= rank
       /\ r.what.kind = "models" => r.what.of \in MakeOptions
       /\ r.what.kind = "trims" => r.what.of \in ModelOptions
  /\ \A r, s \in requests : r.rank = s.rank => r = s

SearchTyped ==
  /\ q \in Queries \union {Empty}
  /\ selected \in Filters
  /\ offered \in [models : MakeOptions \union {Empty}, trims : ModelOptions \union {Empty}]
  /\ RequestsTyped
  /\ answered \in Nat /\ answered <= rank

\* What is on offer fits the selection, or the list that will is on its way.
OptionsOnTheirWay ==
  /\ selected.model # Empty => OptionMake[selected.model] = selected.make
  /\ offered.models = selected.make \/ \E r \in requests : Asking(r, "models", selected.make)
  /\ offered.trims = selected.model \/ \E r \in requests : Asking(r, "trims", selected.model)

\* The last search is under way and nothing later was answered, or it was the
\* last to be answered and what is still under way is older.
LastSearchCounts ==
  \/ \E r \in requests :
       /\ r.what = Search(lastSearch) /\ answered < r.rank
       /\ \A s \in requests : s.what.kind = "search" => s.rank <= r.rank
  \/ /\ results = lastSearch /\ ~loading
     /\ \A s \in requests : s.what.kind = "search" => s.rank < answered

SearchInv ==
  /\ SearchTyped
  /\ mishap = "none" => OptionsOnTheirWay /\ LastSearchCounts

-----------------------------------------------------------------------------
(* Requests                                                                 *)

\* A request takes the next rank.
LEMMA AskOne ==
  ASSUME RequestsTyped, NEW k, Ask({k}),
         k.kind = "models" => k.of \in MakeOptions,
         k.kind = "trims" => k.of \in ModelOptions
  PROVE  /\ RequestsTyped' /\ rank' = rank + 1
         /\ requests' = requests \union {[rank |-> rank + 1, what |-> k]}
         /\ \A r \in requests : r.rank < rank + 1
<1>1. Cardinality({k}) = 1
  BY FS_Singleton
<1>2. rank' = rank + 1 /\ requests' = requests \union {[rank |-> rank', what |-> k]}
  BY <1>1 DEF Ask
<1> QED
  BY <1>2 DEF RequestsTyped

\* One that is answered or fails leaves the others as they are.
LEMMA OneLess ==
  ASSUME RequestsTyped, NEW r \in requests, requests' = requests \ {r}, rank' = rank
  PROVE  RequestsTyped'
BY DEF RequestsTyped

\* A browse page that was just opened satisfies the invariant.
LEMMA SearchInitRight == SearchInit => SearchInv
BY SearchAssumption DEF SearchInit, SearchInv, SearchTyped, RequestsTyped, OptionsOnTheirWay, LastSearchCounts,
   Filters, NoFilters, Search

\* A search counts from the moment it is asked.
LEMMA RunSearchCounts ==
  ASSUME SearchTyped, NEW f, RunSearch(f), UNCHANGED answered
  PROVE  RequestsTyped' /\ LastSearchCounts' /\ requests \subseteq requests' /\ rank' = rank + 1
<1> DEFINE k == Search(f)
           r == [rank |-> rank + 1, what |-> k]
<1>1. k.kind = "search" /\ Ask({k}) /\ lastSearch' = f
  BY DEF Search, RunSearch
<1>2. RequestsTyped' /\ rank' = rank + 1 /\ requests' = requests \union {r} /\ \A s \in requests : s.rank < rank + 1
  BY <1>1, AskOne DEF SearchTyped
<1>3. r \in requests' /\ r.what = Search(lastSearch') /\ answered' < r.rank
      /\ \A s \in requests' : s.rank <= r.rank
  BY <1>1, <1>2 DEF SearchTyped, RequestsTyped
<1> QED
  BY <1>2, <1>3 DEF LastSearchCounts, Search

-----------------------------------------------------------------------------
(* One lemma per action                                                     *)

\* What is on offer is still on its way when more is asked for.
LEMMA StillOnTheirWay ==
  ASSUME OptionsOnTheirWay, requests \subseteq requests', UNCHANGED offered,
         selected'.make = selected.make, selected'.model = selected.model
  PROVE  OptionsOnTheirWay'
BY DEF OptionsOnTheirWay, Asking

\* The last search counts as before when only lists are asked for.
LEMMA StillCounts ==
  ASSUME LastSearchCounts, UNCHANGED <<results, loading, lastSearch, answered>>,
         NEW r, requests' = requests \union {r}, r.what.kind # "search"
  PROVE  LastSearchCounts'
BY DEF LastSearchCounts

\* The navigation by ?q= (the effect of the constructor) keeps it.
LEMMA NavigatedRight ==
  ASSUME SearchInv, mishap = "none", NEW t \in Queries \union {Empty}, Navigated(t)
  PROVE  SearchInv'
<1>1. SearchTyped /\ OptionsOnTheirWay /\ mishap' = "none"
  BY DEF SearchInv, Navigated
<1>2. PICK f : f = selected'
  OBVIOUS
<1>3. RunSearch(f) /\ UNCHANGED answered
  BY <1>2 DEF Navigated
<1>4. RequestsTyped' /\ LastSearchCounts'
  BY <1>1, <1>3, RunSearchCounts
<1>5. requests \subseteq requests' /\ rank' = rank + 1
  BY <1>1, <1>3, RunSearchCounts
<1>6. selected' \in Filters /\ selected'.make = selected.make /\ selected'.model = selected.model
  BY <1>1 DEF Navigated, SearchTyped, Filters
<1>7. OptionsOnTheirWay'
  BY <1>1, <1>5, <1>6, StillOnTheirWay DEF Navigated
<1>8. SearchTyped'
  BY <1>1, <1>4, <1>5, <1>6 DEF SearchTyped, RequestsTyped, Navigated
<1> QED
  BY <1>4, <1>7, <1>8 DEF SearchInv

\* Applying the filters (applyFilters) keeps it.
LEMMA ApplyRight ==
  ASSUME SearchInv, mishap = "none", ApplyFilters
  PROVE  SearchInv'
<1>1. SearchTyped /\ OptionsOnTheirWay /\ RunSearch(selected) /\ UNCHANGED answered
  BY DEF SearchInv, ApplyFilters
<1>2. RequestsTyped' /\ LastSearchCounts' /\ requests \subseteq requests' /\ rank' = rank + 1
  <2>1. PICK f : f = selected
    OBVIOUS
  <2> QED
    BY <1>1, <2>1, RunSearchCounts
<1>4. OptionsOnTheirWay'
  BY <1>1, <1>2, StillOnTheirWay DEF ApplyFilters
<1>5. SearchTyped'
  BY <1>1, <1>2 DEF SearchTyped, RequestsTyped, ApplyFilters
<1> QED
  BY <1>2, <1>4, <1>5 DEF SearchInv

\* Resetting the filters (resetFilters) keeps it.
LEMMA ResetRight ==
  ASSUME SearchInv, mishap = "none", ResetFilters
  PROVE  SearchInv'
<1>1. SearchTyped
  BY DEF SearchInv
<1>2. PICK f : f = selected'
  OBVIOUS
<1>3. RunSearch(f) /\ UNCHANGED answered
  BY <1>2 DEF ResetFilters
<1>4. RequestsTyped' /\ LastSearchCounts'
  BY <1>1, <1>3, RunSearchCounts
<1>5. rank' = rank + 1
  BY <1>1, <1>3, RunSearchCounts
<1>6. selected' \in Filters /\ selected'.make = Empty /\ selected'.model = Empty
  BY <1>1 DEF ResetFilters, NoFilters, SearchTyped, Filters
<1>7. OptionsOnTheirWay'
  BY <1>6 DEF ResetFilters, OptionsReset, OptionsOnTheirWay
<1>8. SearchTyped'
  BY <1>1, <1>4, <1>5, <1>6 DEF SearchTyped, RequestsTyped, ResetFilters, OptionsReset
<1> QED
  BY <1>4, <1>7, <1>8 DEF SearchInv

\* Filling in a field that asks for nothing keeps it.
LEMMA FieldRight ==
  ASSUME SearchInv, mishap = "none",
         \/ \E t \in Queries : TypeText(t)
         \/ \E v \in Others : SetOther(v)
  PROVE  SearchInv'
<1>1. SearchTyped /\ OptionsOnTheirWay /\ LastSearchCounts
  BY DEF SearchInv
<1>2. /\ selected' \in Filters /\ selected'.make = selected.make /\ selected'.model = selected.model
      /\ UNCHANGED <<q, offered, results, loading, requests, rank, lastSearch, answered, mishap>>
  <2>1. CASE \E t \in Queries : TypeText(t)
    BY <1>1, <2>1 DEF TypeText, SearchTyped, Filters
  <2>2. CASE \E v \in Others : SetOther(v)
    BY <1>1, <2>2 DEF SetOther, SearchTyped, Filters
  <2> QED
    BY <2>1, <2>2
<1>3. SearchTyped' /\ LastSearchCounts'
  BY <1>1, <1>2 DEF SearchTyped, RequestsTyped, LastSearchCounts
<1>4. OptionsOnTheirWay'
  BY <1>1, <1>2, StillOnTheirWay
<1> QED
  BY <1>3, <1>4 DEF SearchInv

\* Choosing a make, or none (onMakeChange), keeps it.
LEMMA MakeRight ==
  ASSUME SearchInv, mishap = "none", NEW m \in MakeOptions \union {Empty}, OnMakeChange(m)
  PROVE  SearchInv'
<1>1. SearchTyped /\ LastSearchCounts /\ UNCHANGED <<q, results, loading, lastSearch, answered, mishap>>
  BY DEF SearchInv, OnMakeChange
<1>2. /\ selected' \in Filters /\ selected'.make = m /\ selected'.model = Empty
      /\ offered' \in [models : MakeOptions \union {Empty}, trims : ModelOptions \union {Empty}]
      /\ offered'.trims = Empty /\ (m = Empty => offered'.models = Empty)
  BY <1>1 DEF OnMakeChange, MakeChosen, SearchTyped, Filters
<1>3. CASE m = Empty
  <2>1. UNCHANGED <<requests, rank>>
    BY <1>3 DEF OnMakeChange
  <2>2. SearchTyped' /\ LastSearchCounts'
    BY <1>1, <1>2, <2>1 DEF SearchTyped, RequestsTyped, LastSearchCounts
  <2>3. OptionsOnTheirWay'
    BY <1>2, <1>3 DEF OptionsOnTheirWay
  <2> QED
    BY <2>2, <2>3 DEF SearchInv
<1>4. CASE m # Empty
  <2> DEFINE k == [kind |-> "models", of |-> m]
             r == [rank |-> rank + 1, what |-> k]
  <2>1. Ask({k}) /\ m \in MakeOptions
    BY <1>4 DEF OnMakeChange
  <2>2. RequestsTyped' /\ requests' = requests \union {r} /\ rank' = rank + 1
    BY <1>1, <2>1, AskOne, FS_Singleton DEF SearchTyped, Ask
  <2>3. LastSearchCounts'
    BY <1>1, <2>2, StillCounts
  <2>4. OptionsOnTheirWay'
    <3>1. r \in requests' /\ Asking(r, "models", selected'.make)
      BY <1>2, <2>2 DEF Asking
    <3> QED
      BY <1>2, <3>1 DEF OptionsOnTheirWay, Asking
  <2>5. SearchTyped'
    BY <1>1, <1>2, <2>2 DEF SearchTyped, RequestsTyped
  <2> QED
    BY <2>3, <2>4, <2>5 DEF SearchInv
<1> QED
  BY <1>3, <1>4

\* Choosing a model, or none (onModelChange), keeps it.
LEMMA ModelRight ==
  ASSUME SearchInv, mishap = "none", NEW d \in ModelOptions \union {Empty}, OnModelChange(d)
  PROVE  SearchInv'
<1> DEFINE k == [kind |-> "trims", of |-> d]
           r == [rank |-> rank + 1, what |-> k]
<1>1. /\ SearchTyped /\ OptionsOnTheirWay /\ LastSearchCounts
      /\ UNCHANGED <<q, results, loading, lastSearch, answered>>
      /\ d # Empty => d \in ModelOptions /\ OptionMake[d] = offered.models
  BY DEF SearchInv, OnModelChange
<1>2. selected' \in Filters /\ selected'.make = selected.make /\ selected'.model = d
  BY <1>1 DEF OnModelChange, SearchTyped, Filters
<1>3. CASE d # Empty /\ selected.make = Empty
  <2>1. /\ offered' = [offered EXCEPT !.trims = Empty] /\ UNCHANGED <<requests, rank>>
        /\ mishap' = "chosenFromOldList"
    BY <1>1, <1>3, SearchAssumption DEF OnModelChange, Slipped
  <2>2. SearchTyped'
    BY <1>1, <1>2, <2>1 DEF SearchTyped, RequestsTyped
  <2> QED
    BY <2>1, <2>2 DEF SearchInv
<1>4. CASE d # Empty /\ selected.make # Empty
  <2>1. Ask({k}) /\ UNCHANGED offered /\ d \in ModelOptions
    BY <1>1, <1>4 DEF OnModelChange
  <2>2. RequestsTyped' /\ requests' = requests \union {r} /\ rank' = rank + 1
    BY <1>1, <2>1, AskOne, FS_Singleton DEF SearchTyped, Ask
  <2>3. SearchTyped'
    BY <1>1, <1>2, <2>1, <2>2 DEF SearchTyped, RequestsTyped
  <2>4. LastSearchCounts'
    BY <1>1, <2>2, StillCounts
  <2>5. mishap' = "none" => OptionsOnTheirWay'
    <3>1. SUFFICES ASSUME mishap' = "none" PROVE OptionsOnTheirWay'
      OBVIOUS
    <3>2. selected.make = offered.models
      BY <1>4, <3>1 DEF OnModelChange, Slipped
    <3>3. r \in requests' /\ Asking(r, "trims", selected'.model)
      BY <1>2, <2>2 DEF Asking
    <3> QED
      BY <1>1, <1>2, <2>1, <3>2, <3>3 DEF OptionsOnTheirWay
  <2> QED
    BY <2>3, <2>4, <2>5 DEF SearchInv
<1>5. CASE d = Empty
  <2>1. /\ offered' = [offered EXCEPT !.trims = Empty] /\ UNCHANGED <<requests, rank, mishap>>
    BY <1>5 DEF OnModelChange
  <2>2. SearchTyped' /\ LastSearchCounts'
    BY <1>1, <1>2, <2>1 DEF SearchTyped, RequestsTyped, LastSearchCounts
  <2>3. OptionsOnTheirWay'
    BY <1>1, <1>2, <1>5, <2>1 DEF OptionsOnTheirWay, SearchTyped
  <2> QED
    BY <2>2, <2>3 DEF SearchInv
<1> QED
  BY <1>3, <1>4, <1>5

\* A request that fails keeps it, as a mishap.
LEMMA FailsRight ==
  ASSUME SearchInv, mishap = "none", NEW r \in requests, RequestFails(r)
  PROVE  SearchInv'
<1>1. mishap' = "failed" /\ SearchTyped
  BY DEF SearchInv, RequestFails, Slipped
<1>2. RequestsTyped'
  BY <1>1, OneLess DEF RequestFails, SearchTyped
<1>3. SearchTyped'
  BY <1>1, <1>2 DEF SearchTyped, RequestFails
<1> QED
  BY <1>1, <1>3 DEF SearchInv

\* An answered search is the last one, or an older one the last will overwrite.
LEMMA SearchAnsweredRight ==
  ASSUME SearchInv, mishap = "none", NEW r \in requests, RequestAnswered(r), SearchAnswered(r)
  PROVE  SearchInv'
<1>1. /\ SearchTyped /\ OptionsOnTheirWay /\ LastSearchCounts
      /\ requests' = requests \ {r} /\ UNCHANGED <<q, selected, rank, lastSearch, offered>>
      /\ results' = r.what.filters /\ loading' = FALSE /\ answered' = r.rank
      /\ r.what.kind = "search"
  BY DEF SearchInv, RequestAnswered, SearchAnswered, ResultsOf
<1>2. RequestsTyped'
  BY <1>1, OneLess DEF SearchTyped
<1>3. SearchTyped'
  BY <1>1, <1>2 DEF SearchTyped, RequestsTyped
<1>4. OptionsOnTheirWay'
  BY <1>1 DEF OptionsOnTheirWay, Asking
<1>5. mishap' = "none" => LastSearchCounts'
  <2>1. SUFFICES ASSUME mishap' = "none" PROVE LastSearchCounts'
    OBVIOUS
  <2>2. ~(r.rank < answered)
    BY <2>1 DEF SearchAnswered, Slipped
  <2>3. PICK s \in requests : /\ s.what = Search(lastSearch) /\ answered < s.rank
                              /\ \A u \in requests : u.what.kind = "search" => u.rank <= s.rank
    BY <1>1, <2>2 DEF LastSearchCounts
  <2>4. CASE r = s
    <3>1. results' = lastSearch'
      BY <1>1, <2>3, <2>4 DEF Search
    <3>2. \A u \in requests' : u.what.kind = "search" => u.rank < answered'
      BY <1>1, <2>3, <2>4 DEF SearchTyped, RequestsTyped
    <3> QED
      BY <1>1, <3>1, <3>2 DEF LastSearchCounts
  <2>5. CASE r # s
    <3>1. s \in requests' /\ answered' < s.rank
      BY <1>1, <2>3, <2>5 DEF SearchTyped, RequestsTyped
    <3>2. s.what = Search(lastSearch')
      BY <1>1, <2>3 DEF Search
    <3> QED
      BY <1>1, <2>3, <3>1, <3>2 DEF LastSearchCounts, Search
  <2> QED
    BY <2>4, <2>5
<1> QED
  BY <1>3, <1>4, <1>5 DEF SearchInv

\* A list that arrives fits the selection, or it is late.
LEMMA OptionsAnsweredRight ==
  ASSUME SearchInv, mishap = "none", NEW r \in requests, RequestAnswered(r), OptionsAnswered(r)
  PROVE  SearchInv'
<1>1. /\ SearchTyped /\ OptionsOnTheirWay /\ LastSearchCounts
      /\ requests' = requests \ {r} /\ UNCHANGED <<q, selected, rank, lastSearch, results, loading, answered>>
      /\ r.what.kind \in {"models", "trims"}
  BY DEF SearchInv, RequestAnswered, OptionsAnswered
<1>2. RequestsTyped'
  BY <1>1, OneLess DEF SearchTyped
<1>3. LastSearchCounts'
  BY <1>1 DEF LastSearchCounts, Search
<1>4. CASE /\ r.what.kind = "models"
           /\ offered' = [offered EXCEPT !.models = r.what.of]
           /\ mishap' = IF r.what.of = selected.make THEN mishap ELSE Slipped("late")
  <2>1. SearchTyped'
    BY <1>1, <1>2, <1>4 DEF SearchTyped, RequestsTyped
  <2>2. mishap' = "none" => OptionsOnTheirWay'
    BY <1>1, <1>4 DEF OptionsOnTheirWay, Asking, Slipped, SearchTyped
  <2> QED
    BY <1>3, <2>1, <2>2 DEF SearchInv
<1>5. CASE /\ r.what.kind = "trims"
           /\ offered' = [offered EXCEPT !.trims = r.what.of]
           /\ mishap' = IF r.what.of = selected.model THEN mishap ELSE Slipped("late")
  <2>1. SearchTyped'
    BY <1>1, <1>2, <1>5 DEF SearchTyped, RequestsTyped
  <2>2. mishap' = "none" => OptionsOnTheirWay'
    BY <1>1, <1>5 DEF OptionsOnTheirWay, Asking, Slipped, SearchTyped
  <2> QED
    BY <1>3, <2>1, <2>2 DEF SearchInv
<1> QED
  BY <1>4, <1>5 DEF OptionsAnswered

-----------------------------------------------------------------------------
(* The theorems                                                             *)

\* The invariant of the browse page is inductive.
LEMMA StepKeepsSearchInv == SearchInv /\ SearchNext => SearchInv'
<1>1. SUFFICES ASSUME SearchInv, SearchNext PROVE SearchInv'
  OBVIOUS
<1>2. mishap = "none" /\ SearchTyped
  BY <1>1 DEF SearchNext, SearchInv
<1>3. CASE SubmitSearch
  <2>1. PICK t : t = selected.text
    OBVIOUS
  <2>2. t \in Queries \union {Empty} /\ Navigated(t)
    BY <1>2, <1>3, <2>1 DEF SearchTyped, Filters, SubmitSearch
  <2> QED
    BY <1>1, <1>2, <2>2, NavigatedRight
<1>4. CASE NavbarSearch
  BY <1>1, <1>2, <1>4, NavigatedRight DEF NavbarSearch
<1>5. CASE ApplyFilters
  BY <1>1, <1>2, <1>5, ApplyRight
<1>6. CASE ResetFilters
  BY <1>1, <1>2, <1>6, ResetRight
<1>7. CASE (\E t \in Queries : TypeText(t)) \/ (\E v \in Others : SetOther(v))
  BY <1>1, <1>2, <1>7, FieldRight
<1>8. CASE \E m \in MakeOptions \union {Empty} : OnMakeChange(m)
  BY <1>1, <1>2, <1>8, MakeRight
<1>9. CASE \E d \in ModelOptions \union {Empty} : OnModelChange(d)
  BY <1>1, <1>2, <1>9, ModelRight
<1>10. ASSUME NEW r \in requests, RequestAnswered(r) \/ RequestFails(r) PROVE SearchInv'
  <2>1. CASE RequestFails(r)
    BY <1>1, <1>2, <2>1, FailsRight
  <2>2. CASE RequestAnswered(r) /\ SearchAnswered(r)
    BY <1>1, <1>2, <2>2, SearchAnsweredRight
  <2>3. CASE RequestAnswered(r) /\ OptionsAnswered(r)
    BY <1>1, <1>2, <2>3, OptionsAnsweredRight
  <2> QED
    BY <1>10, <2>1, <2>2, <2>3 DEF RequestAnswered
<1> QED
  BY <1>1, <1>3, <1>4, <1>5, <1>6, <1>7, <1>8, <1>9, <1>10 DEF SearchNext

\* SearchInv holds all along: the other pages leave the state of this one alone.
LEMMA SearchInvariant == FrontSpec => []SearchInv
<1>1. FrontInit => SearchInv
  BY SearchInitRight DEF FrontInit
<1>2. SearchInv /\ [FrontNext]_frontVars => SearchInv'
  <2>1. SUFFICES ASSUME SearchInv, [FrontNext]_frontVars PROVE SearchInv'
    OBVIOUS
  <2>2. CASE SearchNext
    BY <2>1, <2>2, StepKeepsSearchInv
  <2>3. CASE UNCHANGED searchVars
    BY <2>1, <2>3 DEF searchVars, SearchInv, SearchTyped, RequestsTyped, OptionsOnTheirWay, LastSearchCounts, Asking
  <2> QED
    BY <2>1, <2>2, <2>3 DEF FrontNext, frontVars
<1> QED
  BY <1>1, <1>2, PTL DEF FrontSpec

\* The browse page (runSearch): once no search is under way, the results shown
\* answer the last search and the page has stopped loading, as long as no
\* answer overtook another or was lost.
THEOREM ResultsCorrect == FrontSpec => []ResultsAnswerTheLastSearch
<1>1. SearchInv => ResultsAnswerTheLastSearch
  BY DEF SearchInv, LastSearchCounts, ResultsAnswerTheLastSearch, Waiting, Search
<1> QED
  BY <1>1, SearchInvariant, PTL

\* The browse page (onMakeChange, onModelChange, resetFilters): once no list is
\* under way, the models and trims on offer fit the make and model selected,
\* and the two fit each other, as long as no list was late or lost.
THEOREM OptionsCorrect == FrontSpec => []OptionsFitTheSelection
<1>1. SearchInv => OptionsFitTheSelection
  BY DEF SearchInv, OptionsOnTheirWay, OptionsFitTheSelection, Waiting, Asking
<1> QED
  BY <1>1, SearchInvariant, PTL

-----------------------------------------------------------------------------
(* The vehicle fields of the wizard                                         *)

Form == [make : Makes \union {Typed, Nothing}, model : Models \union {Typed, Nothing},
         modelOn : BOOLEAN, fuel : Fuels \union {Nothing}, trim : Trims \union {Typed, Nothing},
         spec : Specs \union {Nothing}, prefill : Specs \union {Nothing},
         origin : {"form", "seller", "ad"},
         models : SUBSET Models, trims : SUBSET Trims, filtered : SUBSET Trims]

AskOf == [kind : {"models", "trims", "vin"}, make : Makes \union {Typed, Nothing},
          model : Models \union {Typed, Nothing}]

FormTyped ==
  /\ form \in Form
  /\ asks \subseteq AskOf
  /\ loadingAd \in {Nothing, "ad", "models", "trims"}
  /\ {fresh, misled} \subseteq BOOLEAN
  /\ route = "ads/:id" => saved \in SavedAds

\* What was picked fits.
PicksFit ==
  /\ form.model \in Models => MakeOf[form.model] = form.make
  /\ form.trim \in Trims => ModelOf[form.trim] = form.model /\ Offers(form.trim, form.fuel)

\* The finitions on offer have an engine for the fuel, whatever model they are of.
OffersFit(f) == f.filtered \subseteq {t \in Trims : Offers(t, f.fuel)}

\* A figure of the form's own still counts as such, and is that of the finition.
FiguresRight(f) ==
  f.origin = "form" =>
    /\ StillPrefilled(f)
    /\ f.trim \in Trims => f.spec = SpecOf(f.trim, f.fuel)

\* A load in progress has set the make, then the model and nothing below it.
LoadGoesOn ==
  /\ loadingAd \in {"models", "trims"} => form.make = AdMake
  /\ loadingAd = "trims" => form.model = AdModel

FormInv ==
  /\ FormTyped
  /\ OffersFit(form) /\ FiguresRight(form)
  /\ fresh => loadingAd = Nothing
  /\ ~misled => LoadGoesOn /\ (loadingAd # "models" => PicksFit)
  /\ LoadShowsTheAd

-----------------------------------------------------------------------------
(* The listeners                                                            *)

\* Nothing below the fuel type is selected, and no figure is there.
Cleared(g) == g.trim = Nothing /\ g.spec = Nothing /\ g.origin = "form"

\* Then the figures are right.
LEMMA ClearedRight ==
  ASSUME NEW g, Cleared(g)
  PROVE  FiguresRight(g)
  BY AdFormAssumption DEF Cleared, FiguresRight, StillPrefilled

\* A new fuel type clears what depends on it and filters the finitions.
LEMMA FuelSetForm ==
  ASSUME NEW f \in Form, NEW fuel \in Fuels \union {Nothing}
  PROVE  LET g == FuelSet(f, fuel) IN
         /\ g \in Form /\ g.fuel = fuel /\ Cleared(g) /\ OffersFit(g)
         /\ g.make = f.make /\ g.model = f.model /\ g.models = f.models /\ g.trims = f.trims
         /\ fuel = Nothing => g.filtered = {}
<1> DEFINE on == IF fuel = Nothing THEN {} ELSE {t \in f.trims : Offers(t, fuel)}
           g == FuelSet(f, fuel)
<1>1. /\ on \subseteq {t \in Trims : Offers(t, fuel)} /\ on \in SUBSET Trims
      /\ fuel = Nothing => on = {}
  BY DEF Form
<1>2. g = [f EXCEPT !.fuel = fuel, !.trim = Nothing, !.spec = Nothing, !.origin = "form",
                    !.filtered = on]
  BY DEF FuelSet
<1> HIDE DEF on, g
<1>3. /\ g \in Form /\ g.fuel = fuel /\ Cleared(g) /\ g.filtered = on
      /\ g.make = f.make /\ g.model = f.model /\ g.models = f.models /\ g.trims = f.trims
  BY <1>1, <1>2 DEF Form, Cleared
<1>4. OffersFit(g)
  BY <1>1, <1>3 DEF OffersFit
<1> QED
  BY <1>1, <1>3, <1>4 DEF g

\* A new model clears the fuel type too.
LEMMA ModelSetForm ==
  ASSUME NEW f \in Form, NEW d \in Models \union {Typed, Nothing}
  PROVE  LET g == ModelSet(f, d) IN
         /\ g \in Form /\ g.model = d /\ g.make = f.make /\ g.models = f.models
         /\ Cleared(g) /\ g.filtered = {}
<1> DEFINE h == FuelSet(f, Nothing)
<1>1. /\ h \in Form /\ h.fuel = Nothing /\ Cleared(h) /\ h.make = f.make
      /\ h.models = f.models /\ h.trims = f.trims /\ h.filtered = {}
  BY FuelSetForm
<1>2. ModelSet(f, d) = [h EXCEPT !.model = d,
                                 !.trims = IF Nothing \in {d, f.make} THEN {} ELSE @]
  BY DEF ModelSet
<1> HIDE DEF h
<1> QED
  BY <1>1, <1>2 DEF Form, Cleared

\* A new make clears the model too.
LEMMA MakeSetForm ==
  ASSUME NEW f \in Form, NEW m \in Makes \union {Typed, Nothing}
  PROVE  LET g == MakeSet(f, m) IN
         /\ g \in Form /\ g.make = m /\ g.model = Nothing
         /\ Cleared(g) /\ g.filtered = {}
<1> DEFINE h == ModelSet(f, Nothing)
<1>1. /\ h \in Form /\ h.model = Nothing /\ h.models = f.models
      /\ Cleared(h) /\ h.filtered = {}
  BY ModelSetForm
<1>2. MakeSet(f, m) = [h EXCEPT !.make = m, !.modelOn = m # Nothing,
                                !.models = IF m = Nothing THEN {} ELSE @]
  BY DEF MakeSet
<1> HIDE DEF h
<1> QED
  BY <1>1, <1>2 DEF Form, Cleared

\* What a finition fills in is a spec of the catalog, or nothing.
LEMMA SpecOfTyped ==
  ASSUME NEW t \in Trims, NEW fuel
  PROVE  SpecOf(t, fuel) \in Specs \union {Nothing}
<1>1. PICK on \in SUBSET Fuels : Engines[t] \in [on -> Specs]
  BY AdFormAssumption
<1> QED
  BY <1>1 DEF SpecOf

\* A finition replaces a figure of the form's own by its own.
LEMMA TrimSetForm ==
  ASSUME NEW f \in Form, FiguresRight(f), NEW t \in Trims \union {Typed}
  PROVE  LET g == TrimSet(f, t) IN
         /\ g \in Form /\ g.trim = t /\ g.make = f.make /\ g.model = f.model
         /\ g.fuel = f.fuel /\ g.filtered = f.filtered /\ FiguresRight(g)
<1>1. CASE t \in Trims /\ StillPrefilled(f)
  <2> DEFINE new == SpecOf(t, f.fuel)
  <2>1. new \in Specs \union {Nothing}
    BY <1>1, SpecOfTyped
  <2>2. TrimSet(f, t) = [f EXCEPT !.trim = t, !.spec = new, !.prefill = new, !.origin = "form"]
    BY <1>1 DEF TrimSet
  <2> HIDE DEF new
  <2> DEFINE h == TrimSet(f, t)
  <2> HIDE DEF h
  <2>3. /\ h \in Form /\ h.trim = t /\ h.make = f.make /\ h.model = f.model
        /\ h.fuel = f.fuel /\ h.filtered = f.filtered /\ h.spec = new /\ h.prefill = new
    BY <2>1, <2>2 DEF Form, h
  <2>4. FiguresRight(h)
    BY <2>3 DEF FiguresRight, StillPrefilled, new
  <2> QED
    BY <2>3, <2>4 DEF h
<1>2. CASE ~(t \in Trims /\ StillPrefilled(f))
  <2>1. TrimSet(f, t) = [f EXCEPT !.trim = t]
    BY <1>2 DEF TrimSet
  <2>2. LET g == TrimSet(f, t) IN
        /\ g \in Form /\ g.trim = t /\ g.make = f.make /\ g.model = f.model
        /\ g.fuel = f.fuel /\ g.filtered = f.filtered /\ g.spec = f.spec
        /\ g.prefill = f.prefill /\ g.origin = f.origin
    BY <2>1 DEF Form
  <2>3. FiguresRight(TrimSet(f, t))
    BY <1>2, <2>2 DEF FiguresRight, StillPrefilled
  <2> QED
    BY <2>2, <2>3
<1> QED
  BY <1>1, <1>2

\* What the make and the model listener ask for is well typed.
LEMMA AsksTyped ==
  ASSUME NEW m \in Makes \union {Typed, Nothing}, NEW d \in Models \union {Typed, Nothing}
  PROVE  MakeAsks(m) \subseteq AskOf /\ ModelAsks(m, d) \subseteq AskOf
  BY DEF MakeAsks, ModelAsks, Asks, AskOf

-----------------------------------------------------------------------------
(* The steps                                                                *)

\* The form after a new make fits.
LEMMA NewMakeFits ==
  ASSUME FormInv, NEW m \in Makes \union {Typed, Nothing}, form' = MakeSet(form, m)
  PROVE  form' \in Form /\ OffersFit(form)' /\ FiguresRight(form)' /\ PicksFit'
<1>1. /\ form' \in Form /\ form'.make = m /\ form'.model = Nothing /\ Cleared(form')
      /\ form'.filtered = {}
  BY MakeSetForm DEF FormInv, FormTyped
<1>2. FiguresRight(form')
  BY <1>1, ClearedRight
<1>3. PicksFit'
  BY <1>1, AdFormAssumption DEF PicksFit, Cleared
<1> QED
  BY <1>1, <1>2, <1>3 DEF OffersFit

\* What an edit has to show: nothing is being loaded, and the form is no longer
\* the one that was.
LEMMA EditKeeps ==
  ASSUME FormInv, FormTyped', Edits, OffersFit(form)', FiguresRight(form)', ~misled' => PicksFit'
  PROVE  FormInv'
<1>1. loadingAd' = Nothing /\ fresh' = FALSE
  BY DEF Edits
<1>2. LoadGoesOn'
  BY <1>1, AdFormAssumption DEF LoadGoesOn
<1> QED
  BY <1>1, <1>2 DEF FormInv, LoadShowsTheAd

\* PickMake.
LEMMA PickMakeKeeps ==
  ASSUME FormInv, NEW m \in Makes \union {Typed, Nothing}, PickMake(m), UNCHANGED route
  PROVE  FormInv'
<1>1. /\ Edits /\ UNCHANGED misled /\ form' = MakeSet(form, m) /\ asks' = asks \union MakeAsks(m)
  BY DEF PickMake, Sends
<1>2. form' \in Form /\ OffersFit(form)' /\ FiguresRight(form)' /\ PicksFit'
  BY <1>1, NewMakeFits
<1>3. FormTyped'
  BY <1>1, <1>2, AsksTyped DEF FormInv, FormTyped, Edits
<1> QED
  BY <1>1, <1>2, <1>3, EditKeeps

\* PickModel: from a list of models of the make, it is one of them.
LEMMA PickModelKeeps ==
  ASSUME FormInv, NEW d \in Models \union {Typed}, PickModel(d), UNCHANGED route
  PROVE  FormInv'
<1>1. /\ Edits /\ d \in form.models \union {Typed}
      /\ form' = ModelSet(form, d) /\ asks' = asks \union ModelAsks(form.make, d)
      /\ misled' = (misled \/ (d # Typed /\ ~(form.models \subseteq ModelsOf(form.make))))
  BY DEF PickModel, Sends
<1>2. form \in Form /\ misled \in BOOLEAN
  BY DEF FormInv, FormTyped
<1>3. form' \in Form /\ form'.model = d /\ form'.make = form.make /\ Cleared(form') /\ form'.filtered = {}
  BY <1>1, <1>2, ModelSetForm
<1>4. FiguresRight(form')
  BY <1>3, ClearedRight
<1>5. ASSUME ~misled' PROVE PicksFit'
  <2>1. d # Typed => d \in ModelsOf(form.make)
    BY <1>1, <1>5
  <2>2. d \in Models => MakeOf[d] = form.make
    BY <2>1, AdFormAssumption DEF ModelsOf
  <2> QED
    BY <1>3, <2>2, AdFormAssumption DEF PicksFit, Cleared
<1>6. form.make \in Makes \union {Typed, Nothing}
  BY <1>2 DEF Form
<1>7. FormTyped'
  BY <1>1, <1>2, <1>3, <1>6, AsksTyped DEF FormInv, FormTyped, Edits
<1> QED
  BY <1>1, <1>3, <1>4, <1>5, <1>7, EditKeeps DEF OffersFit

\* PickFuel.
LEMMA PickFuelKeeps ==
  ASSUME FormInv, NEW fuel \in Fuels, PickFuel(fuel), UNCHANGED route
  PROVE  FormInv'
<1>1. Edits /\ UNCHANGED <<asks, misled>> /\ form' = FuelSet(form, fuel)
  BY DEF PickFuel
<1>2. form \in Form
  BY DEF FormInv, FormTyped
<1>3. /\ form' \in Form /\ form'.model = form.model /\ form'.make = form.make
      /\ Cleared(form') /\ OffersFit(form')
  BY <1>1, <1>2, FuelSetForm
<1>4. FiguresRight(form')
  BY <1>3, ClearedRight
<1>5. ASSUME ~misled' PROVE PicksFit'
  <2>1. PicksFit
    BY <1>1, <1>5, AdFormAssumption DEF FormInv, Edits
  <2> QED
    BY <1>3, <2>1, AdFormAssumption DEF PicksFit, Cleared
<1>6. FormTyped'
  BY <1>1, <1>3 DEF FormInv, FormTyped, Edits
<1> QED
  BY <1>1, <1>3, <1>4, <1>5, <1>6, EditKeeps

\* PickTrim: from a list of finitions of the model, it is one of them.
LEMMA PickTrimKeeps ==
  ASSUME FormInv, NEW t \in Trims \union {Typed}, PickTrim(t), UNCHANGED route
  PROVE  FormInv'
<1>1. /\ Edits /\ UNCHANGED asks /\ form' = TrimSet(form, t) /\ t \in form.filtered \union {Typed}
      /\ misled' = (misled \/ (t # Typed /\ ~(form.filtered \subseteq TrimsOf(form.make, form.model))))
  BY DEF PickTrim
<1>2. form \in Form /\ FiguresRight(form) /\ OffersFit(form) /\ misled \in BOOLEAN
  BY DEF FormInv, FormTyped
<1>3. /\ form' \in Form /\ form'.model = form.model /\ form'.make = form.make
      /\ form'.fuel = form.fuel /\ form'.filtered = form.filtered /\ form'.trim = t
      /\ FiguresRight(form')
  BY <1>1, <1>2, TrimSetForm
<1>4. ASSUME ~misled' PROVE PicksFit'
  <2>1. PicksFit
    BY <1>1, <1>2, <1>4, AdFormAssumption DEF FormInv, Edits
  <2>2. t # Typed => t \in TrimsOf(form.make, form.model) /\ Offers(t, form.fuel)
    BY <1>1, <1>2, <1>4 DEF OffersFit
  <2>3. t \in Trims => ModelOf[t] = form.model /\ Offers(t, form.fuel)
    BY <2>2, AdFormAssumption DEF TrimsOf
  <2> QED
    BY <1>3, <2>1, <2>3 DEF PicksFit
<1>5. FormTyped'
  BY <1>1, <1>2, <1>3 DEF FormInv, FormTyped, Edits
<1>6. OffersFit(form')
  BY <1>2, <1>3 DEF OffersFit
<1> QED
  BY <1>1, <1>3, <1>4, <1>5, <1>6, EditKeeps

\* Typing a figure keeps the invariant of the form.
LEMMA TypeSpecKeeps ==
  ASSUME FormInv, NEW x \in Specs \union {Nothing}, TypeSpec(x), UNCHANGED route
  PROVE  FormInv'
<1>1. Edits /\ UNCHANGED <<asks, misled>> /\ form' = [form EXCEPT !.spec = x, !.origin = "seller"]
  BY DEF TypeSpec
<1>2. form \in Form
  BY DEF FormInv, FormTyped
<1>3. /\ form' \in Form /\ form'.model = form.model /\ form'.make = form.make
      /\ form'.fuel = form.fuel /\ form'.filtered = form.filtered /\ form'.trim = form.trim
      /\ form'.origin = "seller"
  BY <1>1, <1>2 DEF Form
<1>4. ASSUME ~misled' PROVE PicksFit'
  BY <1>1, <1>3, <1>4, AdFormAssumption DEF FormInv, PicksFit, Edits
<1>5. FormTyped'
  BY <1>1, <1>3 DEF FormInv, FormTyped, Edits
<1>6. OffersFit(form') /\ FiguresRight(form')
  BY <1>3 DEF FormInv, OffersFit, FiguresRight
<1> QED
  BY <1>1, <1>4, <1>5, <1>6, EditKeeps

\* LookupVin only asks.
LEMMA LookupVinKeeps ==
  ASSUME FormInv, LookupVin, UNCHANGED route
  PROVE  FormInv'
<1>1. /\ Edits /\ UNCHANGED <<form, misled>>
      /\ asks' = asks \union {Asks("vin", Nothing, Nothing)}
  BY DEF LookupVin, Sends
<1>2. FormTyped'
  <2>1. Asks("vin", Nothing, Nothing) \in AskOf
    BY DEF Asks, AskOf
  <2> QED
    BY <1>1, <2>1 DEF FormInv, FormTyped, Edits
<1>3. ~misled' => PicksFit'
  BY <1>1, AdFormAssumption DEF FormInv, PicksFit, Edits
<1> QED
  BY <1>1, <1>2, <1>3, EditKeeps DEF FormInv

\* The vehicle of the ad is one of the catalog.
LEMMA AdVehicle ==
  ASSUME saved \in SavedAds
  PROVE  /\ saved.trim = SavedTrim /\ SavedTrim \in Trims
         /\ AdModel \in Models /\ AdMake \in Makes /\ AdMake = MakeOf[AdModel]
         /\ AdMake # Nothing /\ AdModel # Nothing
         /\ saved.fuel \in Fuels /\ saved.fuel # Nothing /\ saved.spec \in Specs
         /\ Offers(SavedTrim, saved.fuel)
<1>1. PICK on \in SUBSET Fuels : Engines[SavedTrim] \in [on -> Specs]
  BY AdFormAssumption
<1> QED
  BY <1>1, AdFormAssumption DEF SavedAds, AdModel, AdMake, Offers

\* The steps of a load: it begins, or it fails, half way with the make alone.
LEMMA LoadStarts ==
  ASSUME FormInv, ResetToOriginal \/ AdLoadFails, UNCHANGED route
  PROVE  FormInv'
<1>1. FormTyped'
  BY DEF ResetToOriginal, AdLoadFails, FormInv, FormTyped
<1>2. /\ UNCHANGED <<saved, form>> /\ loadingAd' \in {"ad", Nothing}
      /\ (misled => misled') /\ (~misled' => loadingAd # "models")
  <2>1. misled \in BOOLEAN
    BY DEF FormInv, FormTyped
  <2>2. CASE ResetToOriginal
    BY <2>2, AdFormAssumption DEF ResetToOriginal
  <2>3. CASE AdLoadFails
    BY <2>1, <2>3 DEF AdLoadFails
  <2> QED
    BY <2>2, <2>3
<1>3. LoadGoesOn'
  BY <1>2, AdFormAssumption DEF LoadGoesOn
<1>4. ~misled' => PicksFit'
  BY <1>2 DEF FormInv, PicksFit
<1>5. ~fresh'
  BY AdFormAssumption DEF ResetToOriginal, AdLoadFails, FormInv
<1> QED
  BY <1>1, <1>2, <1>3, <1>4, <1>5 DEF FormInv, LoadShowsTheAd, OffersFit, FiguresRight

\* The answer with the ad (loadForEdit) keeps it.
LEMMA AdArrivesKeeps ==
  ASSUME FormInv, route = "ads/:id", AdArrives, UNCHANGED route
  PROVE  FormInv'
<1>1. /\ form \in Form /\ saved \in SavedAds /\ loadingAd = "ad" /\ loadingAd' = "models"
      /\ UNCHANGED <<saved, asks, fresh, misled>> /\ form' = [form EXCEPT !.make = AdMake]
  BY DEF AdArrives, FormInv, FormTyped
<1>2. ~fresh
  BY <1>1, AdFormAssumption DEF FormInv
<1>3. /\ form' \in Form /\ form'.make = AdMake /\ form'.spec = form.spec /\ form'.fuel = form.fuel
      /\ form'.trim = form.trim /\ form'.prefill = form.prefill /\ form'.origin = form.origin
      /\ form'.filtered = form.filtered
  BY <1>1, AdVehicle DEF Form
<1>4. FormTyped'
  BY <1>1, <1>3 DEF FormInv, FormTyped
<1>5. LoadGoesOn'
  BY <1>1, <1>3 DEF LoadGoesOn, AdMake, AdModel
<1>6. OffersFit(form') /\ FiguresRight(form')
  BY <1>3 DEF FormInv, OffersFit, FiguresRight, StillPrefilled
<1> QED
  BY <1>1, <1>2, <1>4, <1>5, <1>6 DEF FormInv, LoadShowsTheAd

\* The models loadForEdit awaits, set with the make and the model, keep it.
LEMMA ModelsArriveKeeps ==
  ASSUME FormInv, route = "ads/:id", ModelsArrive, UNCHANGED route
  PROVE  FormInv'
<1> DEFINE g == ModelSet(form, form.model)
<1>1. /\ form \in Form /\ saved \in SavedAds /\ loadingAd = "models" /\ loadingAd' = "trims"
      /\ UNCHANGED <<saved, fresh, misled>>
      /\ form' = [g EXCEPT !.model = AdModel, !.modelOn = TRUE, !.models = ModelsOf(AdMake)]
      /\ asks' = asks \union ModelAsks(form.make, form.model)
  BY DEF ModelsArrive, FormInv, FormTyped
<1>2. ~fresh
  BY <1>1, AdFormAssumption DEF FormInv
<1>3. form.model \in Models \union {Typed, Nothing} /\ form.make \in Makes \union {Typed, Nothing}
  BY <1>1 DEF Form
<1>4. g \in Form /\ g.make = form.make /\ Cleared(g) /\ g.filtered = {}
  BY <1>1, <1>3, ModelSetForm
<1> HIDE DEF g
<1>5. /\ form' \in Form /\ form'.make = form.make /\ form'.model = AdModel
      /\ Cleared(form') /\ form'.filtered = {}
  BY <1>1, <1>4, AdVehicle DEF Form, ModelsOf, Cleared
<1>6. FormTyped'
  BY <1>1, <1>3, <1>5, AsksTyped DEF FormInv, FormTyped
<1>7. AdMake' = AdMake /\ AdModel' = AdModel
  BY <1>1 DEF AdMake, AdModel
<1>8. ~misled => LoadGoesOn' /\ PicksFit'
  <2>1. ~misled => form.make = AdMake
    BY <1>1 DEF FormInv, LoadGoesOn
  <2>2. ~misled => PicksFit'
    BY <1>1, <1>5, <2>1, AdVehicle, AdFormAssumption DEF PicksFit, Cleared
  <2> QED
    BY <1>5, <1>7, <2>1, <2>2 DEF LoadGoesOn
<1>9. OffersFit(form') /\ FiguresRight(form')
  BY <1>5, ClearedRight DEF OffersFit
<1> QED
  BY <1>1, <1>2, <1>6, <1>8, <1>9 DEF FormInv, LoadShowsTheAd

\* The form once the vehicle of the ad is filled in.
LEMMA FilledForm ==
  ASSUME FormInv, saved \in SavedAds
  PROVE  LET g == Filled([form EXCEPT !.trims = TrimsOf(AdMake, AdModel)]) IN
         /\ g \in Form /\ g.make = form.make /\ g.model = form.model
         /\ g.fuel = saved.fuel /\ g.trim = saved.trim
         /\ g.spec = saved.spec /\ g.origin = "ad" /\ OffersFit(g)
<1> DEFINE f == [form EXCEPT !.trims = TrimsOf(AdMake, AdModel)]
           h == FuelSet(f, saved.fuel)
<1>1. f \in Form /\ f.make = form.make /\ f.model = form.model
  BY DEF FormInv, FormTyped, Form, TrimsOf
<1> HIDE DEF f
<1>2. /\ h \in Form /\ h.make = form.make /\ h.model = form.model
      /\ h.fuel = saved.fuel /\ OffersFit(h)
  BY <1>1, AdVehicle, FuelSetForm
<1>3. Filled(f) = [h EXCEPT !.trim = saved.trim, !.spec = saved.spec, !.origin = "ad"]
  BY DEF Filled
<1> HIDE DEF h
<1>4. Filled(f) \in Form
  BY <1>2, <1>3, AdVehicle DEF Form
<1> QED
  BY <1>2, <1>3, <1>4 DEF Form, f, OffersFit

\* The finitions loadForEdit awaits, set with the fuel and the finition, keep it.
LEMMA TrimsArriveKeeps ==
  ASSUME FormInv, route = "ads/:id", TrimsArrive, UNCHANGED route
  PROVE  FormInv'
<1> DEFINE g == Filled([form EXCEPT !.trims = TrimsOf(AdMake, AdModel)])
<1>1. /\ form \in Form /\ saved \in SavedAds /\ loadingAd = "trims" /\ loadingAd' = Nothing
      /\ UNCHANGED <<saved, misled>> /\ fresh' = TRUE
  BY DEF TrimsArrive, FormInv, FormTyped
<1>2. /\ g \in Form /\ g.make = form.make /\ g.model = form.model
      /\ g.fuel = saved.fuel /\ g.trim = saved.trim
      /\ g.spec = saved.spec /\ g.origin = "ad" /\ OffersFit(g)
  BY <1>1, FilledForm
<1>3. /\ saved.status = "VALIDATED" =>
           form' = [MakeSet(g, g.make) EXCEPT !.modelOn = FALSE] /\ asks' = asks \union MakeAsks(form.make)
      /\ saved.status # "VALIDATED" => form' = g /\ UNCHANGED asks
  BY <1>2 DEF TrimsArrive, Disabled
<1> HIDE DEF g
<1>4. ~misled => form.make = AdMake /\ form.model = AdModel
  BY <1>1 DEF FormInv, LoadGoesOn
<1>5. form.make \in Makes \union {Typed, Nothing}
  BY <1>1 DEF Form
<1>6. LoadGoesOn'
  BY <1>1, AdFormAssumption DEF LoadGoesOn
<1>7. AdMake' = AdMake /\ AdModel' = AdModel
  BY <1>1 DEF AdMake, AdModel
<1>8. CASE saved.status # "VALIDATED"
  <2>1. FormTyped'
    BY <1>1, <1>2, <1>3, <1>8 DEF FormInv, FormTyped
  <2>2. ASSUME ~misled PROVE PicksFit'
    <3>1. form' = g /\ g.make = AdMake /\ g.model = AdModel
      BY <1>2, <1>3, <1>4, <1>8, <2>2
    <3>2. MakeOf[AdModel] = AdMake /\ ModelOf[saved.trim] = AdModel /\ Offers(saved.trim, saved.fuel)
      BY <1>1, AdVehicle DEF AdModel, AdMake
    <3> QED
      BY <1>2, <3>1, <3>2 DEF PicksFit
  <2>3. LoadShowsTheAd'
    BY <1>1, <1>2, <1>3, <1>4, <1>7, <1>8 DEF LoadShowsTheAd
  <2>4. OffersFit(form') /\ FiguresRight(form')
    BY <1>2, <1>3, <1>8 DEF FiguresRight
  <2> QED
    BY <1>1, <1>6, <2>1, <2>2, <2>3, <2>4 DEF FormInv
<1>9. CASE saved.status = "VALIDATED"
  <2> DEFINE h == MakeSet(g, g.make)
  <2>1. h \in Form /\ h.model = Nothing /\ Cleared(h) /\ h.filtered = {}
    BY <1>2, <1>5, MakeSetForm
  <2>2. form' = [h EXCEPT !.modelOn = FALSE] /\ asks' = asks \union MakeAsks(form.make)
    BY <1>3, <1>9
  <2> HIDE DEF h
  <2>3. form' \in Form /\ form'.model = Nothing /\ Cleared(form') /\ form'.filtered = {}
    BY <2>1, <2>2 DEF Form, Cleared
  <2>4. FormTyped'
    BY <1>1, <1>5, <2>2, <2>3, AsksTyped DEF FormInv, FormTyped
  <2>5. PicksFit'
    BY <2>3, AdFormAssumption DEF PicksFit, Cleared
  <2>6. LoadShowsTheAd'
    BY <1>1, <1>9 DEF LoadShowsTheAd
  <2>7. OffersFit(form') /\ FiguresRight(form')
    BY <2>3, ClearedRight DEF OffersFit
  <2> QED
    BY <1>1, <1>6, <2>4, <2>5, <2>6, <2>7 DEF FormInv
<1> QED
  BY <1>8, <1>9

\* A list that comes changes nothing that is selected.
LEMMA ListAnsweredKeeps ==
  ASSUME FormInv, NEW a \in asks, ListAnswered(a), UNCHANGED route
  PROVE  FormInv'
<1>1. /\ form \in Form /\ asks \subseteq AskOf
      /\ asks' = asks \ {a} /\ UNCHANGED <<saved, loadingAd, fresh, misled>>
      /\ \/ form' = [form EXCEPT !.models = ModelsOf(a.make)]
         \/ form' = [form EXCEPT !.trims = TrimsOf(a.make, a.model)]
  BY DEF FormInv, FormTyped, ListAnswered
<1>2. /\ form' \in Form /\ form'.make = form.make /\ form'.model = form.model
      /\ form'.fuel = form.fuel /\ form'.trim = form.trim /\ form'.spec = form.spec
      /\ form'.prefill = form.prefill /\ form'.origin = form.origin /\ form'.filtered = form.filtered
  BY <1>1 DEF Form, ModelsOf, TrimsOf
<1>3. UNCHANGED <<AdMake, AdModel>>
  BY <1>1 DEF AdMake, AdModel
<1>4. FormTyped'
  BY <1>1, <1>2 DEF FormInv, FormTyped
<1>5. OffersFit(form') /\ FiguresRight(form')
  BY <1>2 DEF FormInv, OffersFit, FiguresRight, StillPrefilled
<1>6. ~misled => LoadGoesOn' /\ (loadingAd # "models" => PicksFit')
  BY <1>1, <1>2, <1>3 DEF FormInv, LoadGoesOn, PicksFit
<1>7. LoadShowsTheAd'
  BY <1>1, <1>2, <1>3 DEF FormInv, LoadShowsTheAd
<1> QED
  BY <1>1, <1>4, <1>5, <1>6, <1>7 DEF FormInv

\* A recognized VIN sets the make.
LEMMA VinAnsweredKeeps ==
  ASSUME FormInv, NEW a \in asks, VinAnswered(a), UNCHANGED route
  PROVE  FormInv'
<1>1. PICK m \in Makes : form' = MakeSet(form, m) /\ asks' = (asks \ {a}) \union MakeAsks(m)
  BY DEF VinAnswered
<1>2. /\ fresh' = FALSE /\ UNCHANGED <<saved, loadingAd>> /\ misled \in BOOLEAN
      /\ misled' = (misled \/ loadingAd \in {"models", "trims"})
  BY DEF VinAnswered, FormInv, FormTyped
<1>3. form' \in Form /\ OffersFit(form)' /\ FiguresRight(form)' /\ PicksFit'
  BY <1>1, NewMakeFits
<1>4. FormTyped'
  BY <1>1, <1>2, <1>3, AsksTyped DEF FormInv, FormTyped
<1>5. ~misled' => LoadGoesOn'
  BY <1>2 DEF LoadGoesOn
<1> QED
  BY <1>2, <1>3, <1>4, <1>5 DEF FormInv, LoadShowsTheAd

\* A list or a VIN lookup that fails keeps it.
LEMMA AskFailsKeeps ==
  ASSUME FormInv, NEW a \in asks, AskFails(a), UNCHANGED route
  PROVE  FormInv'
<1>1. FormTyped' /\ UNCHANGED <<saved, form, loadingAd, fresh, misled>>
  BY DEF AskFails, FormInv, FormTyped
<1>2. LoadShowsTheAd' /\ (LoadGoesOn => LoadGoesOn') /\ (PicksFit => PicksFit')
  BY <1>1 DEF FormInv, LoadShowsTheAd, LoadGoesOn, PicksFit, AdMake, AdModel
<1> QED
  BY <1>1, <1>2 DEF FormInv

-----------------------------------------------------------------------------
(* The theorems                                                             *)

\* The form satisfies its invariant when its route is entered.
LEMMA FormInvInit ==
  ASSUME FrontInit
  PROVE  FormInv
<1>1. PICK wait \in {Nothing, "ad"} :
        \E ad : AdFormStarts(ad, wait) /\ (route = "ads/:id" => ad \in SavedAds)
  <2>1. CASE route = "ads/:id"
    BY <2>1 DEF FrontInit, AdFormInit
  <2>2. CASE route # "ads/:id"
    <3>1. AdFormStarts(CHOOSE ad \in SavedAds : TRUE, Nothing)
      BY <2>2 DEF FrontInit
    <3> QED
      BY <2>2, <3>1
  <2> QED
    BY <2>1, <2>2
<1>2. EmptyForm \in Form
  BY DEF EmptyForm, Form
<1>3. FormTyped
  BY <1>1, <1>2 DEF AdFormStarts, FormTyped
<1>4. LoadGoesOn
  BY <1>1, AdFormAssumption DEF AdFormStarts, LoadGoesOn
<1>5. PicksFit
  BY <1>1, AdFormAssumption DEF AdFormStarts, EmptyForm, PicksFit
<1>6. form = EmptyForm /\ ~fresh
  BY <1>1 DEF AdFormStarts
<1>7. Cleared(form) /\ OffersFit(form)
  BY <1>6 DEF EmptyForm, Cleared, OffersFit
<1>8. FiguresRight(form)
  BY <1>7, ClearedRight
<1> QED
  BY <1>3, <1>4, <1>5, <1>6, <1>7, <1>8 DEF FormInv, LoadShowsTheAd

\* The invariant of the form is inductive, and the other routes leave the form alone.
LEMMA FormInvStep ==
  ASSUME FormInv, [FrontNext]_frontVars
  PROVE  FormInv'
<1>1. CASE UNCHANGED <<route, adFormVars>>
  <2>1. FormTyped' /\ UNCHANGED <<saved, form, loadingAd, fresh, misled>>
    BY <1>1 DEF adFormVars, FormInv, FormTyped
  <2>2. LoadShowsTheAd' /\ (LoadGoesOn => LoadGoesOn') /\ (PicksFit => PicksFit')
    BY <2>1 DEF FormInv, LoadShowsTheAd, LoadGoesOn, PicksFit, AdMake, AdModel
  <2> QED
    BY <2>1, <2>2 DEF FormInv
<1>2. CASE route = "ads/:id" /\ AdFormNext /\ UNCHANGED route
  <2>1. CASE \/ \E m \in Makes \union {Typed, Nothing} : PickMake(m)
             \/ \E d \in Models \union {Typed} : PickModel(d)
             \/ \E fuel \in Fuels : PickFuel(fuel)
             \/ \E t \in Trims \union {Typed} : PickTrim(t)
             \/ \E x \in Specs \union {Nothing} : TypeSpec(x)
    BY <1>2, <2>1, PickMakeKeeps, PickModelKeeps, PickFuelKeeps, PickTrimKeeps, TypeSpecKeeps
  <2>2. CASE LookupVin \/ ResetToOriginal \/ AdArrives \/ ModelsArrive \/ TrimsArrive \/ AdLoadFails
    BY <1>2, <2>2, LookupVinKeeps, LoadStarts, AdArrivesKeeps, ModelsArriveKeeps, TrimsArriveKeeps
  <2>3. CASE \E a \in asks : ListAnswered(a) \/ VinAnswered(a) \/ AskFails(a)
    BY <1>2, <2>3, ListAnsweredKeeps, VinAnsweredKeeps, AskFailsKeeps
  <2> QED
    BY <1>2, <2>1, <2>2, <2>3 DEF AdFormNext
<1> QED
  BY <1>1, <1>2 DEF FrontNext, frontVars

\* So it holds throughout.
LEMMA FormInvariant == FrontSpec => []FormInv
<1>1. FrontInit => FormInv
  BY FormInvInit
<1>2. FormInv /\ [FrontNext]_frontVars => FormInv'
  BY FormInvStep
<1> QED
  BY <1>1, <1>2, PTL DEF FrontSpec

\* The create-ad page (the valueChanges listeners): however late the lists come,
\* and if they never do, the model picked is one of the make and the finition one
\* of the model, with an engine for the fuel, as long as nothing was picked from a
\* list of another make or model and no VIN or error met a load half way.
THEOREM CascadeCorrect == FrontSpec => []CascadeFits
<1>1. FormInv => CascadeFits
  BY AdFormAssumption DEF FormInv, PicksFit, CascadeFits
<1> QED
  BY <1>1, FormInvariant, PTL

\* The create-ad page (loadForEdit): the form of a DRAFT shows the vehicle of
\* the ad once it is loaded, although every control it sets may set off others.
THEOREM LoadCorrect == FrontSpec => []LoadShowsTheAd
<1>1. FormInv => LoadShowsTheAd
  BY DEF FormInv
<1> QED
  BY <1>1, FormInvariant, PTL

\* The create-ad page (applyPowertrainPrefill, resetTrimAndSpecs): a figure that
\* was filled in is that of the finition and the fuel selected, after any number
\* of changes of them.
THEOREM FiguresCorrect == FrontSpec => []FiguresFitTheFinition
<1>1. FormInv => FiguresFitTheFinition
  BY DEF FormInv, FiguresRight, FiguresFitTheFinition
<1> QED
  BY <1>1, FormInvariant, PTL

-----------------------------------------------------------------------------
(* The save buttons of the wizard                                           *)

PhotoSet == [file : Nat, primary : BOOLEAN, order : Nat]

SavedAd == [status : {"DRAFT", "REVIEW", "VALIDATED", "REJECTED"}, photos : Seq(PhotoSet)]

SaveSet == [pc : {"idle", "persist", "photos", "upload", "decide", "done"}, ad : Nat,
            i : Nat \ {0}, file : Nat, chosen : Seq(PhotoSet), had : Nat, failed : BOOLEAN]

SavingTyped ==
  /\ ads \in Seq(SavedAd) /\ rows \in Seq(Nat) /\ picked \in Nat /\ clicks \in Nat
  /\ editing \in 0..Len(ads) /\ (editing = 0 <=> opened = "none")
  /\ cover \in Nat \ {0} /\ (cover = 1 \/ cover <= Len(rows))
  /\ save \in [Buttons -> SaveSet]
  /\ {left, disturbed} \subseteq BOOLEAN
  /\ \A b \in Buttons : save[b].pc \in {"photos", "upload", "decide", "done"}
                          => save[b].ad \in 1..Len(ads)

\* What was chosen ends with the rows of the visit, in order, a cover among them.
ChosenRight(s) ==
  LET New == s.had + 1 .. Len(s.chosen) IN
  /\ s.had <= Len(s.chosen)
  /\ \A k \in New : s.chosen[k].order = k - s.had - 1
  /\ s.had < Len(s.chosen) => \E k \in New : s.chosen[k].primary

\* Undisturbed, the save is the only one, and the page is left when it is done.
OnlySave ==
  /\ clicks = 0 => \A b \in Buttons : save[b].pc = "idle"
  /\ \A b, c \in Buttons : save[b].pc # "idle" /\ save[c].pc # "idle" => b = c
  /\ \A b \in Buttons : save[b].pc = "done" => left

\* The photo that stands at place k of those chosen: the ad has it already, or
\* it is a row whose turn is to come.
StillTo(s, k) ==
  LET n == k + Len(rows) - Len(s.chosen) IN
  IF k <= Len(ads[s.ad].photos) THEN ads[s.ad].photos[k] ELSE Photo(rows[n], n = cover, n - 1)

UploadedSoFar(s) ==
  /\ Len(ads[s.ad].photos) + Len(rows) + 1 = Len(s.chosen) + s.i
  /\ s.i <= Len(rows) + 1
  /\ \A k \in 1..Len(s.chosen) : s.chosen[k] = StillTo(s, k)

AsChosen(s) ==
  /\ s.pc # "decide"
  /\ s.pc = "persist" => s.chosen = Chosen /\ s.i = 1
  /\ s.pc \in {"photos", "upload"} => UploadedSoFar(s)
  /\ s.pc = "upload" => s.i <= Len(rows) /\ s.file = rows[s.i]
  /\ s.pc = "done" => ads[s.ad].photos = s.chosen

SellersButtons == {"draft", "submit", "content"}

SavingInv ==
  /\ SavingTyped
  /\ \A b \in Buttons : ChosenRight(save[b])
  /\ ~disturbed =>
       OnlySave /\ \A b \in SellersButtons : ~save[b].failed => AsChosen(save[b])

-----------------------------------------------------------------------------
(* What the steps of the page have in common                                *)

\* Editing the photos while nothing is being saved touches no save, and doing
\* so during one is a disturbance.
LEMMA EditsKeepSaving ==
  ASSUME SavingInv, EditsPhotos, rows' \in Seq(Nat), picked' \in Nat,
         ads' \in Seq(SavedAd), Len(ads') = Len(ads),
         cover' \in Nat \ {0}, cover' = 1 \/ cover' <= Len(rows')
  PROVE  SavingInv'
<1>1. disturbed \in BOOLEAN /\ disturbed' = (disturbed \/ Saving)
  BY DEF SavingInv, SavingTyped, EditsPhotos
<1>2. SavingTyped'
  BY <1>1 DEF SavingInv, SavingTyped, EditsPhotos, Saving
<1>3. ASSUME ~disturbed' PROVE OnlySave' /\ \A b \in Buttons : save'[b].pc = "idle"
  <2>1. OnlySave /\ ~left /\ ~Saving
    BY <1>1, <1>3 DEF SavingInv, EditsPhotos
  <2>2. \A b \in Buttons : save[b].pc = "idle"
    BY <2>1 DEF OnlySave, Saving
  <2> QED
    BY <2>1, <2>2 DEF OnlySave, EditsPhotos
<1>4. \A b \in Buttons : ChosenRight(save[b])'
  BY DEF SavingInv, EditsPhotos, ChosenRight
<1> QED
  BY <1>2, <1>3, <1>4 DEF SavingInv, AsChosen, SellersButtons, Buttons

\* A step of a save disturbs no other one.
LEMMA SaveMoves ==
  ASSUME SavingInv, NEW b \in Buttons, save[b].pc # "idle",
         save' = [save EXCEPT ![b] = save'[b]], save'[b] \in SaveSet, ChosenRight(save'[b]),
         UNCHANGED <<editing, opened, rows, picked, cover, clicks, disturbed>>,
         ads' \in Seq(SavedAd), Len(ads) <= Len(ads'),
         save'[b].pc \in {"photos", "upload", "decide", "done"} => save'[b].ad \in 1..Len(ads'),
         left' \in BOOLEAN, left => left', save'[b].pc = "done" => left',
         ~disturbed /\ ~save'[b].failed /\ b \in SellersButtons => AsChosen(save[b])'
  PROVE  SavingInv'
<1>1. save \in [Buttons -> SaveSet] /\ ads \in Seq(SavedAd) /\ clicks \in Nat
  BY DEF SavingInv, SavingTyped
<1>2. save' \in [Buttons -> SaveSet] /\ \A c \in Buttons \ {b} : save'[c] = save[c]
  BY <1>1
<1>3. Len(ads) \in Nat /\ Len(ads') \in Nat
  BY <1>1, LenProperties
<1>4. SavingTyped'
  <2>1. ASSUME NEW c \in Buttons, save'[c].pc \in {"photos", "upload", "decide", "done"}
        PROVE  save'[c].ad \in 1..Len(ads')
    <3>1. CASE c = b
      BY <2>1, <3>1
    <3>2. CASE c # b
      <4>1. save[c].ad \in 1..Len(ads)
        BY <1>2, <2>1, <3>2 DEF SavingInv, SavingTyped
      <4> QED
        BY <1>2, <1>3, <2>1, <3>2, <4>1
    <3> QED
      BY <3>1, <3>2
  <2> QED
    BY <1>2, <1>3, <2>1 DEF SavingInv, SavingTyped
<1>5. ASSUME ~disturbed PROVE OnlySave' /\ \A c \in Buttons \ {b} : save'[c].pc = "idle"
  <2>1. OnlySave
    BY <1>5 DEF SavingInv
  <2>2. clicks # 0 /\ \A c \in Buttons \ {b} : save'[c].pc = "idle"
    BY <1>2, <2>1 DEF OnlySave
  <2> QED
    BY <2>2 DEF OnlySave
<1>6. ASSUME ~disturbed, NEW c \in SellersButtons, ~save'[c].failed PROVE AsChosen(save[c])'
  <2>1. CASE c = b
    BY <1>6, <2>1
  <2>2. CASE c # b
    <3>1. save'[c].pc = "idle"
      BY <1>5, <1>6, <2>2 DEF SellersButtons, Buttons
    <3> QED
      BY <3>1 DEF AsChosen
  <2> QED
    BY <2>1, <2>2
<1>7. ASSUME NEW c \in Buttons PROVE ChosenRight(save[c])'
  <2>1. CASE c = b
    BY <2>1
  <2>2. CASE c # b
    BY <1>2, <2>2 DEF SavingInv, ChosenRight
  <2> QED
    BY <2>1, <2>2
<1> QED
  BY <1>4, <1>5, <1>6, <1>7 DEF SavingInv

\* What was chosen at the click stays chosen.
LEMMA ChosenStays ==
  ASSUME SavingInv, NEW b \in Buttons, NEW s, s.chosen = save[b].chosen, s.had = save[b].had
  PROVE  ChosenRight(s)
  BY DEF SavingInv, ChosenRight

\* Before the click nothing is chosen.
LEMMA NothingChosen == ChosenRight(NoSave)
<1>1. NoSave.chosen = <<>> /\ NoSave.had = 0 /\ Len(<<>>) = 0
  BY EmptySeq DEF NoSave
<1> QED
  BY <1>1 DEF ChosenRight

\* Between its clicks a save has an ad of the list, with its photos.
LEMMA SaveTyped ==
  ASSUME SavingInv, NEW b \in Buttons
  PROVE  /\ save[b] \in SaveSet /\ ads \in Seq(SavedAd) /\ Len(ads) \in Nat
         /\ save[b].pc \in {"photos", "upload", "decide", "done"} =>
              /\ save[b].ad \in 1..Len(ads) /\ ads[save[b].ad] \in SavedAd
              /\ ads[save[b].ad].photos \in Seq(PhotoSet)
              /\ Len(ads[save[b].ad].photos) \in Nat
<1>1. save[b] \in SaveSet /\ ads \in Seq(SavedAd) /\ Len(ads) \in Nat
  BY LenProperties DEF SavingInv, SavingTyped
<1>2. ASSUME save[b].pc \in {"photos", "upload", "decide", "done"}
      PROVE  /\ save[b].ad \in 1..Len(ads) /\ ads[save[b].ad] \in SavedAd
             /\ ads[save[b].ad].photos \in Seq(PhotoSet)
             /\ Len(ads[save[b].ad].photos) \in Nat
  <2>1. save[b].ad \in 1..Len(ads)
    BY <1>2 DEF SavingInv, SavingTyped
  <2>2. ads[save[b].ad] \in SavedAd
    BY <1>1, <2>1, ElementOfSeq
  <2>3. ads[save[b].ad].photos \in Seq(PhotoSet)
    BY <2>2 DEF SavedAd
  <2> QED
    BY <2>1, <2>2, <2>3, LenProperties
<1> QED
  BY <1>1, <1>2

\* Changing one ad of the list leaves the others and the length of the list.
LEMMA OneAdChanges ==
  ASSUME NEW s \in Seq(SavedAd), NEW n \in 1..Len(s), NEW ad \in SavedAd
  PROVE  [s EXCEPT ![n] = ad] \in Seq(SavedAd) /\ Len([s EXCEPT ![n] = ad]) = Len(s)
  BY ExceptSeq

\* The photo of row n, as it was chosen.
RowPhoto(n) == Photo(rows[n], n = cover, n - 1)

\* The photos an ad was to have are those shown of it and the rows.
LEMMA ChosenTyped ==
  ASSUME SavingTyped
  PROVE  /\ Chosen \in Seq(PhotoSet) /\ Shown \in Seq(PhotoSet)
         /\ Len(Chosen) = Len(Shown) + Len(rows)
         /\ \A k \in 1..Len(Chosen) :
              Chosen[k] = IF k <= Len(Shown) THEN Shown[k] ELSE RowPhoto(k - Len(Shown))
<1> DEFINE mine == [i \in DOMAIN rows |-> Photo(rows[i], i = cover, i - 1)]
<1>1. Shown \in Seq(PhotoSet)
  <2>1. CASE editing = 0
    BY <2>1, EmptySeq DEF Shown
  <2>2. CASE editing # 0
    <3>1. editing \in 1..Len(ads) /\ ads \in Seq(SavedAd)
      BY <2>2, LenProperties DEF SavingTyped
    <3>2. ads[editing] \in SavedAd
      BY <3>1, ElementOfSeq
    <3> QED
      BY <2>2, <3>2 DEF SavedAd, Shown
  <2> QED
    BY <2>1, <2>2
<1>2. Len(rows) \in Nat /\ rows \in [1..Len(rows) -> Nat] /\ DOMAIN rows = 1..Len(rows)
  BY LenProperties DEF SavingTyped
<1>3. \A i \in 1..Len(rows) : Photo(rows[i], i = cover, i - 1) \in PhotoSet
  BY <1>2 DEF Photo, PhotoSet
<1>4. mine \in Seq(PhotoSet) /\ Len(mine) = Len(rows)
  <2>1. mine \in [1..Len(rows) -> PhotoSet]
    BY <1>2, <1>3
  <2> QED
    BY <1>2, <2>1
<1>5. \A i \in 1..Len(rows) : mine[i] = RowPhoto(i)
  BY <1>2 DEF RowPhoto
<1>6. Chosen = Shown \o mine
  BY DEF Chosen
<1>7. Len(Shown) \in Nat
  BY <1>1, LenProperties
<1> HIDE DEF mine
<1>8. /\ Chosen \in Seq(PhotoSet) /\ Len(Chosen) = Len(Shown) + Len(rows)
      /\ \A k \in 1..Len(Chosen) : Chosen[k] = IF k <= Len(Shown) THEN Shown[k] ELSE mine[k - Len(Shown)]
  <2>1. /\ Chosen \in Seq(PhotoSet) /\ Len(Chosen) = Len(Shown) + Len(mine)
        /\ \A k \in 1..Len(Shown) + Len(mine) :
             Chosen[k] = IF k <= Len(Shown) THEN Shown[k] ELSE mine[k - Len(Shown)]
    BY <1>1, <1>4, <1>6, ConcatProperties
  <2> QED
    BY <1>4, <2>1
<1>9. ASSUME NEW k \in 1..Len(Chosen)
      PROVE  Chosen[k] = IF k <= Len(Shown) THEN Shown[k] ELSE RowPhoto(k - Len(Shown))
  <2>1. CASE k <= Len(Shown)
    BY <1>8, <2>1
  <2>2. CASE ~(k <= Len(Shown))
    <3>1. k - Len(Shown) \in 1..Len(rows)
      BY <1>2, <1>7, <1>8, <2>2
    <3> QED
      BY <1>5, <1>8, <2>2, <3>1
  <2> QED
    BY <2>1, <2>2
<1> QED
  BY <1>1, <1>8, <1>9

\* The rows come after what is shown, in order, and one of them is the cover.
LEMMA ChosenAtClick ==
  ASSUME SavingTyped, NEW s, s.chosen = Chosen, s.had = Len(Shown)
  PROVE  ChosenRight(s)
<1>1. /\ Len(Shown) \in Nat /\ Len(rows) \in Nat /\ Len(Chosen) = Len(Shown) + Len(rows)
      /\ \A k \in 1..Len(Chosen) :
           Chosen[k] = IF k <= Len(Shown) THEN Shown[k] ELSE RowPhoto(k - Len(Shown))
  BY ChosenTyped, LenProperties DEF SavingTyped
<1>2. ASSUME NEW k \in Len(Shown) + 1 .. Len(Chosen)
      PROVE  Chosen[k] = RowPhoto(k - Len(Shown)) /\ Chosen[k].order = k - Len(Shown) - 1
  <2>1. k \in 1..Len(Chosen) /\ ~(k <= Len(Shown))
    BY <1>1, <1>2
  <2>2. Chosen[k] = RowPhoto(k - Len(Shown))
    BY <1>1, <2>1
  <2> QED
    BY <2>2 DEF RowPhoto, Photo
<1>3. ASSUME Len(Shown) < Len(Chosen)
      PROVE  \E k \in Len(Shown) + 1 .. Len(Chosen) : Chosen[k].primary
  <2>1. cover \in 1..Len(rows)
    BY <1>1, <1>3 DEF SavingTyped
  <2>2. PICK k \in Len(Shown) + 1 .. Len(Chosen) : k - Len(Shown) = cover
    <3>1. /\ Len(Shown) + cover \in Len(Shown) + 1 .. Len(Chosen)
          /\ (Len(Shown) + cover) - Len(Shown) = cover
      BY <1>1, <2>1
    <3> QED
      BY <3>1
  <2>3. Chosen[k] = RowPhoto(cover)
    BY <1>2, <2>2
  <2>4. RowPhoto(cover).primary
    BY DEF RowPhoto, Photo
  <2>5. Chosen[k].primary
    BY <2>3, <2>4
  <2> QED
    BY <2>5
<1> QED
  BY <1>1, <1>2, <1>3 DEF ChosenRight

-----------------------------------------------------------------------------
(* The seller                                                               *)

\* Taking an element out of a sequence leaves a sequence of the same set.
LEMMA RemoveAtTyped ==
  ASSUME NEW S, NEW s \in Seq(S), NEW i \in 1..Len(s)
  PROVE  RemoveAt(s, i) \in Seq(S) /\ Len(RemoveAt(s, i)) = Len(s) - 1
<1>1. Len(s) \in Nat /\ \A k \in 1..Len(s) : s[k] \in S
  BY LenProperties, ElementOfSeq
<1>2. SubSeq(s, 1, i - 1) \in Seq(S) /\ Len(SubSeq(s, 1, i - 1)) = i - 1
  BY <1>1, SubSeqProperties
<1>3. SubSeq(s, i + 1, Len(s)) \in Seq(S) /\ Len(SubSeq(s, i + 1, Len(s))) = Len(s) - i
  BY <1>1, SubSeqProperties
<1> DEFINE before == SubSeq(s, 1, i - 1)
           after == SubSeq(s, i + 1, Len(s))
<1>4. RemoveAt(s, i) = before \o after
  BY DEF RemoveAt
<1> HIDE DEF before, after
<1>5. before \o after \in Seq(S) /\ Len(before \o after) = Len(before) + Len(after)
  <2>1. before \in Seq(S) /\ after \in Seq(S)
    BY <1>2, <1>3 DEF before, after
  <2> QED
    BY <2>1, ConcatProperties
<1>6. Len(before) + Len(after) = Len(s) - 1
  <2>1. Len(before) = i - 1 /\ Len(after) = Len(s) - i
    BY <1>2, <1>3 DEF before, after
  <2> QED
    BY <1>1, <2>1
<1> QED
  BY <1>4, <1>5, <1>6

\* Choosing, removing and ordering photos keeps the invariant of the saves.
LEMMA EditingKeepsSaving ==
  ASSUME SavingInv,
         \/ OnFilesSelected \/ RemoveExistingPhoto
         \/ \E i \in DOMAIN rows : RemovePhotoRow(i) \/ SetCoverPhoto(i)
  PROVE  SavingInv'
<1>1. /\ ads \in Seq(SavedAd) /\ rows \in Seq(Nat) /\ picked \in Nat /\ editing \in 0..Len(ads)
      /\ DOMAIN rows = 1..Len(rows) /\ Len(ads) \in Nat /\ Len(rows) \in Nat
      /\ cover \in Nat \ {0} /\ (cover = 1 \/ cover <= Len(rows))
  BY LenProperties DEF SavingInv, SavingTyped
<1>2. CASE OnFilesSelected
  <2>1. /\ EditsPhotos /\ UNCHANGED <<ads, cover>>
        /\ picked' = picked + 1 /\ rows' = Append(rows, picked')
    BY <1>2 DEF OnFilesSelected
  <2>2. picked' \in Nat /\ rows' \in Seq(Nat) /\ Len(rows') = Len(rows) + 1
    BY <1>1, <2>1, AppendProperties
  <2> QED
    BY <1>1, <2>1, <2>2, EditsKeepSaving
<1>3. CASE RemoveExistingPhoto
  <2>1. EditsPhotos /\ editing \in 1..Len(ads) /\ UNCHANGED <<rows, picked, cover>>
    BY <1>1, <1>3 DEF RemoveExistingPhoto
  <2>2. PICK i \in DOMAIN ads[editing].photos :
          ads' = [ads EXCEPT ![editing].photos = RemoveAt(@, i)]
    BY <1>3 DEF RemoveExistingPhoto
  <2>3. ads[editing] \in SavedAd
    BY <1>1, <2>1, ElementOfSeq
  <2>4. ads[editing].photos \in Seq(PhotoSet)
    BY <2>3 DEF SavedAd
  <2>5. RemoveAt(ads[editing].photos, i) \in Seq(PhotoSet)
    BY <2>2, <2>4, RemoveAtTyped, LenProperties
  <2>6. [ads[editing] EXCEPT !.photos = RemoveAt(@, i)] \in SavedAd
    BY <2>3, <2>5 DEF SavedAd
  <2>7. ads' = [ads EXCEPT ![editing] = [ads[editing] EXCEPT !.photos = RemoveAt(@, i)]]
    BY <2>2
  <2>8. ads' \in Seq(SavedAd) /\ Len(ads') = Len(ads)
    BY <1>1, <2>1, <2>6, <2>7, OneAdChanges
  <2> QED
    BY <1>1, <2>1, <2>8, EditsKeepSaving
<1>4. ASSUME NEW i \in DOMAIN rows, RemovePhotoRow(i) PROVE SavingInv'
  <2>1. EditsPhotos /\ UNCHANGED <<ads, picked>> /\ rows' = RemoveAt(rows, i)
    BY <1>4 DEF RemovePhotoRow
  <2>2. rows' \in Seq(Nat) /\ Len(rows') = Len(rows) - 1 /\ i \in 1..Len(rows)
    BY <1>1, <2>1, RemoveAtTyped
  <2>3. cover' = IF i < cover THEN cover - 1 ELSE IF i = cover THEN 1 ELSE cover
    BY <1>4 DEF RemovePhotoRow
  <2>4. cover' \in Nat \ {0} /\ (cover' = 1 \/ cover' <= Len(rows'))
    BY <1>1, <2>2, <2>3
  <2> QED
    BY <1>1, <2>1, <2>2, <2>4, EditsKeepSaving
<1>5. ASSUME NEW i \in DOMAIN rows, SetCoverPhoto(i) PROVE SavingInv'
  BY <1>1, <1>5, EditsKeepSaving DEF SetCoverPhoto
<1> QED
  BY <1>2, <1>3, <1>4, <1>5

\* A click starts a save of what is chosen; the second one is a disturbance.
LEMMA ClickKeepsSaving ==
  ASSUME SavingInv, NEW b \in Buttons, Click(b)
  PROVE  SavingInv'
<1> DEFINE s == [NoSave EXCEPT !.pc = FirstCall(b), !.ad = editing, !.chosen = Chosen, !.had = Len(Shown)]
<1>1. /\ save' = [save EXCEPT ![b] = s] /\ clicks' = clicks + 1 /\ disturbed' = (disturbed \/ clicks > 0)
      /\ UNCHANGED <<ads, editing, opened, rows, picked, cover, left>> /\ ~left /\ Offered(b)
  BY DEF Click
<1>2. /\ SavingTyped /\ Len(ads) \in Nat /\ clicks \in Nat /\ editing \in 0..Len(ads)
      /\ save \in [Buttons -> SaveSet] /\ disturbed \in BOOLEAN
  BY LenProperties DEF SavingInv, SavingTyped
<1>3. Chosen \in Seq(PhotoSet) /\ Len(Shown) \in Nat
  BY <1>2, ChosenTyped, LenProperties
<1>4. FirstCall(b) \in {"photos", "decide", "persist"}
  BY DEF FirstCall
<1>5. /\ s \in SaveSet /\ s.pc = FirstCall(b) /\ s.ad = editing /\ s.chosen = Chosen /\ s.i = 1
      /\ s.had = Len(Shown)
  <2>1. NoSave \in SaveSet /\ NoSave.i = 1
    BY EmptySeq DEF NoSave, SaveSet
  <2>2. editing \in Nat
    BY <1>2
  <2> QED
    BY <1>3, <1>4, <2>1, <2>2 DEF SaveSet
<1> HIDE DEF s
<1>6. /\ save' \in [Buttons -> SaveSet] /\ save'[b] = s /\ \A c \in Buttons \ {b} : save'[c] = save[c]
  BY <1>1, <1>2, <1>5
<1>7. FirstCall(b) # "persist" => editing # 0
  <2>1. b \in {"content", "validate", "reject"} => opened # "none"
    BY <1>1 DEF Offered
  <2>2. FirstCall(b) # "persist" => b \in {"content", "validate", "reject"}
    BY DEF FirstCall
  <2> QED
    BY <1>2, <2>1, <2>2 DEF SavingTyped
<1>8. SavingTyped'
  <2>1. ASSUME NEW c \in Buttons, save'[c].pc \in {"photos", "upload", "decide", "done"}
        PROVE  save'[c].ad \in 1..Len(ads')
    <3>1. CASE c = b
      BY <1>1, <1>2, <1>5, <1>6, <1>7, <2>1, <3>1
    <3>2. CASE c # b
      BY <1>1, <1>2, <1>6, <2>1, <3>2 DEF SavingTyped
    <3> QED
      BY <3>1, <3>2
  <2> QED
    BY <1>1, <1>2, <1>6, <2>1 DEF SavingTyped
<1>9. ASSUME ~disturbed' PROVE OnlySave' /\ \A c \in SellersButtons : ~save'[c].failed => AsChosen(save[c])'
  <2>1. clicks = 0 /\ ~disturbed
    <3>1. ~(clicks > 0) /\ ~disturbed
      BY <1>1, <1>9
    <3> QED
      BY <1>2, <3>1
  <2>2. \A c \in Buttons : save[c].pc = "idle"
    BY <2>1 DEF SavingInv, OnlySave
  <2>3. \A c \in Buttons \ {b} : save'[c].pc = "idle"
    BY <1>6, <2>2
  <2>4. OnlySave'
    BY <1>1, <1>2, <1>4, <1>5, <1>6, <2>1, <2>3 DEF OnlySave
  <2>5. Chosen' = Chosen
    BY <1>1 DEF Chosen, Shown
  <2>6. ASSUME b \in SellersButtons PROVE AsChosen(save[b])'
    <3>1. FirstCall(b) # "decide"
      BY <2>6 DEF FirstCall, SellersButtons
    <3>2. ASSUME FirstCall(b) = "photos" PROVE UploadedSoFar(save[b])'
      <4>1. editing # 0 /\ editing \in 1..Len(ads)
        BY <1>2, <1>7, <3>2
      <4>2. /\ ads[editing].photos \in Seq(PhotoSet) /\ Len(Chosen) = Len(ads[editing].photos) + Len(rows)
            /\ \A k \in 1..Len(Chosen) :
                 Chosen[k] = IF k <= Len(ads[editing].photos) THEN ads[editing].photos[k]
                             ELSE RowPhoto(k - Len(ads[editing].photos))
        BY <1>2, <4>1, ChosenTyped DEF Shown
      <4>3. Len(ads[editing].photos) \in Nat /\ Len(rows) \in Nat
        BY <1>2, <4>2, LenProperties DEF SavingTyped
      <4>4. ASSUME NEW k \in 1..Len(Chosen)
            PROVE  k + Len(rows) - Len(Chosen) = k - Len(ads[editing].photos)
        BY <4>2, <4>3
      <4>5. \A k \in 1..Len(Chosen) : Chosen[k] = StillTo(s, k)
        BY <1>5, <4>2, <4>4 DEF StillTo, RowPhoto
      <4>6. UploadedSoFar(s)
        BY <1>5, <4>2, <4>3, <4>5 DEF UploadedSoFar
      <4>7. save'[b] = s
        BY <1>6
      <4> QED
        BY <1>1, <1>6, <4>6 DEF UploadedSoFar, StillTo
    <3> QED
      BY <1>4, <1>5, <1>6, <2>5, <3>1, <3>2 DEF AsChosen
  <2>7. ASSUME NEW c \in SellersButtons \ {b} PROVE AsChosen(save[c])'
    BY <2>3, <2>7 DEF AsChosen, SellersButtons, Buttons
  <2> QED
    BY <2>4, <2>6, <2>7
<1>10. ASSUME NEW c \in Buttons PROVE ChosenRight(save[c])'
  <2>1. CASE c = b
    BY <1>2, <1>5, <1>6, <2>1, ChosenAtClick
  <2>2. CASE c # b
    BY <1>6, <2>2 DEF SavingInv, ChosenRight
  <2> QED
    BY <2>1, <2>2
<1> QED
  BY <1>8, <1>9, <1>10 DEF SavingInv

-----------------------------------------------------------------------------
(* The steps of a save                                                      *)

\* Persists: the first save of a new ad starts it without photos.
LEMMA PersistsKeepsSaving ==
  ASSUME SavingInv, NEW b \in Buttons, Persists(b)
  PROVE  SavingInv'
<1> DEFINE new == [status |-> "DRAFT", photos |-> <<>>]
           n == IF editing = 0 THEN Len(ads) + 1 ELSE editing
<1>1. /\ save[b].pc = "persist" /\ save' = [save EXCEPT ![b] = [save[b] EXCEPT !.pc = "photos", !.ad = n]]
      /\ ads' = (IF editing = 0 THEN Append(ads, new) ELSE ads)
      /\ UNCHANGED <<editing, opened, rows, picked, cover, left, clicks, disturbed>>
  BY DEF Persists, Becomes
<1>2. /\ SavingTyped /\ ads \in Seq(SavedAd) /\ Len(ads) \in Nat /\ editing \in 0..Len(ads)
      /\ save \in [Buttons -> SaveSet] /\ left \in BOOLEAN /\ rows \in Seq(Nat) /\ Len(rows) \in Nat
  BY LenProperties DEF SavingInv, SavingTyped
<1>3. new \in SavedAd
  BY EmptySeq DEF SavedAd
<1>4. Append(ads, new) \in Seq(SavedAd) /\ Len(Append(ads, new)) = Len(ads) + 1
      /\ Append(ads, new)[Len(ads) + 1] = new
  BY <1>2, <1>3, AppendProperties
<1>5. ads' \in Seq(SavedAd) /\ Len(ads) <= Len(ads') /\ n \in 1..Len(ads')
  BY <1>1, <1>2, <1>4
<1>6. n \in Nat
  BY <1>2
<1> HIDE DEF new, n
<1>7. /\ save'[b] = [save[b] EXCEPT !.pc = "photos", !.ad = n] /\ save'[b] \in SaveSet
      /\ save'[b].pc = "photos" /\ save'[b].ad = n /\ save'[b].i = save[b].i
      /\ save'[b].chosen = save[b].chosen /\ save'[b].had = save[b].had
      /\ save'[b].failed = save[b].failed
  BY <1>1, <1>2, <1>6 DEF SaveSet
<1>8. ASSUME ~disturbed, ~save'[b].failed, b \in SellersButtons PROVE AsChosen(save[b])'
  <2>1. save[b].chosen = Chosen
    BY <1>1, <1>7, <1>8 DEF SavingInv, AsChosen
  <2> DEFINE before == Shown
  <2>2. /\ before \in Seq(PhotoSet) /\ Len(Chosen) = Len(before) + Len(rows)
        /\ \A k \in 1..Len(Chosen) :
             Chosen[k] = IF k <= Len(before) THEN before[k] ELSE RowPhoto(k - Len(before))
    BY <1>2, ChosenTyped
  <2>3. ads'[n].photos = before
    <3>1. CASE editing = 0
      BY <1>1, <1>4, <3>1 DEF new, n, Shown
    <3>2. CASE editing # 0
      BY <1>1, <3>2 DEF n, Shown
    <3> QED
      BY <3>1, <3>2
  <2> HIDE DEF before
  <2>4. Len(before) \in Nat
    BY <2>2, LenProperties
  <2>5. UploadedSoFar(save[b])'
    <3>1. save'[b].i = 1
      BY <1>1, <1>7, <1>8 DEF SavingInv, AsChosen
    <3>2. Len(ads'[n].photos) + Len(rows) + 1 = Len(Chosen) + 1 /\ 1 <= Len(rows) + 1
      BY <1>2, <2>2, <2>3, <2>4
    <3>3. ASSUME NEW k \in 1..Len(Chosen) PROVE k + Len(rows) - Len(Chosen) = k - Len(before)
      BY <1>2, <2>2, <2>4
    <3>4. ASSUME NEW k \in 1..Len(Chosen) PROVE Chosen[k] = StillTo(save[b], k)'
      <4>1. StillTo(save[b], k)' = IF k <= Len(before) THEN before[k]
                                   ELSE RowPhoto(k + Len(rows) - Len(Chosen))
        <5>1. /\ save'[b].chosen = Chosen /\ ads'[save'[b].ad].photos = before
              /\ rows' = rows /\ cover' = cover
          BY <1>1, <1>7, <2>1, <2>3
        <5> QED
          BY <5>1 DEF StillTo, RowPhoto
      <4> QED
        BY <2>2, <3>3, <4>1
    <3> QED
      BY <1>1, <1>7, <2>1, <3>1, <3>2, <3>4 DEF UploadedSoFar
  <2> QED
    BY <1>7, <2>5 DEF AsChosen
<1>9. ChosenRight(save'[b])
  BY <1>7, ChosenStays
<1> QED
  BY <1>1, <1>2, <1>5, <1>7, <1>8, <1>9, SaveMoves

\* TakesFile.
LEMMA TakesFileKeepsSaving ==
  ASSUME SavingInv, NEW b \in Buttons, TakesFile(b)
  PROVE  SavingInv'
<1>1. /\ save[b].pc = "photos" /\ save[b].i <= Len(rows)
      /\ save' = [save EXCEPT ![b] = [save[b] EXCEPT !.pc = "upload", !.file = rows[save[b].i]]]
      /\ UNCHANGED <<ads, editing, opened, rows, picked, cover, left, clicks, disturbed>>
  BY DEF TakesFile, Becomes
<1>2. /\ ads \in Seq(SavedAd) /\ Len(ads) \in Nat /\ save \in [Buttons -> SaveSet]
      /\ left \in BOOLEAN /\ rows \in Seq(Nat) /\ Len(rows) \in Nat
  BY LenProperties DEF SavingInv, SavingTyped
<1>3. save[b].i \in 1..Len(rows)
  BY <1>1, <1>2 DEF SaveSet
<1>4. rows[save[b].i] \in Nat
  BY <1>2, <1>3, ElementOfSeq
<1>5. /\ save'[b] \in SaveSet /\ save'[b].pc = "upload" /\ save'[b].ad = save[b].ad
      /\ save'[b].i = save[b].i /\ save'[b].file = rows[save[b].i]
      /\ save'[b].chosen = save[b].chosen /\ save'[b].had = save[b].had
      /\ save'[b].failed = save[b].failed
      /\ save' = [save EXCEPT ![b] = save'[b]]
  BY <1>1, <1>2, <1>4 DEF SaveSet
<1>6. Len(ads) <= Len(ads') /\ save'[b].ad \in 1..Len(ads')
  BY <1>1, <1>2, <1>5, SaveTyped
<1>7. ASSUME ~disturbed, ~save'[b].failed, b \in SellersButtons PROVE AsChosen(save[b])'
  <2>1. UploadedSoFar(save[b])
    BY <1>1, <1>5, <1>7 DEF SavingInv, AsChosen
  <2>2. UploadedSoFar(save[b])'
    BY <1>1, <1>5, <2>1 DEF UploadedSoFar, StillTo
  <2> QED
    BY <1>1, <1>5, <2>2 DEF AsChosen
<1>8. ChosenRight(save'[b])
  BY <1>5, ChosenStays
<1> QED
  BY <1>1, <1>2, <1>5, <1>6, <1>7, <1>8, SaveMoves

\* A photo that was registered joins those of the ad.
LEMMA PhotoRegistered ==
  ASSUME SavingInv, NEW b \in Buttons, save[b].pc = "upload", NEW photo \in PhotoSet,
         ads' = [ads EXCEPT ![save[b].ad].photos = Append(@, photo)]
  PROVE  /\ ads' \in Seq(SavedAd) /\ Len(ads') = Len(ads)
         /\ ads'[save[b].ad].photos = Append(ads[save[b].ad].photos, photo)
<1>1. /\ ads \in Seq(SavedAd) /\ save[b].ad \in 1..Len(ads) /\ ads[save[b].ad] \in SavedAd
      /\ ads[save[b].ad].photos \in Seq(PhotoSet)
  BY SaveTyped
<1>2. Append(ads[save[b].ad].photos, photo) \in Seq(PhotoSet)
  BY <1>1, AppendProperties
<1> DEFINE ad == [ads[save[b].ad] EXCEPT !.photos = Append(@, photo)]
<1>3. ad \in SavedAd /\ ad.photos = Append(ads[save[b].ad].photos, photo)
  BY <1>1, <1>2 DEF SavedAd
<1>4. ads' = [ads EXCEPT ![save[b].ad] = ad]
  OBVIOUS
<1> HIDE DEF ad
<1> QED
  BY <1>1, <1>3, <1>4, ExceptSeq

\* Registers: the photo is the one whose turn it was.
LEMMA RegistersKeepsSaving ==
  ASSUME SavingInv, NEW b \in Buttons, Registers(b)
  PROVE  SavingInv'
<1> DEFINE photo == Photo(save[b].file, IsCover(save[b].i), SortOrder(save[b].i))
<1>1. /\ save[b].pc = "upload" /\ ads' = [ads EXCEPT ![save[b].ad].photos = Append(@, photo)]
      /\ save' = [save EXCEPT ![b] = [save[b] EXCEPT !.pc = "photos", !.i = @ + 1]]
      /\ UNCHANGED <<editing, opened, rows, picked, cover, left, clicks, disturbed>>
  BY DEF Registers, Becomes
<1>2. /\ ads \in Seq(SavedAd) /\ Len(ads) \in Nat /\ save \in [Buttons -> SaveSet]
      /\ left \in BOOLEAN /\ rows \in Seq(Nat) /\ Len(rows) \in Nat
  BY LenProperties DEF SavingInv, SavingTyped
<1>3. /\ save[b] \in SaveSet /\ save[b].ad \in 1..Len(ads) /\ ads[save[b].ad].photos \in Seq(PhotoSet)
      /\ Len(ads[save[b].ad].photos) \in Nat /\ save[b].i \in Nat \ {0}
  BY <1>1, SaveTyped DEF SaveSet
<1>4. photo \in PhotoSet
  BY <1>3 DEF Photo, PhotoSet, IsCover, SortOrder, SaveSet
<1>5. PICK p \in PhotoSet : p = photo
  BY <1>4
<1> HIDE DEF photo
<1>6. /\ ads' \in Seq(SavedAd) /\ Len(ads') = Len(ads)
      /\ ads'[save[b].ad].photos = Append(ads[save[b].ad].photos, p)
  BY <1>1, <1>5, PhotoRegistered
<1>7. /\ save'[b] \in SaveSet /\ save'[b].pc = "photos" /\ save'[b].ad = save[b].ad
      /\ save'[b].i = save[b].i + 1 /\ save'[b].chosen = save[b].chosen
      /\ save'[b].had = save[b].had /\ save'[b].failed = save[b].failed
      /\ save' = [save EXCEPT ![b] = save'[b]]
  <2>1. save[b].i + 1 \in Nat \ {0}
    BY <1>3
  <2>2. save'[b] = [save[b] EXCEPT !.pc = "photos", !.i = save[b].i + 1]
    BY <1>1, <1>2
  <2> QED
    BY <1>1, <1>2, <1>3, <2>1, <2>2 DEF SaveSet
<1>8. Len(ads) <= Len(ads') /\ save'[b].ad \in 1..Len(ads')
  BY <1>2, <1>3, <1>6, <1>7
<1>9. ASSUME ~disturbed, ~save'[b].failed, b \in SellersButtons PROVE AsChosen(save[b])'
  <2> DEFINE before == ads[save[b].ad].photos
             all == save[b].chosen
  <2>1. UploadedSoFar(save[b]) /\ save[b].i <= Len(rows) /\ save[b].file = rows[save[b].i]
    BY <1>1, <1>7, <1>9 DEF SavingInv, AsChosen
  <2>2. /\ ads'[save[b].ad].photos = Append(before, p) /\ Len(Append(before, p)) = Len(before) + 1
        /\ \A k \in 1..Len(before) : Append(before, p)[k] = before[k]
        /\ Append(before, p)[Len(before) + 1] = p
    BY <1>3, <1>6, AppendProperties
  <2>3. /\ Len(all) \in Nat /\ Len(before) \in Nat /\ Len(rows) \in Nat /\ save[b].i \in Nat
        /\ Len(before) + Len(rows) + 1 = Len(all) + save[b].i
    BY <1>2, <1>3, <2>1, LenProperties DEF UploadedSoFar, SaveSet
  <2>4. p = Photo(rows[save[b].i], save[b].i = cover, save[b].i - 1)
    BY <1>5, <2>1 DEF photo, IsCover, SortOrder
  <2> HIDE DEF before, all
  <2>5. ASSUME NEW k \in 1..Len(all) PROVE all[k] = StillTo(save[b], k)'
    <3>1. all[k] = StillTo(save[b], k)
      BY <2>1, <2>5 DEF UploadedSoFar, all
    <3>2. CASE k <= Len(before)
      <4>1. k \in 1..Len(before) /\ k <= Len(before) + 1
        BY <2>3, <2>5, <3>2
      <4> QED
        BY <1>7, <2>2, <3>1, <3>2, <4>1 DEF StillTo, before, all
    <3>3. CASE k = Len(before) + 1
      <4>1. k + Len(rows) - Len(all) = save[b].i /\ ~(k <= Len(before))
        BY <2>3, <2>5, <3>3
      <4>2. all[k] = p
        BY <2>4, <3>1, <4>1 DEF StillTo, before, all
      <4>3. k <= Len(before) + 1
        BY <2>3, <3>3
      <4> QED
        BY <1>7, <2>2, <3>3, <4>2, <4>3 DEF StillTo, before, all
    <3>4. CASE k > Len(before) + 1
      <4>1. ~(k <= Len(before)) /\ ~(k <= Len(before) + 1)
        BY <2>3, <2>5, <3>4
      <4> QED
        BY <1>1, <1>7, <2>2, <3>1, <4>1 DEF StillTo, before, all
    <3> QED
      <4>1. k \in Nat
        BY <2>3, <2>5
      <4>2. k <= Len(before) \/ k = Len(before) + 1 \/ k > Len(before) + 1
        BY <2>3, <4>1
      <4> QED
        BY <3>2, <3>3, <3>4, <4>2
  <2>6. /\ Len(before) + 1 + Len(rows) + 1 = Len(all) + (save[b].i + 1)
        /\ save[b].i + 1 <= Len(rows) + 1
    <3>1. save[b].i <= Len(rows)
      BY <2>1
    <3> QED
      BY <2>3, <3>1
  <2>7. UploadedSoFar(save[b])'
    BY <1>1, <1>7, <2>2, <2>5, <2>6 DEF UploadedSoFar, before, all
  <2> QED
    BY <1>7, <2>7 DEF AsChosen
<1>10. ChosenRight(save'[b])
  BY <1>7, ChosenStays
<1> QED
  BY <1>1, <1>2, <1>6, <1>7, <1>8, <1>9, <1>10, SaveMoves

\* UploadFails: the save is marked, and promises nothing any more.
LEMMA UploadFailsKeepsSaving ==
  ASSUME SavingInv, NEW b \in Buttons, UploadFails(b)
  PROVE  SavingInv'
<1> DEFINE photo == Photo(save[b].file, IsCover(save[b].i), SortOrder(save[b].i))
<1>1. /\ save[b].pc = "upload" /\ save' = [save EXCEPT ![b] = SkippedPhoto(save[b])]
      /\ UNCHANGED <<editing, opened, rows, picked, cover, left, clicks, disturbed>>
      /\ UNCHANGED ads \/ ads' = [ads EXCEPT ![save[b].ad].photos = Append(@, photo)]
  BY DEF UploadFails, Becomes
<1>2. /\ ads \in Seq(SavedAd) /\ Len(ads) \in Nat /\ save \in [Buttons -> SaveSet] /\ left \in BOOLEAN
  BY LenProperties DEF SavingInv, SavingTyped
<1>3. save[b] \in SaveSet /\ save[b].ad \in 1..Len(ads) /\ save[b].i \in Nat \ {0}
  BY <1>1, SaveTyped DEF SaveSet
<1>4. photo \in PhotoSet
  BY <1>3 DEF Photo, PhotoSet, IsCover, SortOrder, SaveSet
<1>5. PICK p \in PhotoSet : p = photo
  BY <1>4
<1> HIDE DEF photo
<1>6. ads' \in Seq(SavedAd) /\ Len(ads') = Len(ads)
  BY <1>1, <1>2, <1>5, PhotoRegistered
<1>7. /\ save'[b] \in SaveSet /\ save'[b].pc = "photos" /\ save'[b].ad = save[b].ad
      /\ save'[b].chosen = save[b].chosen /\ save'[b].had = save[b].had
      /\ save'[b].failed /\ save' = [save EXCEPT ![b] = save'[b]]
  <2>1. save[b].i + 1 \in Nat \ {0}
    BY <1>3
  <2>2. save'[b] = [save[b] EXCEPT !.pc = "photos", !.i = save[b].i + 1, !.failed = TRUE]
    BY <1>1, <1>2 DEF SkippedPhoto
  <2> QED
    BY <1>1, <1>2, <1>3, <2>1, <2>2 DEF SaveSet
<1>8. Len(ads) <= Len(ads') /\ save'[b].ad \in 1..Len(ads')
  BY <1>2, <1>3, <1>6, <1>7
<1>9. ChosenRight(save'[b])
  BY <1>7, ChosenStays
<1> QED
  BY <1>1, <1>2, <1>6, <1>7, <1>8, <1>9, SaveMoves

\* A decision changes the status of the ad alone.
LEMMA StatusChanges ==
  ASSUME SavingInv, NEW b \in Buttons, AtLastCall(b), ToReview(b)
  PROVE  /\ ads' \in Seq(SavedAd) /\ Len(ads') = Len(ads)
         /\ ads'[save[b].ad].photos = ads[save[b].ad].photos
<1>1. save[b].pc \in {"photos", "decide"}
  BY DEF AtLastCall
<1>2. ads \in Seq(SavedAd) /\ save[b].ad \in 1..Len(ads) /\ ads[save[b].ad] \in SavedAd
  BY <1>1, SaveTyped
<1> DEFINE ad == [ads[save[b].ad] EXCEPT !.status = Reviewed(b, @)]
<1>3. Reviewed(b, ads[save[b].ad].status) \in {"DRAFT", "REVIEW", "VALIDATED", "REJECTED"}
  BY <1>2 DEF Reviewed, SavedAd
<1>4. ad \in SavedAd /\ ad.photos = ads[save[b].ad].photos
  BY <1>2, <1>3 DEF SavedAd
<1>5. ads' = [ads EXCEPT ![save[b].ad] = ad]
  BY DEF ToReview
<1> HIDE DEF ad
<1> QED
  BY <1>2, <1>4, <1>5, ExceptSeq

\* Ends: no row is left to upload, and the ad has what was chosen.
LEMMA EndsKeepsSaving ==
  ASSUME SavingInv, NEW b \in Buttons, Ends(b)
  PROVE  SavingInv'
<1>1. /\ AtLastCall(b) /\ ToReview(b) /\ save' = [save EXCEPT ![b] = [save[b] EXCEPT !.pc = "done"]]
      /\ left' = TRUE /\ UNCHANGED <<editing, opened, rows, picked, cover, clicks, disturbed>>
  BY DEF Ends, Becomes
<1>2. save[b].pc \in {"photos", "decide"}
  BY <1>1 DEF AtLastCall
<1>3. /\ save[b] \in SaveSet /\ save[b].ad \in 1..Len(ads) /\ Len(ads) \in Nat
      /\ ads[save[b].ad].photos \in Seq(PhotoSet) /\ Len(ads[save[b].ad].photos) \in Nat
  BY <1>2, SaveTyped
<1>4. save \in [Buttons -> SaveSet] /\ rows \in Seq(Nat) /\ Len(rows) \in Nat
  BY LenProperties DEF SavingInv, SavingTyped
<1>5. /\ ads' \in Seq(SavedAd) /\ Len(ads') = Len(ads)
      /\ ads'[save[b].ad].photos = ads[save[b].ad].photos
  BY <1>1, StatusChanges
<1>6. /\ save'[b] \in SaveSet /\ save'[b].pc = "done" /\ save'[b].ad = save[b].ad
      /\ save'[b].chosen = save[b].chosen /\ save'[b].had = save[b].had
      /\ save'[b].failed = save[b].failed
      /\ save' = [save EXCEPT ![b] = save'[b]]
  BY <1>1, <1>3, <1>4 DEF SaveSet
<1>7. ASSUME ~disturbed, ~save'[b].failed, b \in SellersButtons PROVE AsChosen(save[b])'
  <2>1. save[b].pc = "photos" /\ UploadedSoFar(save[b]) /\ save[b].i > Len(rows)
    BY <1>1, <1>2, <1>6, <1>7 DEF SavingInv, AsChosen, AtLastCall
  <2> DEFINE before == ads[save[b].ad].photos
             all == save[b].chosen
  <2>2. all \in Seq(PhotoSet) /\ Len(all) \in Nat
    BY <1>3, LenProperties DEF SaveSet
  <2>3. Len(before) = Len(all)
    BY <1>3, <1>4, <2>1, <2>2 DEF UploadedSoFar, SaveSet
  <2>4. \A k \in 1..Len(before) : before[k] = all[k]
    BY <2>1, <2>2, <2>3 DEF UploadedSoFar, StillTo
  <2>5. before = all
    BY <1>3, <2>2, <2>3, <2>4, SeqEqual
  <2> QED
    BY <1>5, <1>6, <2>5 DEF AsChosen
<1>8. Len(ads) <= Len(ads') /\ save'[b].ad \in 1..Len(ads')
  BY <1>3, <1>5, <1>6
<1>9. ChosenRight(save'[b])
  BY <1>6, ChosenStays
<1> QED
  BY <1>1, <1>2, <1>5, <1>6, <1>7, <1>8, <1>9, SaveMoves

\* SaveFails: the button is free again.
LEMMA SaveFailsKeepsSaving ==
  ASSUME SavingInv, NEW b \in Buttons, SaveFails(b)
  PROVE  SavingInv'
<1> DEFINE new == [status |-> "DRAFT", photos |-> <<>>]
<1>1. /\ save[b].pc # "idle" /\ save' = [save EXCEPT ![b] = NoSave]
      /\ UNCHANGED <<editing, opened, rows, picked, cover, left, clicks, disturbed>>
      /\ UNCHANGED ads \/ ads' = Append(ads, new) \/ (AtLastCall(b) /\ ToReview(b))
  BY DEF SaveFails, Becomes, AtLastCall
<1>2. ads \in Seq(SavedAd) /\ Len(ads) \in Nat /\ save \in [Buttons -> SaveSet] /\ left \in BOOLEAN
  BY LenProperties DEF SavingInv, SavingTyped
<1>3. ads' \in Seq(SavedAd) /\ Len(ads) <= Len(ads')
  <2>1. CASE UNCHANGED ads
    BY <1>2, <2>1
  <2>2. CASE ads' = Append(ads, new)
    <3>1. new \in SavedAd
      BY EmptySeq DEF SavedAd
    <3>2. ads' \in Seq(SavedAd) /\ Len(ads') = Len(ads) + 1
      BY <1>2, <2>2, <3>1, AppendProperties
    <3> QED
      BY <1>2, <3>2
  <2>3. CASE AtLastCall(b) /\ ToReview(b)
    BY <1>2, <2>3, StatusChanges
  <2> QED
    BY <1>1, <2>1, <2>2, <2>3
<1>4. NoSave \in SaveSet /\ NoSave.pc = "idle"
  BY EmptySeq DEF NoSave, SaveSet
<1>5. save'[b] = NoSave /\ save' = [save EXCEPT ![b] = save'[b]]
  BY <1>1, <1>2
<1>6. AsChosen(save[b])'
  BY <1>4, <1>5 DEF AsChosen
<1>7. ChosenRight(NoSave)
  BY NothingChosen
<1> QED
  BY <1>1, <1>2, <1>3, <1>4, <1>5, <1>6, <1>7, SaveMoves

-----------------------------------------------------------------------------
(* The theorem                                                              *)

\* One photo is a sequence of photos.
LEMMA SinglePhoto ==
  ASSUME NEW photo \in PhotoSet
  PROVE  <<photo>> \in Seq(PhotoSet)
  OBVIOUS

\* No save is under way when the route is entered.
LEMMA SavingInvInit ==
  ASSUME FrontInit
  PROVE  SavingInv
<1>1. PICK status \in {"none", "DRAFT", "REVIEW", "VALIDATED"}, marked \in BOOLEAN : SavingStarts(status, marked)
  BY DEF FrontInit, SavingInit
<1>2. NoSave \in SaveSet /\ NoSave.pc = "idle"
  BY EmptySeq DEF NoSave, SaveSet
<1>3. save \in [Buttons -> SaveSet] /\ \A b \in Buttons : save[b].pc = "idle"
  BY <1>1, <1>2 DEF SavingStarts
<1>4. ads \in Seq(SavedAd) /\ Len(ads) = IF opened = "none" THEN 0 ELSE 1
  <2>1. CASE opened = "none"
    BY <1>1, <2>1, EmptySeq DEF SavingStarts
  <2>2. CASE opened # "none"
    <3> DEFINE ad == [status |-> opened, photos |-> Earlier(marked)]
    <3>1. Earlier(marked) \in Seq(PhotoSet)
      <4>1. Photo(0, marked, IF marked THEN 0 ELSE 1) \in PhotoSet
        BY <1>1 DEF Photo, PhotoSet
      <4> QED
        BY <4>1, SinglePhoto DEF Earlier
    <3>2. ad \in SavedAd
      <4>1. opened \in {"DRAFT", "REVIEW", "VALIDATED"}
        BY <1>1, <2>2 DEF SavingStarts
      <4> QED
        BY <3>1, <4>1 DEF SavedAd
    <3>3. ads = <<ad>>
      BY <1>1, <2>2 DEF SavingStarts
    <3> HIDE DEF ad
    <3> QED
      BY <2>2, <3>2, <3>3
  <2> QED
    BY <2>1, <2>2
<1>5. SavingTyped
  <2>1. editing \in 0..Len(ads) /\ (editing = 0 <=> opened = "none")
    BY <1>1, <1>4 DEF SavingStarts
  <2>2. rows \in Seq(Nat) /\ cover = 1 /\ picked \in Nat /\ clicks \in Nat /\ {left, disturbed} \subseteq BOOLEAN
    BY <1>1, EmptySeq DEF SavingStarts
  <2> QED
    BY <1>3, <1>4, <2>1, <2>2 DEF SavingTyped
<1>6. OnlySave /\ \A b \in SellersButtons : AsChosen(save[b])
  BY <1>1, <1>3 DEF OnlySave, AsChosen, SellersButtons, Buttons
<1>7. \A b \in Buttons : ChosenRight(save[b])
  BY <1>1, NothingChosen DEF SavingStarts
<1> QED
  BY <1>5, <1>6, <1>7 DEF SavingInv

\* The invariant of the saves is inductive, and the other routes leave them alone.
LEMMA SavingInvStep ==
  ASSUME SavingInv, [FrontNext]_frontVars
  PROVE  SavingInv'
<1>1. CASE UNCHANGED savingVars
  <2>1. SavingTyped'
    BY <1>1 DEF savingVars, SavingInv, SavingTyped
  <2>2. OnlySave => OnlySave'
    BY <1>1 DEF savingVars, OnlySave
  <2>3. ASSUME NEW b \in SellersButtons, AsChosen(save[b]) PROVE AsChosen(save[b])'
    BY <1>1, <2>3 DEF savingVars, AsChosen, UploadedSoFar, StillTo, Chosen, Shown
  <2>4. \A b \in Buttons : ChosenRight(save[b])'
    BY <1>1 DEF savingVars, SavingInv
  <2> QED
    BY <1>1, <2>1, <2>2, <2>3, <2>4 DEF savingVars, SavingInv
<1>2. CASE SavingNext
  <2>1. CASE \/ OnFilesSelected \/ RemoveExistingPhoto
             \/ \E i \in DOMAIN rows : RemovePhotoRow(i) \/ SetCoverPhoto(i)
    BY <2>1, EditingKeepsSaving
  <2>2. ASSUME NEW b \in Buttons,
               \/ Click(b) \/ Persists(b) \/ TakesFile(b) \/ Registers(b) \/ UploadFails(b)
               \/ Ends(b) \/ SaveFails(b)
        PROVE  SavingInv'
    BY <2>2, ClickKeepsSaving, PersistsKeepsSaving, TakesFileKeepsSaving, RegistersKeepsSaving,
       UploadFailsKeepsSaving, EndsKeepsSaving, SaveFailsKeepsSaving
  <2> QED
    BY <1>2, <2>1, <2>2 DEF SavingNext
<1> QED
  BY <1>1, <1>2 DEF FrontNext, frontVars

\* So it holds throughout.
LEMMA SavingInvariant == FrontSpec => []SavingInv
<1>1. FrontInit => SavingInv
  BY SavingInvInit
<1>2. SavingInv /\ [FrontNext]_frontVars => SavingInv'
  BY SavingInvStep
<1> QED
  BY <1>1, <1>2, PTL DEF FrontSpec

\* A gallery shows the new photos of a save in the order of their rows, after
\* the first one, which is marked as a cover if there are any.
LEMMA GalleriesRight ==
  ASSUME NEW s \in SaveSet, ChosenRight(s), NEW g \in Galleries(s.chosen)
  PROVE  LET New == DOMAIN s.chosen \ 1 .. s.had IN
         /\ \A i, j \in DOMAIN g \ {1} : g[i] \in New /\ g[j] \in New /\ g[i] < g[j] => i < j
         /\ New # {} => s.chosen[g[1]].primary
<1> DEFINE n == Len(s.chosen)
           New == DOMAIN s.chosen \ 1 .. s.had
<1>1. DOMAIN s.chosen = 1..n /\ n \in Nat /\ s.had \in Nat /\ s.had <= n
  BY LenProperties DEF SaveSet, ChosenRight
<1>2. g \in [1..n -> 1..n] /\ Shows(s.chosen, g)
  BY <1>1 DEF Galleries
<1>3. New = s.had + 1 .. n
  BY <1>1
<1>4. \A k \in New : s.chosen[k].order = k - s.had - 1
  BY <1>3 DEF ChosenRight
<1> HIDE DEF New, n
<1>5. ASSUME NEW i \in DOMAIN g \ {1}, NEW j \in DOMAIN g \ {1},
             g[i] \in New, g[j] \in New, g[i] < g[j]
      PROVE  i < j
  <2>1. i \in 1..n /\ j \in 1..n
    BY <1>2, <1>5
  <2>2. /\ s.chosen[g[i]].order = g[i] - s.had - 1
        /\ s.chosen[g[j]].order = g[j] - s.had - 1
    BY <1>4, <1>5
  <2>3. j < i => s.chosen[g[j]].order <= s.chosen[g[i]].order
    BY <1>2, <1>5 DEF Shows
  <2>4. g[i] \in Int /\ g[j] \in Int
    BY <1>1, <1>3, <1>5
  <2>5. ~(j < i)
    BY <1>1, <1>5, <2>2, <2>3, <2>4
  <2>6. i # j
    BY <1>5, <2>4
  <2> QED
    BY <1>1, <2>1, <2>5, <2>6
<1>6. ASSUME New # {} PROVE s.chosen[g[1]].primary
  <2>1. s.had < n
    BY <1>1, <1>3, <1>6
  <2>2. PICK k \in s.had + 1 .. n : s.chosen[k].primary
    BY <2>1 DEF ChosenRight, n
  <2>3. k \in DOMAIN s.chosen
    BY <1>1, <2>2
  <2> QED
    BY <1>2, <2>2, <2>3 DEF Shows
<1> QED
  BY <1>5, <1>6 DEF New

\* The create-ad page (uploadPendingPhotos, addPhoto): the first save of a visit
\* that takes its user away leaves the ad with the photos chosen at its click,
\* unless a photo failed or photos were changed meanwhile, and every page shows
\* the new ones in the order of their rows, after the cover.
THEOREM PhotosSaved == FrontSpec => []PhotosAsChosen
<1>1. ASSUME SavingInv PROVE PhotosAsChosen
  <2> SUFFICES ASSUME NEW b \in SellersButtons, save[b].pc = "done", ~save[b].failed, ~disturbed
               PROVE  LET s == save[b]
                          photos == ads[s.ad].photos
                          New == DOMAIN s.chosen \ 1 .. s.had
                      IN /\ DOMAIN photos = DOMAIN s.chosen
                         /\ \A k \in DOMAIN photos :
                              photos[k].file = s.chosen[k].file /\ photos[k].primary = s.chosen[k].primary
                         /\ \A g \in Galleries(photos) :
                              /\ \A i, j \in DOMAIN g \ {1} :
                                   g[i] \in New /\ g[j] \in New /\ g[i] < g[j] => i < j
                              /\ New # {} /\ (\A k \in 1 .. s.had : ~s.chosen[k].primary)
                                   => s.chosen[g[1]].primary
    BY DEF PhotosAsChosen, SellersButtons
  <2>1. b \in Buttons
    BY DEF SellersButtons, Buttons
  <2>2. save[b] \in SaveSet /\ ChosenRight(save[b])
    BY <1>1, <2>1 DEF SavingInv, SavingTyped
  <2>3. ads[save[b].ad].photos = save[b].chosen
    BY <1>1 DEF SavingInv, AsChosen
  <2> QED
    BY <2>2, <2>3, GalleriesRight
<1>2. SavingInv => PhotosAsChosen
  BY <1>1
<1> QED
  BY <1>2, SavingInvariant, PTL

-----------------------------------------------------------------------------
(* The feed of the homepage                                                 *)

\* How many elements of M come before i in the order.
Rung(order, M, i) == Cardinality({j \in M : <<j, i>> \in order}) + 1

\* Of a finite set put in a total order, one element stands at each place, and
\* what comes earlier stands at an earlier one.
LEMMA OnePerPlace ==
  ASSUME NEW M, IsFiniteSet(M), NEW order,
         \A i \in M : <<i, i>> \notin order,
         \A i, j, k \in M : <<i, j>> \in order /\ <<j, k>> \in order => <<i, k>> \in order,
         \A i, j \in M : i # j => <<i, j>> \in order \/ <<j, i>> \in order
  PROVE  /\ \A i \in M : Rung(order, M, i) \in 1 .. Cardinality(M)
         /\ \A i, j \in M : <<i, j>> \in order => Rung(order, M, i) < Rung(order, M, j)
         /\ \A n \in 1 .. Cardinality(M) : \E i \in M : Rung(order, M, i) = n
<1> DEFINE Below(i) == {j \in M : <<j, i>> \in order}
<1>1. \A i \in M : IsFiniteSet(Below(i)) /\ Cardinality(Below(i)) \in Nat
  BY FS_Subset, FS_CardinalityType
<1>2. ASSUME NEW i \in M
      PROVE  Rung(order, M, i) \in 1 .. Cardinality(M)
  <2>1. IsFiniteSet(M \ {i}) /\ Cardinality(M \ {i}) = Cardinality(M) - 1
    BY FS_RemoveElement
  <2>2. Below(i) \subseteq M \ {i}
    OBVIOUS
  <2>3. Cardinality(Below(i)) <= Cardinality(M \ {i})
    BY <2>1, <2>2, FS_Subset
  <2> QED
    BY <1>1, <2>1, <2>3, FS_CardinalityType DEF Rung
<1>3. ASSUME NEW i \in M, NEW j \in M, <<i, j>> \in order
      PROVE  Rung(order, M, i) < Rung(order, M, j)
  <2>1. Below(i) \union {i} \subseteq Below(j)
    BY <1>3
  <2>2. i \notin Below(i)
    OBVIOUS
  <2>3. IsFiniteSet(Below(i) \union {i}) /\ Cardinality(Below(i) \union {i}) = Cardinality(Below(i)) + 1
    BY <1>1, <2>2, FS_AddElement
  <2>4. Cardinality(Below(i) \union {i}) <= Cardinality(Below(j))
    BY <1>1, <2>1, FS_Subset
  <2> QED
    BY <1>1, <2>3, <2>4 DEF Rung
<1>4. ASSUME NEW n \in 1 .. Cardinality(M)
      PROVE  \E i \in M : Rung(order, M, i) = n
  <2> DEFINE place == [i \in M |-> Rung(order, M, i)]
  <2>1. place \in Injection(M, 1 .. Cardinality(M))
    <3>1. place \in [M -> 1 .. Cardinality(M)]
      BY <1>2
    <3>2. ASSUME NEW i \in M, NEW j \in M, i # j
          PROVE  place[i] # place[j]
      <4>1. \A m \in M : Rung(order, M, m) \in Int
        BY <1>2
      <4>2. Rung(order, M, i) < Rung(order, M, j) \/ Rung(order, M, j) < Rung(order, M, i)
        BY <1>3, <3>2
      <4> QED
        BY <4>1, <4>2
    <3> QED
      BY <3>1, <3>2 DEF Injection, IsInjective
  <2>2. Cardinality(M) \in Nat
    BY FS_CardinalityType
  <2>3. IsFiniteSet(1 .. Cardinality(M)) /\ Cardinality(1 .. Cardinality(M)) = Cardinality(M)
    BY <2>2, FS_Interval
  <2>4. place \in Surjection(M, 1 .. Cardinality(M))
    BY <2>1, <2>3, FS_Injection
  <2> QED
    BY <2>4 DEF Surjection
<1> QED
  BY <1>2, <1>3, <1>4

\* A list of auctions in which none stands twice.
Enumerates(s) == \E n \in Nat : s \in [1 .. n -> Auctions] /\ IsInjective(s)

Holds(s, a) == \E i \in DOMAIN s : s[i] = a

Matching(s) == {i \in DOMAIN s : MatchesFilters(s[i])}

\* Place i of the list comes before place j.
Comes(s, key, i, j) == key[s[i]] < key[s[j]] \/ (key[s[i]] = key[s[j]] /\ i < j)

\* The m cards show the places of the list that match, at[n] the n-th.
ShownAt(s, key, m, at) ==
  /\ Cards(s, key) = [n \in 1 .. m |-> s[at[n]]]
  /\ \A i \in Matching(s) : \E n \in 1 .. m : at[n] = i
  /\ \A k, n \in 1 .. m : k < n => Comes(s, key, at[k], at[n])

\* The cards are the places of the list that match, in order.
LEMMA CardsArePlaces ==
  ASSUME NEW s, Enumerates(s), NEW key \in [Auctions -> Int]
  PROVE  \E m \in Nat : \E at \in [1 .. m -> Matching(s)] : ShownAt(s, key, m, at)
<1> DEFINE M == Matching(s)
           order == {e \in M \X M : Comes(s, key, e[1], e[2])}
           at == [n \in 1 .. Cardinality(M) |-> CHOOSE i \in M : Rung(order, M, i) = n]
<1>1. PICK len \in Nat : s \in [1 .. len -> Auctions]
  BY DEF Enumerates
<1>2. IsFiniteSet(M)
  BY <1>1, FS_Interval, FS_Subset DEF Matching
<1>3. \A i \in M : i \in Nat /\ key[s[i]] \in Int
  BY <1>1 DEF Matching
<1>4. \A i, j \in M : <<i, j>> \in order <=> Comes(s, key, i, j)
  OBVIOUS
<1>5. /\ \A i \in M : <<i, i>> \notin order
      /\ \A i, j, k \in M : <<i, j>> \in order /\ <<j, k>> \in order => <<i, k>> \in order
      /\ \A i, j \in M : i # j => <<i, j>> \in order \/ <<j, i>> \in order
  <2> HIDE DEF M, order
  <2> QED
    BY <1>3, <1>4 DEF Comes
<1>6. /\ \A i \in M : Rung(order, M, i) \in 1 .. Cardinality(M)
      /\ \A i, j \in M : <<i, j>> \in order => Rung(order, M, i) < Rung(order, M, j)
      /\ \A n \in 1 .. Cardinality(M) : \E i \in M : Rung(order, M, i) = n
  <2> HIDE DEF M, order
  <2> QED
    BY <1>2, <1>5, OnePerPlace
<1>7. Cardinality(M) \in Nat
  BY <1>2, FS_CardinalityType
<1>8. \A n \in 1 .. Cardinality(M) : at[n] \in M /\ Rung(order, M, at[n]) = n
  <2> HIDE DEF M, order
  <2> QED
    BY <1>6
<1>9. Cards(s, key) = [n \in 1 .. Cardinality(M) |-> s[at[n]]]
  <2>1. \A i \in M : Rung(order, M, i) = Cardinality({j \in M : Comes(s, key, j, i)}) + 1
    <3> SUFFICES ASSUME NEW i \in M
                 PROVE  {j \in M : <<j, i>> \in order} = {j \in M : Comes(s, key, j, i)}
      BY DEF Rung
    <3> QED
      BY <1>4
  <2>2. \A n \in 1 .. Cardinality(M) :
          at[n] = CHOOSE i \in M : Cardinality({j \in M : Comes(s, key, j, i)}) + 1 = n
    <3> HIDE DEF M, order
    <3> QED
      BY <2>1
  <2>3. Cards(s, key) = [n \in 1 .. Cardinality(Matching(s)) |->
          s[CHOOSE i \in Matching(s) :
              Cardinality({j \in Matching(s) : Comes(s, key, j, i)}) + 1 = n]]
    BY DEF Cards, Matching, Comes
  <2> HIDE DEF at
  <2> QED
    BY <2>2, <2>3
<1>10. ASSUME NEW i \in M
       PROVE  \E n \in 1 .. Cardinality(M) : at[n] = i
  <2>1. Rung(order, M, i) \in 1 .. Cardinality(M)
    BY <1>6
  <2> DEFINE n == Rung(order, M, i)
  <2>2. at[n] \in M /\ Rung(order, M, at[n]) = n
    BY <1>8, <2>1
  <2>3. at[n] = i
    <3> HIDE DEF M, order, at
    <3>1. at[n] # i => <<at[n], i>> \in order \/ <<i, at[n]>> \in order
      BY <1>5, <2>2
    <3>2. n \in Int
      BY <2>1, <1>7
    <3> QED
      BY <1>6, <2>2, <3>1, <3>2
  <2> QED
    BY <2>1, <2>3
<1>11. ASSUME NEW k \in 1 .. Cardinality(M), NEW n \in 1 .. Cardinality(M), k < n
       PROVE  Comes(s, key, at[k], at[n])
  <2> HIDE DEF M, order, at
  <2>1. at[k] \in M /\ at[n] \in M /\ Rung(order, M, at[k]) = k /\ Rung(order, M, at[n]) = n
    BY <1>8
  <2>2. ~(<<at[n], at[k]>> \in order) /\ at[k] # at[n]
    BY <1>6, <1>7, <1>11, <2>1
  <2> QED
    BY <1>4, <1>5, <2>1, <2>2
<1> HIDE DEF M, order, at
<1>12. at \in [1 .. Cardinality(M) -> M]
  BY <1>8 DEF at
<1> QED
  BY <1>7, <1>9, <1>10, <1>11, <1>12 DEF M, ShownAt

\* The cards are a list of auctions.
LEMMA CardsTyped ==
  ASSUME NEW s, Enumerates(s), NEW key \in [Auctions -> Int]
  PROVE  Cards(s, key) \in Seq(Auctions)
<1>1. PICK m \in Nat : \E at \in [1 .. m -> Matching(s)] : ShownAt(s, key, m, at)
  BY CardsArePlaces
<1>2. PICK at \in [1 .. m -> Matching(s)] : Cards(s, key) = [n \in 1 .. m |-> s[at[n]]]
  BY <1>1 DEF ShownAt
<1>3. \A n \in 1 .. m : s[at[n]] \in Auctions
  BY <1>2 DEF Enumerates, Matching
<1> QED
  BY <1>2, <1>3

\* A card for each auction of the list that matches, and no other.
LEMMA CardsOnce ==
  ASSUME NEW s, Enumerates(s), NEW key \in [Auctions -> Int], NEW a \in Auctions
  PROVE  /\ ~(Holds(s, a) /\ MatchesFilters(a)) => ~Holds(Cards(s, key), a)
         /\ Holds(s, a) /\ MatchesFilters(a) =>
              \E n \in DOMAIN Cards(s, key) : \A k \in DOMAIN Cards(s, key) : Cards(s, key)[k] = a <=> k = n
<1>0. PICK m \in Nat : \E at \in [1 .. m -> Matching(s)] : ShownAt(s, key, m, at)
  BY CardsArePlaces
<1>1. PICK at \in [1 .. m -> Matching(s)] :
        /\ Cards(s, key) = [n \in 1 .. m |-> s[at[n]]]
        /\ \A i \in Matching(s) : \E n \in 1 .. m : at[n] = i
        /\ \A k, n \in 1 .. m : k < n => Comes(s, key, at[k], at[n])
  BY <1>0 DEF ShownAt
<1>2. PICK len \in Nat : s \in [1 .. len -> Auctions] /\ IsInjective(s)
  BY DEF Enumerates
<1>3. \A n \in 1 .. m : at[n] \in 1 .. len /\ MatchesFilters(s[at[n]]) /\ s[at[n]] \in Auctions
  BY <1>2 DEF Matching
<1>4. ASSUME Holds(Cards(s, key), a)
      PROVE  Holds(s, a) /\ MatchesFilters(a)
  BY <1>1, <1>2, <1>3, <1>4 DEF Holds
<1>5. ASSUME Holds(s, a), MatchesFilters(a)
      PROVE  \E n \in DOMAIN Cards(s, key) : \A k \in DOMAIN Cards(s, key) : Cards(s, key)[k] = a <=> k = n
  <2>1. PICK i \in 1 .. len : s[i] = a
    BY <1>2, <1>5 DEF Holds
  <2>2. i \in Matching(s)
    BY <1>2, <1>5, <2>1 DEF Matching
  <2>3. PICK n \in 1 .. m : at[n] = i
    BY <1>1, <2>2
  <2>4. ASSUME NEW k \in 1 .. m, s[at[k]] = a
        PROVE  k = n
    <3>1. at[k] = i
      BY <1>2, <1>3, <2>1, <2>4 DEF IsInjective
    <3>2. ~(i < i) /\ ~(key[s[i]] < key[s[i]])
      BY <1>2
    <3>3. ~Comes(s, key, at[n], at[k]) /\ ~Comes(s, key, at[k], at[n])
      BY <2>3, <3>1, <3>2 DEF Comes
    <3> QED
      BY <1>1, <3>3
  <2>5. DOMAIN Cards(s, key) = 1 .. m /\ \A k \in 1 .. m : Cards(s, key)[k] = s[at[k]]
    BY <1>1
  <2>6. \A k \in 1 .. m : (s[at[k]] = a) <=> (k = n)
    BY <2>1, <2>3, <2>4
  <2>7. n \in DOMAIN Cards(s, key) /\ \A k \in DOMAIN Cards(s, key) : (Cards(s, key)[k] = a) <=> (k = n)
    BY <2>5, <2>6
  <2> QED
    BY <2>7
<1> QED
  BY <1>4, <1>5

\* The cards come in the order of the key, those that tie as in the list.
LEMMA CardsInOrder ==
  ASSUME NEW s, Enumerates(s), NEW key \in [Auctions -> Int],
         NEW k \in DOMAIN Cards(s, key), NEW n \in DOMAIN Cards(s, key), k < n
  PROVE  LET a == Cards(s, key)[k] b == Cards(s, key)[n] IN
         \/ key[a] < key[b]
         \/ key[a] = key[b] /\ \E i, j \in DOMAIN s : i < j /\ s[i] = a /\ s[j] = b
<1>1. PICK m \in Nat : \E at \in [1 .. m -> Matching(s)] : ShownAt(s, key, m, at)
  BY CardsArePlaces
<1>2. PICK at \in [1 .. m -> Matching(s)] :
        /\ Cards(s, key) = [i \in 1 .. m |-> s[at[i]]]
        /\ \A i, j \in 1 .. m : i < j => Comes(s, key, at[i], at[j])
  BY <1>1 DEF ShownAt
<1>3. at[k] \in DOMAIN s /\ at[n] \in DOMAIN s /\ Comes(s, key, at[k], at[n])
  BY <1>2 DEF Matching
<1> QED
  BY <1>2, <1>3 DEF Comes

-----------------------------------------------------------------------------
(* The feed of the homepage: the inductive invariant                        *)

FeedTyped ==
  /\ endDate \in [Auctions -> Nat]
  /\ feed = [answered |-> feed.answered, live |-> feed.live, finished |-> feed.finished]
  /\ activeSort \in SortTabs
  /\ \A query \in {"live", "finished"} : feed[query] # Unread => Enumerates(feed[query])
  /\ feed.answered => feed.live # Unread /\ feed.finished # Unread

\* Another route leaves the feed alone; on this one every auction was launched.
FeedRoute ==
  IF route = "" THEN phase \in [Auctions -> {"open", "closed"}]
  ELSE feed.live = Unread /\ feed.finished = Unread

\* Whatever one query read of auction a is as it was until the other reads too.
AsRead(a) ==
  /\ feed.live # Unread /\ feed.finished = Unread => (Holds(feed.live, a) <=> a \in Live)
  /\ feed.finished # Unread /\ feed.live = Unread => (Holds(feed.finished, a) <=> a \in FinishedSince)
  /\ feed.live # Unread /\ feed.finished # Unread =>
       /\ ~(Holds(feed.live, a) /\ Holds(feed.finished, a))
       /\ a \in due <=> Holds(feed.live, a) \/ Holds(feed.finished, a)

FeedInv == FeedTyped /\ FeedRoute /\ \A a \in Auctions \ between : AsRead(a)

\* A query answers with the auctions asked for, each once.
LEMMA RowsOnce ==
  ASSUME NEW S \in SUBSET Auctions, NEW key, NEW answer \in OrderedBy(S, key)
  PROVE  /\ Enumerates(answer) /\ answer # Unread
         /\ \A a \in Auctions : Holds(answer, a) <=> a \in S
<1>1. IsFiniteSet(S) /\ Cardinality(S) \in Nat
  BY HomeAssumption, FS_Subset, FS_CardinalityType
<1>2. answer \in Injection(1 .. Cardinality(S), S)
  BY DEF OrderedBy, Injection
<1>3. IsFiniteSet(1 .. Cardinality(S)) /\ Cardinality(1 .. Cardinality(S)) = Cardinality(S)
  BY <1>1, FS_Interval
<1>4. answer \in Surjection(1 .. Cardinality(S), S)
  BY <1>1, <1>2, <1>3, FS_Injection
<1>5. answer \in [1 .. Cardinality(S) -> Auctions] /\ IsInjective(answer)
  BY <1>2 DEF Injection
<1>6. answer # Unread
  BY <1>1, <1>5, HomeAssumption DEF Unread
<1>7. \A a \in Auctions : Holds(answer, a) <=> a \in S
  BY <1>2, <1>4 DEF Injection, Surjection, Holds
<1> QED
  BY <1>1, <1>5, <1>6, <1>7 DEF Enumerates

\* Nothing was read yet.
LEMMA FeedInvInit == FrontInit => FeedInv
<1> SUFFICES ASSUME FrontInit PROVE FeedInv
  OBVIOUS
<1>1. \E dates \in [Auctions -> Nat] : HomeStarts(dates)
  BY HomeAssumption DEF FrontInit, HomeInit
<1>2. phase \in [Auctions -> {"open", "closed"}]
  BY DEF FrontInit, AuctionPageInit
<1>3. /\ endDate \in [Auctions -> Nat] /\ activeSort \in SortTabs
      /\ feed = [answered |-> FALSE, live |-> Unread, finished |-> Unread]
  BY <1>1 DEF HomeStarts, SortTabs
<1>4. FeedTyped
  BY <1>3 DEF FeedTyped
<1>5. FeedRoute /\ \A a \in Auctions \ between : AsRead(a)
  BY <1>2, <1>3 DEF FeedRoute, AsRead
<1> QED
  BY <1>4, <1>5 DEF FeedInv

\* An auction that closes between the two queries is noted; any other is as the
\* first one read it.
LEMMA CloseKeepsFeedInv ==
  ASSUME FeedInv, route = "", AuctionCloses, UNCHANGED route
  PROVE  FeedInv'
<1>1. PICK c \in Auctions :
        /\ phase[c] = "open" /\ phase' = [phase EXCEPT ![c] = "closed"]
        /\ cancelled' \in {cancelled, cancelled \union {c}}
        /\ between' = IF (feed.live = Unread) # (feed.finished = Unread) THEN between \union {c} ELSE between
        /\ UNCHANGED <<endDate, feed, activeSort, filters, due>>
  BY DEF AuctionCloses, Close
<1>2. FeedTyped'
  BY <1>1 DEF FeedInv, FeedTyped, Enumerates
<1>3. FeedRoute'
  BY <1>1 DEF FeedInv, FeedRoute
<1>4. ASSUME NEW a \in Auctions \ between'
      PROVE  AsRead(a)'
  <2>1. a \in Auctions \ between
    BY <1>1
  <2>2. AsRead(a)
    BY <2>1 DEF FeedInv
  <2>3. CASE (feed.live = Unread) # (feed.finished = Unread)
    <3>1. a # c
      BY <1>1, <2>3
    <3>2. phase'[a] = phase[a] /\ (a \in cancelled' <=> a \in cancelled)
      BY <1>1, <2>1, <3>1 DEF FeedInv, FeedRoute
    <3>3. (a \in Live' <=> a \in Live) /\ (a \in FinishedSince' <=> a \in FinishedSince)
      BY <1>1, <3>2 DEF Live, FinishedSince
    <3> QED
      BY <1>1, <2>2, <2>3, <3>3 DEF AsRead, Holds
  <2>4. CASE ~((feed.live = Unread) # (feed.finished = Unread))
    BY <1>1, <2>2, <2>4 DEF AsRead, Holds
  <2> QED
    BY <2>3, <2>4
<1> QED
  BY <1>2, <1>3, <1>4 DEF FeedInv

\* A query reads what the other, if it was first, left for it.
LEMMA ReadKeepsFeedInv ==
  ASSUME FeedInv, route = "", NEW query \in {"live", "finished"}, ReadFeed(query), UNCHANGED route
  PROVE  FeedInv'
<1> DEFINE S == IF query = "live" THEN Live ELSE FinishedSince
<1>1. UNCHANGED <<phase, endDate, cancelled, activeSort, between>> /\ feed[query] = Unread
  BY DEF ReadFeed, ledgerVars
<1>2. Live \in SUBSET Auctions /\ FinishedSince \in SUBSET Auctions
  BY DEF Live, FinishedSince
<1>3. PICK answer : /\ feed' = [feed EXCEPT ![query] = answer]
                  /\ Enumerates(answer) /\ answer # Unread
                  /\ \A a \in Auctions : Holds(answer, a) <=> a \in S
  <2>1. CASE query = "live"
    <3>1. PICK answer \in OrderedBy(Live, endDate) : feed' = [feed EXCEPT ![query] = answer]
      BY <2>1 DEF ReadFeed
    <3>2. /\ Enumerates(answer) /\ answer # Unread
          /\ \A a \in Auctions : Holds(answer, a) <=> a \in Live
      BY <1>2, RowsOnce
    <3> QED
      BY <2>1, <3>1, <3>2
  <2>2. CASE query = "finished"
    <3>1. PICK answer \in OrderedBy(FinishedSince, NewestFirst) : feed' = [feed EXCEPT ![query] = answer]
      BY <2>2 DEF ReadFeed
    <3>2. /\ Enumerates(answer) /\ answer # Unread
          /\ \A a \in Auctions : Holds(answer, a) <=> a \in FinishedSince
      BY <1>2, RowsOnce
    <3> QED
      BY <2>2, <3>1, <3>2
  <2> QED
    BY <2>1, <2>2
<1>4. feed = [answered |-> feed.answered, live |-> feed.live, finished |-> feed.finished]
  BY DEF FeedInv, FeedTyped
<1>5. /\ feed' = [answered |-> feed.answered, live |-> feed'.live, finished |-> feed'.finished]
      /\ query = "live" => feed'.live = answer /\ feed'.finished = feed.finished
      /\ query = "finished" => feed'.finished = answer /\ feed'.live = feed.live
  <2>1. CASE query = "live"
    <3>1. feed' = [feed EXCEPT !.live = answer]
      BY <1>3, <2>1
    <3>2. feed' = [answered |-> feed.answered, live |-> answer, finished |-> feed.finished]
      BY <1>4, <3>1
    <3> QED
      BY <2>1, <3>2
  <2>2. CASE query = "finished"
    <3>1. feed' = [feed EXCEPT !.finished = answer]
      BY <1>3, <2>2
    <3>2. feed' = [answered |-> feed.answered, live |-> feed.live, finished |-> answer]
      BY <1>4, <3>1
    <3> QED
      BY <2>2, <3>2
  <2> QED
    BY <2>1, <2>2
<1>6. FeedTyped'
  BY <1>1, <1>3, <1>4, <1>5 DEF FeedInv, FeedTyped
<1>7. FeedRoute'
  BY <1>1 DEF FeedInv, FeedRoute
<1>8. ASSUME NEW a \in Auctions \ between'
      PROVE  AsRead(a)'
  <2>1. AsRead(a) /\ phase[a] \in {"open", "closed"}
    BY <1>1 DEF FeedInv, FeedRoute
  <2>2. (a \in Live' <=> a \in Live) /\ (a \in FinishedSince' <=> a \in FinishedSince)
    BY <1>1 DEF Live, FinishedSince
  <2>3. a \in due' <=> a \in Live \/ a \in FinishedSince
    BY <2>1 DEF ReadFeed, Live, FinishedSince
  <2>4. ~(a \in Live /\ a \in FinishedSince)
    BY DEF Live, FinishedSince
  <2>5. CASE query = "live"
    <3>1. feed.live = Unread /\ feed'.live = answer /\ feed'.finished = feed.finished
      BY <1>1, <1>5, <2>5
    <3>2. Holds(answer, a) <=> a \in Live
      BY <1>3, <2>5
    <3> QED
      BY <1>3, <2>1, <2>2, <2>3, <2>4, <3>1, <3>2 DEF AsRead, Holds
  <2>6. CASE query = "finished"
    <3>1. feed.finished = Unread /\ feed'.finished = answer /\ feed'.live = feed.live
      BY <1>1, <1>5, <2>6
    <3>2. Holds(answer, a) <=> a \in FinishedSince
      BY <1>3, <2>6
    <3> QED
      BY <1>3, <2>1, <2>2, <2>3, <2>4, <3>1, <3>2 DEF AsRead, Holds
  <2> QED
    BY <2>5, <2>6
<1> QED
  BY <1>6, <1>7, <1>8 DEF FeedInv

\* Steps that leave the server and what was read alone keep the invariant.
LEMMA FeedInvKept ==
  ASSUME FeedInv, UNCHANGED <<endDate, cancelled, between, due, route>>,
         \/ phase' = phase
         \/ route # "",
         feed' = [answered |-> feed'.answered, live |-> feed'.live, finished |-> feed'.finished],
         UNCHANGED <<feed.live, feed.finished>>,
         feed'.answered => feed.live # Unread /\ feed.finished # Unread,
         activeSort' \in SortTabs
  PROVE  FeedInv'
<1>1. feed'.live = feed.live /\ feed'.finished = feed.finished
  OBVIOUS
<1>2. FeedTyped'
  BY <1>1 DEF FeedInv, FeedTyped, Enumerates
<1>3. FeedRoute'
  BY <1>1 DEF FeedInv, FeedRoute
<1>4. ASSUME NEW a \in Auctions \ between
      PROVE  AsRead(a)'
  <2>1. AsRead(a)
    BY DEF FeedInv
  <2>2. CASE route # ""
    BY <1>1, <2>2 DEF FeedInv, FeedRoute, AsRead
  <2>3. CASE phase' = phase
    BY <1>1, <2>1, <2>3 DEF AsRead, Holds, Live, FinishedSince
  <2> QED
    BY <2>2, <2>3
<1> QED
  BY <1>2, <1>3, <1>4 DEF FeedInv

\* Every step of the pages keeps the invariant of the feed.
LEMMA FeedInvStep == FeedInv /\ [FrontNext]_frontVars => FeedInv'
<1> SUFFICES ASSUME FeedInv, [FrontNext]_frontVars PROVE FeedInv'
  OBVIOUS
<1>1. FeedTyped
  BY DEF FeedInv
<1>2. CASE UNCHANGED frontVars
  <2>1. UNCHANGED <<phase, endDate, cancelled, feed, activeSort, between, due, route>>
    BY <1>2 DEF frontVars, auctionPageVars, ledgerVars, homeVars
  <2> QED
    BY <1>1, <2>1, FeedInvKept DEF FeedTyped
<1>3. CASE FrontNext /\ route # ""
  <2>1. UNCHANGED <<endDate, cancelled, feed, activeSort, between, due, route>>
    BY <1>3 DEF FrontNext, homeVars
  <2> QED
    BY <1>1, <1>3, <2>1, FeedInvKept DEF FeedTyped
<1>4. CASE FrontNext /\ route = ""
  <2>1. HomeNext /\ UNCHANGED route
    BY <1>4 DEF FrontNext
  <2>2. CASE AuctionCloses
    BY <1>4, <2>1, <2>2, CloseKeepsFeedInv
  <2>3. CASE \E query \in {"live", "finished"} : ReadFeed(query)
    BY <1>4, <2>1, <2>3, ReadKeepsFeedInv
  <2>4. CASE FeedAnswered
    <3>1. UNCHANGED <<phase, endDate, cancelled, activeSort, between, due>>
          /\ feed.live # Unread /\ feed.finished # Unread /\ feed' = [feed EXCEPT !.answered = TRUE]
      BY <2>4 DEF FeedAnswered, ledgerVars
    <3>2. feed' = [answered |-> TRUE, live |-> feed.live, finished |-> feed.finished]
      BY <1>1, <3>1 DEF FeedTyped
    <3> QED
      BY <1>1, <2>1, <3>1, <3>2, FeedInvKept DEF FeedTyped
  <2>5. CASE \E key \in SortTabs \ {activeSort} : SelectSort(key)
    BY <1>1, <2>1, <2>5, FeedInvKept DEF SelectSort, ledgerVars, FeedTyped
  <2>6. CASE \E s \in Selects : SelectOption(s)
    BY <1>1, <2>1, <2>6, FeedInvKept DEF SelectOption, ledgerVars, FeedTyped
  <2> QED
    BY <2>1, <2>2, <2>3, <2>4, <2>5, <2>6 DEF HomeNext
<1> QED
  BY <1>2, <1>3, <1>4

\* On every tab the two halves of the grid are sorted by numbers.
LEMMA KeysAreNumbers ==
  ASSUME FeedTyped, activeSort # "no-reserve"
  PROVE  TabKey \in [Auctions -> Int] /\ NewestFirst \in [Auctions -> Int]
<1>1. NewestFirst \in [Auctions -> Int]
  BY DEF FeedTyped, NewestFirst
<1>2. CASE activeSort = "ending-soon"
  BY <1>1, <1>2 DEF FeedTyped, TabKey
<1>3. CASE activeSort = "closest-to-me"
  BY <1>1, <1>3 DEF TabKey
<1>4. CASE activeSort \in {"newly-listed", "lowest-mileage"}
  BY <1>1, <1>4, HomeAssumption DEF TabKey
<1> QED
  BY <1>2, <1>3, <1>4 DEF FeedTyped, SortTabs

\* The homepage shows each auction of the feed that matches the filters once,
\* on every tab that shows any, and no other, for any auctions, end dates and
\* mileages; only what closes between the two queries of listFeed may be there
\* twice or not at all.
THEOREM FeedCorrect == FrontSpec => []FeedIsWhole
<1>1. FeedInv => FeedIsWhole
  <2> SUFFICES ASSUME FeedInv, feed.answered, activeSort # "no-reserve", NEW a \in Auctions \ between
               PROVE  Cardinality({i \in DOMAIN Grid : Grid[i] = a}) =
                        IF a \in due /\ MatchesFilters(a) THEN 1 ELSE 0
    BY DEF FeedIsWhole
  <2> DEFINE live == Cards(feed.live, TabKey)
             finished == Cards(feed.finished, NewestFirst)
             CardsAt == {i \in DOMAIN Grid : Grid[i] = a}
  <2>1. Grid = live \o finished
    BY DEF Grid
  <2>2. Enumerates(feed.live) /\ Enumerates(feed.finished)
        /\ feed.live # Unread /\ feed.finished # Unread
        /\ TabKey \in [Auctions -> Int] /\ NewestFirst \in [Auctions -> Int]
    BY KeysAreNumbers DEF FeedInv, FeedTyped
  <2>3. /\ ~(Holds(feed.live, a) /\ Holds(feed.finished, a))
        /\ a \in due <=> Holds(feed.live, a) \/ Holds(feed.finished, a)
    BY <2>2 DEF FeedInv, AsRead
  <2>4. live \in Seq(Auctions) /\ finished \in Seq(Auctions)
    BY <2>2, CardsTyped
  <2>5. CASE ~(a \in due /\ MatchesFilters(a))
    <3>1. ~Holds(live, a) /\ ~Holds(finished, a)
      BY <2>2, <2>3, <2>5, CardsOnce
    <3> HIDE DEF live, finished
    <3>2. CardsAt = {}
      BY <2>1, <2>4, <3>1 DEF Holds
    <3> QED
      BY <2>5, <3>2, FS_EmptySet
  <2>6. CASE Holds(feed.live, a) /\ MatchesFilters(a)
    <3>1. ~Holds(finished, a)
      BY <2>2, <2>3, <2>6, CardsOnce
    <3>2. PICK n \in DOMAIN live : \A k \in DOMAIN live : (live[k] = a) <=> (k = n)
      BY <2>2, <2>6, CardsOnce
    <3> HIDE DEF live, finished
    <3>3. CardsAt = {n}
      BY <2>1, <2>4, <3>1, <3>2 DEF Holds
    <3> QED
      BY <2>3, <2>6, <3>3, FS_Singleton
  <2>7. CASE Holds(feed.finished, a) /\ MatchesFilters(a)
    <3>1. ~Holds(live, a)
      BY <2>2, <2>3, <2>7, CardsOnce
    <3>2. PICK n \in DOMAIN finished : \A k \in DOMAIN finished : (finished[k] = a) <=> (k = n)
      BY <2>2, <2>7, CardsOnce
    <3> HIDE DEF live, finished
    <3>3. CardsAt = {Len(live) + n}
      BY <2>1, <2>4, <3>1, <3>2 DEF Holds
    <3> QED
      BY <2>3, <2>7, <3>3, FS_Singleton
  <2> QED
    BY <2>3, <2>5, <2>6, <2>7
<1> QED
  BY <1>1, FeedInvInit, FeedInvStep, PTL DEF FrontSpec

-----------------------------------------------------------------------------
(* The order of the grid                                                    *)

InOrder(s, key) == \A i, j \in DOMAIN s : i < j => key[s[i]] <= key[s[j]]

\* The live auctions stay in the order in which their query returned them.
LiveByDate == feed.live # Unread => InOrder(feed.live, endDate)

\* Of two cards the left one is live and the right one finished; or both are
\* live, sorted by the tab, and by end date where it leaves them alike; or both
\* are finished, the one that ended last first.
GridIsSorted ==
  feed.answered /\ activeSort # "no-reserve" =>
    \A k, n \in DOMAIN Grid : k < n =>
      \/ Holds(feed.live, Grid[k]) /\ Holds(feed.finished, Grid[n])
      \/ /\ Holds(feed.live, Grid[k]) /\ Holds(feed.live, Grid[n])
         /\ \/ TabKey[Grid[k]] < TabKey[Grid[n]]
            \/ TabKey[Grid[k]] = TabKey[Grid[n]] /\ endDate[Grid[k]] <= endDate[Grid[n]]
      \/ /\ Holds(feed.finished, Grid[k]) /\ Holds(feed.finished, Grid[n])
         /\ endDate[Grid[k]] >= endDate[Grid[n]]

\* Only the query of the live auctions puts them there, and end dates stay.
LEMMA LiveByDateStep ==
  ASSUME FeedInv, LiveByDate, [FrontNext]_frontVars
  PROVE  LiveByDate'
<1>1. /\ DOMAIN feed = {"answered", "live", "finished"}
      /\ feed = [answered |-> feed.answered, live |-> feed.live, finished |-> feed.finished]
  BY DEF FeedInv, FeedTyped
<1>2. CASE endDate' = endDate /\ feed'.live = feed.live
  BY <1>2 DEF LiveByDate, InOrder
<1>3. ASSUME HomeNext
      PROVE  LiveByDate'
  <2>1. CASE ReadFeed("live")
    <3>1. PICK answer \in OrderedBy(Live, endDate) : feed' = [feed EXCEPT !.live = answer]
      BY <2>1 DEF ReadFeed
    <3>2. feed'.live = answer /\ endDate' = endDate
      BY <1>1, <2>1, <3>1 DEF ReadFeed
    <3> QED
      BY <3>2 DEF OrderedBy, LiveByDate, InOrder
  <2>2. CASE ReadFeed("finished")
    <3>1. PICK answer : feed' = [feed EXCEPT !.finished = answer]
      BY <2>2 DEF ReadFeed
    <3> QED
      BY <1>1, <1>2, <2>2, <3>1 DEF ReadFeed
  <2>3. CASE FeedAnswered
    BY <1>1, <1>2, <2>3 DEF FeedAnswered
  <2> QED
    BY <1>2, <1>3, <2>1, <2>2, <2>3 DEF HomeNext, AuctionCloses, SelectSort, SelectOption
<1>4. CASE ~HomeNext
  BY <1>2, <1>4 DEF FrontNext, frontVars, homeVars
<1> QED
  BY <1>3, <1>4

\* The cards of a list in the order of another key: those that tie keep it.
LEMMA CardsKeepOrder ==
  ASSUME NEW s, Enumerates(s), NEW key \in [Auctions -> Int],
         NEW k \in DOMAIN Cards(s, key), NEW n \in DOMAIN Cards(s, key), k < n,
         NEW a, a = Cards(s, key)[k], NEW b, b = Cards(s, key)[n]
  PROVE  /\ Holds(s, a) /\ Holds(s, b) /\ a \in Auctions /\ b \in Auctions
         /\ \/ key[a] < key[b]
            \/ key[a] = key[b] /\ \A date : InOrder(s, date) => date[a] <= date[b]
<1>1. Cards(s, key) \in Seq(Auctions)
  BY CardsTyped
<1>2. a \in Auctions /\ b \in Auctions /\ Holds(Cards(s, key), a) /\ Holds(Cards(s, key), b)
  BY <1>1 DEF Holds
<1>3. Holds(s, a) /\ Holds(s, b)
  BY <1>2, CardsOnce
<1>4. \/ key[a] < key[b]
      \/ key[a] = key[b] /\ \E i, j \in DOMAIN s : i < j /\ s[i] = a /\ s[j] = b
  BY CardsInOrder
<1> QED
  BY <1>2, <1>3, <1>4 DEF InOrder

\* Whatever tab and filters are chosen, the grid of the homepage is in order.
THEOREM GridSorted == FrontSpec => []GridIsSorted
<1>1. FrontInit => LiveByDate
  <2> SUFFICES ASSUME FrontInit PROVE LiveByDate
    OBVIOUS
  <2>1. feed = [answered |-> FALSE, live |-> Unread, finished |-> Unread]
    BY DEF FrontInit, HomeInit, HomeStarts
  <2> QED
    BY <2>1 DEF LiveByDate
<1>2. FeedInv /\ LiveByDate => GridIsSorted
  <2> SUFFICES ASSUME FeedInv, LiveByDate, feed.answered, activeSort # "no-reserve",
                      NEW k \in DOMAIN Grid, NEW n \in DOMAIN Grid, k < n
               PROVE  \/ Holds(feed.live, Grid[k]) /\ Holds(feed.finished, Grid[n])
                      \/ /\ Holds(feed.live, Grid[k]) /\ Holds(feed.live, Grid[n])
                         /\ \/ TabKey[Grid[k]] < TabKey[Grid[n]]
                            \/ /\ TabKey[Grid[k]] = TabKey[Grid[n]]
                               /\ endDate[Grid[k]] <= endDate[Grid[n]]
                      \/ /\ Holds(feed.finished, Grid[k]) /\ Holds(feed.finished, Grid[n])
                         /\ endDate[Grid[k]] >= endDate[Grid[n]]
    BY DEF GridIsSorted
  <2> DEFINE live == Cards(feed.live, TabKey)
             finished == Cards(feed.finished, NewestFirst)
  <2>1. Enumerates(feed.live) /\ Enumerates(feed.finished) /\ InOrder(feed.live, endDate)
        /\ TabKey \in [Auctions -> Int] /\ NewestFirst \in [Auctions -> Int]
        /\ endDate \in [Auctions -> Nat]
    BY KeysAreNumbers DEF FeedInv, FeedTyped, LiveByDate
  <2>2. live \in Seq(Auctions) /\ finished \in Seq(Auctions)
    BY <2>1, CardsTyped
  <2>3. Grid = live \o finished
    BY DEF Grid
  <2>4. \A i, j \in DOMAIN live : i < j =>
          /\ Holds(feed.live, live[i]) /\ Holds(feed.live, live[j])
          /\ \/ TabKey[live[i]] < TabKey[live[j]]
             \/ TabKey[live[i]] = TabKey[live[j]] /\ endDate[live[i]] <= endDate[live[j]]
    BY <2>1, CardsKeepOrder
  <2>5. \A i, j \in DOMAIN finished : i < j =>
          /\ Holds(feed.finished, finished[i]) /\ Holds(feed.finished, finished[j])
          /\ endDate[finished[i]] >= endDate[finished[j]]
    <3> SUFFICES ASSUME NEW i \in DOMAIN finished, NEW j \in DOMAIN finished, i < j
                 PROVE  /\ Holds(feed.finished, finished[i]) /\ Holds(feed.finished, finished[j])
                        /\ endDate[finished[i]] >= endDate[finished[j]]
      OBVIOUS
    <3>1. /\ Holds(feed.finished, finished[i]) /\ Holds(feed.finished, finished[j])
          /\ finished[i] \in Auctions /\ finished[j] \in Auctions
          /\ NewestFirst[finished[i]] <= NewestFirst[finished[j]]
      BY <2>1, CardsKeepOrder
    <3> HIDE DEF finished
    <3> QED
      BY <2>1, <3>1 DEF NewestFirst
  <2>6. /\ \A i \in DOMAIN live : Holds(feed.live, live[i])
        /\ \A i \in DOMAIN finished : Holds(feed.finished, finished[i])
    <3>1. \A i \in DOMAIN live : live[i] \in Auctions /\ Holds(live, live[i])
      BY <2>2 DEF Holds
    <3>2. \A i \in DOMAIN finished : finished[i] \in Auctions /\ Holds(finished, finished[i])
      BY <2>2 DEF Holds
    <3> QED
      BY <2>1, <3>1, <3>2, CardsOnce
  <2> HIDE DEF live, finished
  <2>7. /\ k \in 1 .. Len(live) + Len(finished) /\ n \in 1 .. Len(live) + Len(finished)
        /\ Len(live) \in Nat /\ Len(finished) \in Nat
        /\ DOMAIN live = 1 .. Len(live) /\ DOMAIN finished = 1 .. Len(finished)
    BY <2>2, <2>3
  <2>8. \A i \in 1 .. Len(live) + Len(finished) :
          Grid[i] = IF i <= Len(live) THEN live[i] ELSE finished[i - Len(live)]
    BY <2>2, <2>3
  <2>9. CASE n <= Len(live)
    <3>1. k \in DOMAIN live /\ n \in DOMAIN live /\ Grid[k] = live[k] /\ Grid[n] = live[n]
      BY <2>7, <2>8, <2>9
    <3> QED
      BY <2>4, <3>1
  <2>10. CASE k <= Len(live) /\ ~(n <= Len(live))
    <3>1. /\ k \in DOMAIN live /\ n - Len(live) \in DOMAIN finished
          /\ Grid[k] = live[k] /\ Grid[n] = finished[n - Len(live)]
      BY <2>7, <2>8, <2>10
    <3> QED
      BY <2>6, <3>1
  <2>11. CASE ~(k <= Len(live))
    <3>1. /\ k - Len(live) \in DOMAIN finished /\ n - Len(live) \in DOMAIN finished
          /\ k - Len(live) < n - Len(live)
          /\ Grid[k] = finished[k - Len(live)] /\ Grid[n] = finished[n - Len(live)]
      BY <2>7, <2>8, <2>11
    <3> QED
      BY <2>5, <3>1
  <2> QED
    BY <2>9, <2>10, <2>11
<1> QED
  BY <1>1, <1>2, FeedInvInit, FeedInvStep, LiveByDateStep, PTL DEF FrontSpec
=============================================================================
