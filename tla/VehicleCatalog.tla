--------------------------- MODULE VehicleCatalog ---------------------------
(***************************************************************************)
(* The vehicle catalog of euro-platform-api: makes, models, trims and the  *)
(* engines of a trim, which sellers find or create by the names they type. *)
(* A row is known by its path, the names from its make down to itself: the *)
(* tables have a unique index on (parent, name), exact to the letter, and  *)
(* no row is ever deleted.                                                 *)
(***************************************************************************)
EXTENDS Integers, SequencesExt

CONSTANTS
  Sellers, Scripts,    \* who writes
  Names,               \* spellings, of fuel types too
  Word,                \* the word each spells: ILike compares words
  MaxFaults            \* a bound: queries that fail

ASSUME CatalogAssumption ==
  /\ MaxFaults \in Nat /\ Sellers \cap Scripts = {}
  /\ DOMAIN Word = Names /\ "none" \notin Names

VARIABLES
  catalog,  \* the figures of each row, "none" but for an engine's
  job,      \* what each writer is doing
  faults,
  careless  \* rows written without a look at the words there (history)

catalogVars == <<catalog, job, faults, careless>>

Writers == Sellers \union Scripts
Rows == DOMAIN catalog

\* A stage finds names below the row reached so far, or creates them there.
Stage(names, match, missing, found, figures) ==
  [names |-> names, match |-> match, missing |-> missing, found |-> found, figures |-> figures]

\* The names found missing are about to be inserted; that another writer has
\* inserted one of them since is history.
Job(at, stages) == [at |-> at, stages |-> stages, lacks |-> {}, beaten |-> FALSE]

NoJob == Job(<<>>, <<>>)

CatalogInit ==
  /\ catalog = [p \in {} |-> "none"]
  /\ job = [w \in Writers |-> NoJob]
  /\ faults = 0 /\ careless = {}

SameName(x, y) == Word[x] = Word[y]

\* A bug: names are compared to the letter.
FoundBySpelling(at, match, n) ==
  IF match = "none" THEN {} ELSE {p \in Rows : p = Append(at, n)}

\* Where a name is found: an insert without a lookup finds nothing.
Found(at, match, n) ==
  {p \in Rows : /\ Len(p) = Len(at) + 1 /\ Front(p) = at
                /\ \/ match = "ilike" /\ SameName(Last(p), n)
                   \/ match = "exact" /\ Last(p) = n}

-----------------------------------------------------------------------------
(* The stages of a job                                                      *)

Advance(w, j) == job' = [job EXCEPT ![w] = j]

Reached(j, p) == [j EXCEPT !.at = p, !.stages = Tail(@), !.lacks = {}, !.beaten = FALSE]

\* findOne(): when several rows match, PostgreSQL answers any of them.
FindsRow(w) ==
  LET j == job[w] s == Head(j.stages) IN
  /\ j.stages # <<>> /\ j.lacks = {}
  /\ \A n \in s.names : Found(j.at, s.match, n) # {}
  /\ \E n \in s.names : \E p \in Found(j.at, s.match, n) :
       /\ Advance(w, IF s.found = "stop" THEN Job(p, <<>>) ELSE Reached(j, p))
       /\ catalog' = IF s.found = "refresh" THEN [catalog EXCEPT ![p] = s.figures] ELSE catalog
  /\ UNCHANGED <<faults, careless>>

\* A bug: only one of the missing names is written.
LackingOne(j) ==
  LET absent == {n \in Head(j.stages).names : Found(j.at, Head(j.stages).match, n) = {}}
  IN {n \in absent : n = CHOOSE m \in absent : TRUE}

Lacking(j) == {n \in Head(j.stages).names : Found(j.at, Head(j.stages).match, n) = {}}

FindsNothing(w) ==
  LET j == job[w] IN
  /\ j.stages # <<>> /\ j.lacks = {} /\ Lacking(j) # {}
  /\ Head(j.stages).missing = "create"
  /\ Advance(w, [j EXCEPT !.lacks = Lacking(j)])
  /\ UNCHANGED <<catalog, faults, careless>>

NewRows(j) == {Append(j.at, n) : n \in j.lacks}

Twins(p, q) == p # q /\ Len(p) = Len(q) /\ Front(p) = Front(q) /\ SameName(Last(p), Last(q))

\* A row written after an exact lookup, or while its word was being written.
CarelesslyBy(j) == IF Head(j.stages).match # "ilike" \/ j.beaten THEN NewRows(j) ELSE {}

Beats(rows, j) == \E p \in rows, q \in NewRows(j) : Twins(p, q)

Inserts(w) ==
  LET j == job[w] IN
  /\ j.lacks # {} /\ NewRows(j) \cap Rows = {}
  /\ catalog' = [p \in Rows \union NewRows(j) |-> IF p \in Rows THEN catalog[p] ELSE Head(j.stages).figures]
  /\ careless' = careless \union CarelesslyBy(j)
  /\ \E p \in NewRows(j) :
       job' = [v \in Writers |-> IF v = w THEN Reached(j, p)
                                 ELSE [job[v] EXCEPT !.beaten = @ \/ Beats(NewRows(j), job[v])]]
  /\ UNCHANGED faults

\* The unique index refuses the insert, or the query fails.
StageFails(w) ==
  LET j == job[w] IN
  /\ j.stages # <<>>
  /\ \/ j.lacks # {} /\ NewRows(j) \cap Rows # {} /\ UNCHANGED faults
     \/ faults < MaxFaults /\ faults' = faults + 1
  /\ UNCHANGED <<catalog, careless>>

-----------------------------------------------------------------------------
(* Sellers: the create-ad page resolves make, model and trim in turn        *)

ByName(n) == Stage({n}, "ilike", "create", "keep", "none")

FuelOf(n) == Stage({n}, "exact", "create", "keep", "none")

\* Names picked from the lists are rows already; the names typed come after.
SellerSaves(w, makes, models, trims, fuels) ==
  /\ job[w].stages = <<>>
  /\ \E picked \in {<<>>} \union {p \in Rows : Len(p) < 3}, d \in models, t \in trims, f \in fuels :
       \E m \in makes :
         LET typed == <<ByName(m), ByName(d), ByName(t), FuelOf(f)>> IN
         Advance(w, Job(picked, SubSeq(typed, Len(picked) + 1, 4)))
  /\ UNCHANGED <<catalog, faults, careless>>

\* The save answers an error; the page stays and may save again.
SellerFails(w) == StageFails(w) /\ Advance(w, NoJob)

SellerStep(w) == FindsRow(w) \/ FindsNothing(w) \/ Inserts(w) \/ SellerFails(w)
=============================================================================
