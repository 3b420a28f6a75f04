---------------------------- MODULE CatalogSeeds ----------------------------
(***************************************************************************)
(* The scripts that fill the vehicle catalog, run by hand and as often as  *)
(* one likes while the application runs: seed:catalog (Wikidata),          *)
(* seed:vehicle-catalog (a bundled list) and seed:powertrains (curated     *)
(* figures).  None of them uses a transaction.                             *)
(***************************************************************************)
EXTENDS VehicleCatalog

CONSTANTS
  Entries,  \* the entries of each script, in order
  TypedMakes, TypedModels, TypedTrims, TypedFuels, \* what sellers type
  MaxRuns   \* a bound: runs of the scripts, one at a time

Entry(s) ==
  CASE s = "seed:catalog" -> [make : Names, model : Names, fuel : Names]
    [] s = "seed:vehicle-catalog" -> [make : Names, model : Names, trims : (SUBSET Names) \ {{}}]
    [] s = "seed:powertrains" -> [make : Names, model : Names, trim : Names, fuel : Names]

ASSUME SeedsAssumption ==
  /\ MaxRuns \in Nat
  /\ Scripts \subseteq {"seed:catalog", "seed:vehicle-catalog", "seed:powertrains"}
  /\ DOMAIN Entries = Scripts /\ \A s \in Scripts : Entries[s] \in Seq(Entry(s))
  /\ TypedMakes \union TypedModels \union TypedTrims \union TypedFuels \union {"Standard"} \subseteq Names

VARIABLES
  entry,  \* the entry each script is at, 0 when it is not running
  runs,
  clean,  \* nothing of the run failed or was missing (history)
  done    \* scripts that ran to their end cleanly (history)

seedVars == <<catalogVars, entry, runs, clean, done>>

SeedsInit ==
  /\ CatalogInit
  /\ entry = [s \in Scripts |-> 0] /\ runs = 0
  /\ clean = [s \in Scripts |-> TRUE] /\ done = {}

\* A Wikidata row: a trim that is there already keeps the engines it has.
WikidataRow(e) ==
  <<Stage({e.make}, "exact", "create", "keep", "none"),
    Stage({e.model}, "exact", "create", "keep", "none"),
    Stage({"Standard"}, "exact", "create", "stop", "none"),
    Stage({e.fuel}, "none", "create", "keep", "wikidata")>>

\* A model of the bundled list: its missing trims are inserted in one statement.
BundledModel(e) ==
  <<Stage({e.make}, "exact", "create", "keep", "none"),
    Stage({e.model}, "exact", "create", "keep", "none"),
    Stage(e.trims, "exact", "create", "keep", "none")>>

\* A bug: an engine that is there already keeps the figures it has.
CuratedOnce(e) == Stage({e.fuel}, "exact", "create", "keep", "curated")

CuratedEngine(e) == Stage({e.fuel}, "exact", "create", "refresh", "curated")

CuratedTrim(e) ==
  <<Stage({e.make}, "ilike", "skip", "keep", "none"),
    Stage({e.model}, "ilike", "skip", "keep", "none"),
    Stage({e.trim}, "ilike", "create", "keep", "none"),
    CuratedEngine(e)>>

StagesOf(s, e) ==
  CASE s = "seed:catalog" -> WikidataRow(e)
    [] s = "seed:vehicle-catalog" -> BundledModel(e)
    [] s = "seed:powertrains" -> CuratedTrim(e)

-----------------------------------------------------------------------------

\* On to entry i, or to the end of the run.
Goes(s, i, unspoilt) ==
  /\ entry' = [entry EXCEPT ![s] = IF i <= Len(Entries[s]) THEN i ELSE 0]
  /\ Advance(s, IF i <= Len(Entries[s]) THEN Job(<<>>, StagesOf(s, Entries[s][i])) ELSE NoJob)
  /\ clean' = [clean EXCEPT ![s] = unspoilt]
  /\ done' = IF i > Len(Entries[s]) /\ unspoilt THEN done \union {s} ELSE done

StartScript(s) ==
  /\ (\A t \in Scripts : entry[t] = 0) /\ runs < MaxRuns /\ runs' = runs + 1
  /\ Goes(s, 1, TRUE)
  /\ UNCHANGED <<catalog, faults, careless>>

NextEntry(s) ==
  /\ entry[s] > 0 /\ job[s].stages = <<>>
  /\ Goes(s, entry[s] + 1, clean[s])
  /\ UNCHANGED <<catalog, faults, careless, runs>>

\* seed:powertrains passes over a make or a model that is not in the catalog.
SkipsEntry(s) ==
  LET j == job[s] IN
  /\ j.stages # <<>> /\ Head(j.stages).missing = "skip" /\ Lacking(j) # {}
  /\ Goes(s, entry[s] + 1, FALSE)
  /\ UNCHANGED <<catalog, faults, careless, runs>>

\* What an error ends: a row, a model, or the run.
AbortsRun(s) == s = "seed:powertrains" \/ (s = "seed:vehicle-catalog" /\ job[s].at = <<>>)

ScriptFails(s) ==
  /\ StageFails(s)
  /\ Goes(s, IF AbortsRun(s) THEN Len(Entries[s]) + 1 ELSE entry[s] + 1, FALSE)
  /\ UNCHANGED runs

ScriptStep(s) ==
  \/ StartScript(s) \/ NextEntry(s) \/ SkipsEntry(s) \/ ScriptFails(s)
  \/ (FindsRow(s) \/ FindsNothing(s) \/ Inserts(s)) /\ UNCHANGED <<entry, runs, clean, done>>

SeedsNext ==
  \/ \E s \in Scripts : ScriptStep(s)
  \/ \E w \in Sellers :
       /\ SellerSaves(w, TypedMakes, TypedModels, TypedTrims, TypedFuels) \/ SellerStep(w)
       /\ UNCHANGED <<entry, runs, clean, done>>

-----------------------------------------------------------------------------

\* Two names that differ by their case only stand next to each other when one
\* was written by a script that looks for the exact name, or when two writers
\* created it at the same time (findOrCreateMakeByName and its siblings, the
\* unique indexes).
TwinsComeFromRaces ==
  \A p, q \in Rows : Twins(p, q) => p \in careless \/ q \in careless

\* Row p is where the first stages of an entry lead.
Follows(p, stages) ==
  \A k \in 1 .. Len(p) :
    \E n \in stages[k].names : IF stages[k].match = "ilike" THEN SameName(p[k], n) ELSE p[k] = n

\* How deep the rows of a script go that a clean run promises.
Depth(s) == IF s = "seed:powertrains" THEN 4 ELSE 3

Filled(s, stages) ==
  \A n \in stages[Depth(s)].names : \E p \in Rows :
    /\ Len(p) = Depth(s) /\ Follows(p, stages) /\ p[Depth(s)] = n
    /\ s = "seed:powertrains" => catalog[p] = "curated"

\* A script that ran to its end without an error or a missing model has left
\* its models, all their trims and its curated figures in the catalog, whatever
\* ran next to it; only the engines of a Wikidata trim that was there already
\* may be missing (seed-vehicle-catalog.ts, seed-powertrains.ts).
SeedsFillGaps ==
  \A s \in done : \A i \in DOMAIN Entries[s] : Filled(s, StagesOf(s, Entries[s][i]))

Ambiguous(p) == \E q \in Prefixes(p) : \E r \in Rows : q # <<>> /\ Twins(q, r)

\* A clean run can be repeated without adding a row, unless a make, a model or
\* a trim has a twin: the lookup of seed:powertrains may then take the other one
\* (the README's "fill gaps rather than duplicating").
RerunAddsNothing ==
  [][\A s \in done : job'[s] # job[s] => \A p \in Rows' \ Rows : Ambiguous(p)]_seedVars
=============================================================================
