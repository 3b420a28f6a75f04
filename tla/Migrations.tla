----------------------------- MODULE Migrations -----------------------------
(***************************************************************************)
(* The migrations of euro-platform-api that move or convert rows, numbered *)
(* by their last digit: a release applies all those pending in one         *)
(* transaction when it boots, an operator reverts the last one at a time.  *)
(* Between them the current release adds cars and engines.  One value      *)
(* stands for the seven mechanical figures, named by the horsepower, and   *)
(* one for the number of seats and the Crit'Air vignette.                  *)
(***************************************************************************)
EXTENDS Integers, SequencesExt

CONSTANTS
  Finitions,          \* vehicle_trims
  Cars, FinitionOf,   \* vehicles, each with its ad; the finition may be missing
  OldCars,            \* those of the first release
  Burns, Figures,     \* fuel types, and figures of an engine
  DoorCounts,
  Papers, OldPapers,  \* what sellers say of a car, but for its doors and its engine, in this
                      \* release (condition, paint, fiscal, extras) and the first (condition, paint)
  Missing,            \* NULL
  MaxUpgrades         \* a bound: boots that apply what is pending

ASSUME MigrationsAssumption ==
  /\ MaxUpgrades \in Nat /\ Missing \notin Finitions /\ Missing \notin Burns /\ OldPapers # {}
  /\ OldCars \subseteq Cars /\ Figures \subseteq Nat
  /\ FinitionOf \in [Cars -> Finitions \union {Missing}]

VARIABLES
  applied,   \* the last migration applied, 0 for the first release
  trimRow,   \* vehicle_trims: doors and the one engine, while they have the columns
  powertrain,\* vehicle_trim_powertrains of each finition, by id
  vehicle,   \* vehicles, with the condition of the ad
  upgrades,
  told,      \* the vehicle as its seller gave it (history)
  overwritten\* the fields of vehicles that a migration could not keep as they were (history)

migrationVars == <<applied, trimRow, powertrain, vehicle, upgrades, told, overwritten>>

Latest == 5
NoEngine == [burns |-> Missing, figures |-> Missing]
Fields == {"condition", "exterior", "interior", "doors", "engine", "fiscal", "extras"}

-----------------------------------------------------------------------------
(* Conversions                                                              *)

FineCondition(c) == CASE c = "FAIR" -> "NORMAL_WEAR" [] c = "POOR" -> "DAMAGED" [] OTHER -> c

CoarseCondition(c) ==
  CASE c = "NOT_DAMAGED" -> "GOOD"
    [] c \in {"NORMAL_WEAR", "MINOR_REPAIRS_NEEDED"} -> "FAIR"
    [] c \in {"MAJOR_REPAIRS_NEEDED", "DAMAGED", "NOT_RUNNING"} -> "POOR"
    [] OTHER -> c

\* The palette, in the order in which a text is searched for its words; a text
\* is the sequence of those it holds.  IVORY is searched as a shade of white.
Palette == <<"WHITE", "BLACK", "GREY", "SILVER", "BLUE", "RED", "GREEN", "YELLOW", "GOLD", "BEIGE",
             "BROWN", "ORANGE", "PURPLE", "PINK", "BURGUNDY">>

TextOf(colour) == IF colour \in ToSet(Palette) THEN <<colour>> ELSE <<>>

ColourOf(text) ==
  LET found == {k \in DOMAIN Palette : Palette[k] \in ToSet(text)} IN
  IF found = {} THEN "OTHER" ELSE Palette[Min(found)]

Finer(car) == [car EXCEPT !.condition = FineCondition(@), !.exterior = ColourOf(@)]

Coarser(car) == [car EXCEPT !.condition = CoarseCondition(@), !.exterior = TextOf(@)]

\* GREATEST(1, ROUND(COALESCE(horsepower, 100) / 10)), and 10 without a finition.
FiscalEstimate(figures) == IF figures = Missing THEN 10 ELSE Max({1, (figures + 5) \div 10})

-----------------------------------------------------------------------------
(* What each migration does to the rows [t: trims, p: powertrains, v: cars] *)

ForCars(db, v) == [db EXCEPT !.v = v]

\* A bug: the last engine of a finition survives the revert.
LastEngine(engines) == Last(engines)

FirstEngine(engines) == Head(engines)

EngineOfFinition(db, c) == IF FinitionOf[c] = Missing THEN NoEngine ELSE db.t[FinitionOf[c]].engine

\* Migration 2: the doors of the finition, and a fiscal power estimated from its engine.
WithSpecFields(db, c) ==
  LET r == [db.v[c] EXCEPT !.fiscal = FiscalEstimate(EngineOfFinition(db, c).figures)] IN
  IF FinitionOf[c] = Missing THEN r ELSE [r EXCEPT !.doors = db.t[FinitionOf[c]].doors]

WithoutSpecFields(car) == [car EXCEPT !.doors = Missing, !.fiscal = Missing, !.extras = Missing]

Up(db, i) ==
  CASE i = 1 -> ForCars(db, [c \in DOMAIN db.v |-> Finer(db.v[c])])
    [] i = 2 -> [ForCars(db, [c \in DOMAIN db.v |-> WithSpecFields(db, c)])
                   EXCEPT !.t = [f \in Finitions |-> [db.t[f] EXCEPT !.doors = Missing]]]
    [] i = 4 -> ForCars(db, [c \in DOMAIN db.v |-> [db.v[c] EXCEPT !.interior = ColourOf(@)]])
    [] i = 5 -> LET p == [f \in Finitions |->
                            IF db.t[f].engine.burns = Missing THEN <<>> ELSE <<db.t[f].engine>>]
                IN [ForCars(db, [c \in DOMAIN db.v |->
                      IF FinitionOf[c] = Missing \/ p[FinitionOf[c]] = <<>> THEN db.v[c]
                      ELSE [db.v[c] EXCEPT !.engine = p[FinitionOf[c]][1]]])
                      EXCEPT !.p = p, !.t = [f \in Finitions |-> [db.t[f] EXCEPT !.engine = NoEngine]]]
    [] OTHER -> db

\* The UPDATE joins a finition with all its cars: any of them gives the doors.
DoorsAfter(db, f) ==
  LET doors == {db.v[c].doors : c \in {d \in DOMAIN db.v : FinitionOf[d] = f}} \ {Missing}
  IN IF doors = {} THEN {Missing} ELSE doors

Downs(db, i) ==
  CASE i = 1 -> {ForCars(db, [c \in DOMAIN db.v |-> Coarser(db.v[c])])}
    [] i = 2 -> {[ForCars(db, [c \in DOMAIN db.v |-> WithoutSpecFields(db.v[c])])
                    EXCEPT !.t = [f \in Finitions |-> [db.t[f] EXCEPT !.doors = d[f]]]] :
                  d \in {e \in [Finitions -> DoorCounts \union {Missing}] :
                           \A f \in Finitions : e[f] \in DoorsAfter(db, f)}}
    [] i = 4 -> {ForCars(db, [c \in DOMAIN db.v |-> [db.v[c] EXCEPT !.interior = TextOf(@)]])}
    [] i = 5 -> {[ForCars(db, [c \in DOMAIN db.v |-> [db.v[c] EXCEPT !.engine = NoEngine]])
                    EXCEPT !.p = [f \in Finitions |-> <<>>],
                           !.t = [f \in Finitions |-> [db.t[f] EXCEPT !.engine =
                                    IF db.p[f] = <<>> THEN NoEngine ELSE FirstEngine(db.p[f])]]]}
    [] OTHER -> {db}

-----------------------------------------------------------------------------

Database == [t |-> trimRow, p |-> powertrain, v |-> vehicle]

Stored(db) == trimRow' = db.t /\ powertrain' = db.p /\ vehicle' = db.v

\* A car keeps a field when the other table, or the other type, can hold it.
KeptByUpgrade(c, k) ==
  applied < 5 /\ FinitionOf[c] # Missing /\ k = "engine" =>
    LET e == trimRow[FinitionOf[c]].engine IN e.burns = Missing => e.figures = Missing

KeptByRevert(c, k) ==
  LET f == FinitionOf[c] r == vehicle[c] IN
  CASE applied = 1 /\ k = "exterior" -> r.exterior \in {"OTHER"} \union ToSet(Palette)
    [] applied = 2 /\ k = "doors" ->
         IF f = Missing THEN r.doors = Missing
         ELSE \A d \in DOMAIN vehicle : FinitionOf[d] = f => vehicle[d].doors = r.doors
    [] applied = 2 /\ k = "fiscal" -> r.fiscal = FiscalEstimate(EngineOfFinition(Database, c).figures)
    [] applied = 2 /\ k = "extras" -> r.extras = Missing
    [] applied = 4 /\ k = "interior" -> r.interior \in {"OTHER"} \union ToSet(Palette)
    [] applied = 5 /\ k = "engine" ->
         r.engine = (IF f = Missing \/ powertrain[f] = <<>> THEN NoEngine ELSE Head(powertrain[f]))
    [] OTHER -> TRUE

\* Migration i follows, if it is pending.
Then(db, i) == IF applied < i THEN Up(db, i) ELSE db

Upgrade ==
  /\ applied < Latest /\ upgrades < MaxUpgrades
  /\ Stored(Then(Then(Then(Then(Then(Database, 1), 2), 3), 4), 5))
  /\ applied' = Latest /\ upgrades' = upgrades + 1
  /\ overwritten' = overwritten \union {ck \in (DOMAIN vehicle) \X Fields : ~KeptByUpgrade(ck[1], ck[2])}
  /\ UNCHANGED told

Revert ==
  /\ applied > 0
  /\ \E db \in Downs(Database, applied) : Stored(db)
  /\ applied' = applied - 1
  /\ overwritten' = overwritten \union {ck \in (DOMAIN vehicle) \X Fields : ~KeptByRevert(ck[1], ck[2])}
  /\ UNCHANGED <<upgrades, told>>

Inserted(rows, c, car) == [x \in (DOMAIN rows) \union {c} |-> IF x = c THEN car ELSE rows[x]]

\* The current release: createVehicle inserts the row of a car, with its own
\* doors and engine, for a new ad as for an edited one, whose former row stays.
\* A bound: the same paint inside as outside.
SellerWrites(c) ==
  /\ applied = Latest /\ c \notin DOMAIN vehicle
  /\ \E p \in Papers, d \in DoorCounts \union {Missing}, b \in Burns, g \in Figures :
       LET car == [condition |-> p.condition, exterior |-> p.paint, interior |-> p.paint, doors |-> d,
                   engine |-> [burns |-> b, figures |-> g], fiscal |-> p.fiscal, extras |-> p.extras]
       IN vehicle' = Inserted(vehicle, c, car) /\ told' = Inserted(told, c, car)
  /\ UNCHANGED <<applied, trimRow, powertrain, upgrades, overwritten>>

\* findOrCreateTrimByName, or a seed script, adds an engine for one more fuel.
AddsEngine(f) ==
  /\ applied = Latest
  /\ \E b \in Burns, g \in Figures :
       /\ \A k \in DOMAIN powertrain[f] : powertrain[f][k].burns # b
       /\ powertrain' = [powertrain EXCEPT ![f] = Append(@, [burns |-> b, figures |-> g])]
  /\ UNCHANGED <<applied, trimRow, vehicle, upgrades, told, overwritten>>

MigrationsNext ==
  \/ Upgrade \/ Revert
  \/ \E c \in Cars : SellerWrites(c)
  \/ \E f \in Finitions : AddsEngine(f)

-----------------------------------------------------------------------------

\* What a car shows, on its own row or on that of its finition, in a database
\* with the first i migrations; while it has no fiscal power, what it would be
\* estimated at.
Shows(db, i, c) ==
  LET r == db.v[c] f == FinitionOf[c] IN
  [condition |-> CoarseCondition(r.condition),
   exterior |-> IF i >= 1 THEN r.exterior ELSE ColourOf(r.exterior),
   interior |-> IF i >= 4 THEN r.interior ELSE ColourOf(r.interior),
   doors |-> IF i >= 2 \/ f = Missing THEN r.doors ELSE db.t[f].doors,
   engine |-> IF i >= 5 \/ f = Missing THEN r.engine ELSE db.t[f].engine,
   fiscal |-> IF i >= 2 THEN r.fiscal ELSE FiscalEstimate(EngineOfFinition(db, c).figures),
   extras |-> r.extras]

OldTrims == [Finitions -> [doors : DoorCounts \union {Missing},
                           engine : {NoEngine} \union [burns : Burns \union {Missing}, figures : Figures]]]

OldVehicles ==
  [OldCars -> {[condition |-> p.condition, exterior |-> p.paint, interior |-> p.paint, doors |-> Missing,
                engine |-> NoEngine, fiscal |-> Missing, extras |-> Missing] : p \in OldPapers}]

MigrationsStart(trims, vehicles) ==
  /\ applied = 0 /\ upgrades = 0 /\ overwritten = {}
  /\ trimRow = trims /\ vehicle = vehicles
  /\ powertrain = [f \in Finitions |-> <<>>]
  /\ told = [c \in OldCars |-> Shows(Database, 0, c)]

\* A database of the first release: free colours, doors and one engine of the
\* finition.  No two finitions of a model differ by their year only, or
\* the third migration would refuse them.
MigrationsInit == \E trims \in OldTrims, vehicles \in OldVehicles : MigrationsStart(trims, vehicles)

AsTold(c) == [told[c] EXCEPT !.condition = CoarseCondition(@)]

\* Through any upgrades and reverts a car shows what its seller said, its
\* condition on the coarser scale, but for the fields a migration had nowhere
\* to keep: figures of a finition without a fuel type, an engine other than the
\* first of its finition, doors other than those of the finition's other cars,
\* ivory paint, a fiscal power other than the estimate, and the seats and the
\* vignette (the comments of migrations 1, 2 and 5).
CarsShowWhatWasTold ==
  \A c \in DOMAIN vehicle, k \in Fields :
    <<c, k>> \notin overwritten => Shows(Database, applied, c)[k] = AsTold(c)[k]
=============================================================================
