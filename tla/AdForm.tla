------------------------------- MODULE AdForm -------------------------------
(***************************************************************************)
(* The vehicle part of the create-ad page (CreateAdComponent): make, model,*)
(* fuel type and finition cascade through Angular's valueChanges, the      *)
(* lists of models and trims arrive when they arrive, the finition fills   *)
(* in the mechanical fields, and an existing ad is loaded into all of it.  *)
(* One mechanical field stands for the seven, which are treated alike.     *)
(***************************************************************************)
EXTENDS Integers, FiniteSets

CONSTANTS
  Makes, Models, Trims, Fuels, Specs,
  MakeOf, ModelOf,     \* the make of a model, the model of a trim
  Engines,             \* of each trim: a function from some fuels to specs
  Typed,               \* a name that is not in the catalog
  Nothing,             \* null
  SavedTrim, SavedSpec,   \* a bound: the finition and the figure of the ad that may be loaded
  MaxAsked, MaxFormLoads   \* bounds: lists and VINs asked for, loads of the ad

ASSUME AdFormAssumption ==
  /\ MaxAsked \in Nat /\ MaxFormLoads \in Nat
  /\ MakeOf \in [Models -> Makes] /\ ModelOf \in [Trims -> Models] /\ SavedTrim \in Trims /\ SavedSpec \in Specs
  /\ \A t \in Trims : Engines[t] \in UNION {[on -> Specs] : on \in SUBSET Fuels}
  /\ {Typed, Nothing} \cap (Makes \union Models \union Trims \union Fuels \union Specs) = {}
  /\ Nothing \notin {Typed, "ad", "models", "trims"}

VARIABLES
  saved,        \* the ad as the API has it
  form,         \* the controls, what the last prefill wrote, and the lists
  asks, asked,  \* lists and VIN lookups under way, and how many there were
  loadingAd,      \* what loadForEdit() waits for, or Nothing
  loads,
  fresh,        \* nothing was touched since the ad was loaded (history)
  misled        \* something was picked from the list of another choice, or the
                \* make was set half way through a load (history)

adFormVars == <<saved, form, asks, asked, loadingAd, loads, fresh, misled>>

\* modelOn: the control of the model is enabled.  origin is history: who wrote
\* the figure, the "form", the "seller", or the "ad" that was loaded.
EmptyForm == [make |-> Nothing, model |-> Nothing, modelOn |-> FALSE, fuel |-> Nothing,
              trim |-> Nothing, spec |-> Nothing, prefill |-> Nothing, origin |-> "form",
              models |-> {}, trims |-> {}, filtered |-> {}]

SavedAds == [trim : {SavedTrim}, fuel : DOMAIN Engines[SavedTrim], spec : {SavedSpec}, status : {"DRAFT", "VALIDATED"}]

AdFormStarts(ad, wait) ==
  /\ saved = ad /\ loadingAd = wait
  /\ form = EmptyForm /\ asks = {} /\ asked = 0 /\ loads = 0
  /\ fresh = FALSE /\ misled = FALSE

\* A new ad, or the id of one in the route.  A bound: nothing is typed before
\* the list of makes is there.
AdFormInit == \E ad \in SavedAds, wait \in {Nothing, "ad"} : AdFormStarts(ad, wait)

-----------------------------------------------------------------------------
(* The valueChanges listeners, each with those it sets off                  *)

Offers(t, fuel) == DOMAIN Engines[t] = {} \/ fuel \in DOMAIN Engines[t]

FuelSet(f, fuel) ==
  [f EXCEPT !.fuel = fuel, !.trim = Nothing, !.spec = Nothing, !.origin = "form",
            !.filtered = IF fuel = Nothing THEN {} ELSE {t \in f.trims : Offers(t, fuel)}]

ModelSet(f, model) ==
  [FuelSet(f, Nothing) EXCEPT !.model = model, !.trims = IF Nothing \in {model, f.make} THEN {} ELSE @]

\* A bug: the model of the previous make is kept.
ModelKept(f, make) == [FuelSet(f, Nothing) EXCEPT !.make = make, !.modelOn = make # Nothing]

MakeSet(f, make) ==
  [ModelSet(f, Nothing) EXCEPT !.make = make, !.modelOn = make # Nothing,
                               !.models = IF make = Nothing THEN {} ELSE @]

SpecOf(trim, fuel) == IF fuel \in DOMAIN Engines[trim] THEN Engines[trim][fuel] ELSE Nothing

\* A bug: what an earlier finition filled in counts as the seller's.
StillEmpty(f) == f.spec = Nothing

StillPrefilled(f) == f.spec = Nothing \/ f.spec = f.prefill

TrimSet(f, trim) ==
  LET new == SpecOf(trim, f.fuel) IN
  IF trim \in Trims /\ StillPrefilled(f)
    THEN [f EXCEPT !.trim = trim, !.spec = new, !.prefill = new, !.origin = "form"]
    ELSE [f EXCEPT !.trim = trim]

Asks(kind, make, model) == [kind |-> kind, make |-> make, model |-> model]

\* What the make and the model listener ask for.
MakeAsks(make) == IF make = Nothing THEN {} ELSE {Asks("models", make, Nothing)}
ModelAsks(make, model) == IF Nothing \in {make, model} THEN {} ELSE {Asks("trims", make, model)}

Sends(new) ==
  /\ asks' = asks \union new /\ asked' = asked + Cardinality(new) /\ asked' <= MaxAsked

-----------------------------------------------------------------------------
(* The seller; the form is hidden while an ad is loaded                     *)

ModelsOf(make) == {d \in Models : MakeOf[d] = make}
TrimsOf(make, model) == {t \in Trims : ModelOf[t] = model /\ MakeOf[model] = make}

\* The controls of the make and of the figures are disabled; that of the model
\* is enabled again when a VIN sets the make.
Locked == loads > 0 /\ saved.status = "VALIDATED"

Edits == loadingAd = Nothing /\ fresh' = FALSE /\ UNCHANGED <<saved, loadingAd, loads>>

PickMake(m) ==
  /\ Edits /\ ~Locked /\ form' = MakeSet(form, m) /\ form' # form
  /\ Sends(MakeAsks(m)) /\ UNCHANGED misled

\* The list may still be that of an earlier make, or come too late.
PickModel(d) ==
  /\ Edits /\ form.modelOn /\ d \in form.models \union {Typed}
  /\ form' = ModelSet(form, d) /\ form' # form
  /\ Sends(ModelAsks(form.make, d))
  /\ misled' = (misled \/ (d # Typed /\ ~(form.models \subseteq ModelsOf(form.make))))

PickFuel(fuel) ==
  /\ Edits /\ form.model # Nothing
  /\ form' = FuelSet(form, fuel) /\ form' # form
  /\ UNCHANGED <<asks, asked, misled>>

\* The finitions were filtered when the fuel type was picked.
PickTrim(t) ==
  /\ Edits /\ form.fuel # Nothing /\ t \in form.filtered \union {Typed}
  /\ form' = TrimSet(form, t) /\ form' # form
  /\ misled' = (misled \/ (t # Typed /\ ~(form.filtered \subseteq TrimsOf(form.make, form.model))))
  /\ UNCHANGED <<asks, asked>>

TypeSpec(x) ==
  /\ Edits /\ ~Locked /\ x # form.spec
  /\ form' = [form EXCEPT !.spec = x, !.origin = "seller"]
  /\ UNCHANGED <<asks, asked, misled>>

\* Its button works on a VALIDATED ad as well.
LookupVin == Edits /\ Sends({Asks("vin", Nothing, Nothing)}) /\ UNCHANGED <<form, misled>>

-----------------------------------------------------------------------------
(* What arrives                                                             *)

\* Whatever is selected by now.
ListAnswered(a) ==
  /\ asks' = asks \ {a} /\ UNCHANGED <<saved, asked, loadingAd, loads, fresh, misled>>
  /\ \/ a.kind = "models" /\ form' = [form EXCEPT !.models = ModelsOf(a.make)]
     \/ a.kind = "trims" /\ form' = [form EXCEPT !.trims = TrimsOf(a.make, a.model)]

\* The make of a recognized VIN goes through the cascade, whenever it comes.
VinAnswered(a) ==
  /\ a.kind = "vin"
  /\ \E m \in Makes :
       /\ form' = MakeSet(form, m)
       /\ asks' = (asks \ {a}) \union MakeAsks(m)
  /\ fresh' = FALSE /\ UNCHANGED <<saved, asked, loadingAd, loads>>
  /\ misled' = (misled \/ loadingAd \in {"models", "trims"})

\* Nothing catches it: the list stays as it was.
AskFails(a) == asks' = asks \ {a} /\ UNCHANGED <<saved, form, asked, loadingAd, loads, fresh, misled>>

-----------------------------------------------------------------------------
(* loadForEdit                                                              *)

ResetToOriginal ==
  /\ loadingAd = Nothing /\ loads \in 1 .. MaxFormLoads - 1 /\ ~Locked
  /\ loadingAd' = "ad" /\ fresh' = FALSE
  /\ UNCHANGED <<saved, form, asks, asked, loads, misled>>

AdModel == ModelOf[saved.trim]
AdMake == MakeOf[AdModel]

AdArrives ==
  /\ loadingAd = "ad" /\ loadingAd' = "models" /\ loads' = loads + 1
  /\ form' = [form EXCEPT !.make = AdMake]    \* emitEvent: false
  /\ UNCHANGED <<saved, asks, asked, fresh, misled>>

\* enable() emits, with the model that was there.
ModelsArrive ==
  /\ loadingAd = "models" /\ loadingAd' = "trims"
  /\ form' = [ModelSet(form, form.model) EXCEPT !.model = AdModel, !.modelOn = TRUE,
                                                !.models = ModelsOf(AdMake)]
  /\ asks' = asks \union ModelAsks(form.make, form.model)
  /\ UNCHANGED <<saved, asked, loads, fresh, misled>>

\* A bug: the fuel type is set last, and its listener runs.
FuelLast(f) == FuelSet([f EXCEPT !.trim = saved.trim, !.spec = saved.spec], saved.fuel)

\* fuelType.enable() emits too, before the rest is set without events.
Filled(f) == [FuelSet(f, saved.fuel) EXCEPT !.trim = saved.trim, !.spec = saved.spec, !.origin = "ad"]

\* The controls of a VALIDATED ad are disabled: disable() runs their listeners.
Disabled(f) == [MakeSet(f, f.make) EXCEPT !.modelOn = FALSE]

TrimsArrive ==
  /\ loadingAd = "trims" /\ loadingAd' = Nothing /\ fresh' = TRUE
  /\ LET filled == Filled([form EXCEPT !.trims = TrimsOf(AdMake, AdModel)]) IN
     IF saved.status = "VALIDATED"
       THEN form' = Disabled(filled) /\ asks' = asks \union MakeAsks(form.make)
       ELSE form' = filled /\ UNCHANGED asks
  /\ UNCHANGED <<saved, asked, loads, misled>>

\* It stays half filled in: the make of the ad with the model that was there.
AdLoadFails ==
  /\ loadingAd # Nothing /\ loadingAd' = Nothing /\ misled' = (misled \/ loadingAd = "models")
  /\ UNCHANGED <<saved, form, asks, asked, loads, fresh>>

AdFormNext ==
  \/ \E m \in Makes \union {Typed, Nothing} : PickMake(m)
  \/ \E d \in Models \union {Typed} : PickModel(d)
  \/ \E fuel \in Fuels : PickFuel(fuel)
  \/ \E t \in Trims \union {Typed} : PickTrim(t)
  \/ \E x \in Specs \union {Nothing} : TypeSpec(x)
  \/ LookupVin \/ ResetToOriginal \/ AdArrives \/ ModelsArrive \/ TrimsArrive \/ AdLoadFails
  \/ \E a \in asks : ListAnswered(a) \/ VinAnswered(a) \/ AskFails(a)

-----------------------------------------------------------------------------

\* Lists may come late, out of order or not at all, and what is selected still
\* fits: the model is one of the make and the finition one of the model, with an
\* engine for the fuel, unless something was picked from a list that is not of
\* the make or the model, or a VIN or an error met a load half way:
\* createVehicle() checks none of it.
CascadeFits ==
  loadingAd = Nothing /\ ~misled =>
    /\ form.model \in Models => MakeOf[form.model] = form.make
    /\ form.trim \in Trims => ModelOf[form.trim] = form.model /\ Offers(form.trim, form.fuel)

\* A figure the form filled in itself is that of the finition and the fuel now
\* selected, whatever finitions, names and fuels were selected in between: what
\* stays of another finition was typed or came with the ad (resetTrimAndSpecs
\* and applyPowertrainPrefill, which knows its own figures by their value).
FiguresFitTheFinition ==
  form.origin = "form" /\ form.trim \in Trims => form.spec = SpecOf(form.trim, form.fuel)

\* Once it is loaded, the form shows the vehicle of the ad, except that of a
\* VALIDATED ad, whose controls are emptied as they are disabled, unless a VIN
\* was recognized meanwhile (loadForEdit and the comment above it).
LoadShowsTheAd ==
  fresh /\ ~misled /\ saved.status = "DRAFT" =>
    /\ form.make = AdMake /\ form.model = AdModel
    /\ form.fuel = saved.fuel /\ form.trim = saved.trim /\ form.spec = saved.spec
=============================================================================
