----------------------------- MODULE FrontPages -----------------------------
(***************************************************************************)
(* The routes of euro-platform-front a visitor or a seller is on: a page   *)
(* is created when its route is entered, so that a behaviour is that of    *)
(* one page.                                                               *)
(***************************************************************************)
EXTENDS AuctionPage, HomePage, SearchPage, AdForm, AdSaving

VARIABLE route

frontVars == <<route, auctionPageVars, homeVars, searchVars, adFormVars, savingVars>>

\* The two halves of the create-ad page do not read each other's state.
FrontInit ==
  /\ route \in {"", "auctions/:id", "auctions", "ads/:id", "ads/:id, saving"}
  /\ AuctionPageInit /\ SearchInit
  /\ IF route = "" THEN HomeInit ELSE HomeStarts([a \in Auctions |-> Cutoff])
  /\ IF route = "ads/:id" THEN AdFormInit ELSE AdFormStarts(CHOOSE ad \in SavedAds : TRUE, Nothing)
  /\ IF route = "ads/:id, saving" THEN SavingInit ELSE SavingStarts("none", TRUE)

FrontNext ==
  /\ UNCHANGED route
  /\ \/ route = "" /\ HomeNext /\ UNCHANGED <<netVars, pageVars, searchVars, adFormVars, savingVars>>
     \/ route = "auctions/:id" /\ AuctionPageNext /\ UNCHANGED <<homeVars, searchVars, adFormVars, savingVars>>
     \/ route = "auctions" /\ SearchNext /\ UNCHANGED <<auctionPageVars, homeVars, adFormVars, savingVars>>
     \/ route = "ads/:id" /\ AdFormNext /\ UNCHANGED <<auctionPageVars, homeVars, searchVars, savingVars>>
     \/ route = "ads/:id, saving" /\ SavingNext /\ UNCHANGED <<auctionPageVars, homeVars, searchVars, adFormVars>>

FrontSpec == FrontInit /\ [][FrontNext]_frontVars
=============================================================================
