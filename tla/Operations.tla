----------------------------- MODULE Operations -----------------------------
(***************************************************************************)
(* What those who run the platform do: admins in the back office, the      *)
(* scripts that fill the vehicle catalog sellers write to, and the         *)
(* migrations.  Each part is a system of its own: they share no row the    *)
(* others read, so that a behaviour is that of one of them.                *)
(***************************************************************************)
EXTENDS BackOffice, CatalogSeeds, Migrations

VARIABLE part

operationsVars == <<part, backOfficeVars, seedVars, migrationVars>>

OperationsInit ==
  /\ part \in {"backOffice", "catalog", "migrations"}
  /\ IF part = "backOffice" THEN BackOfficeInit ELSE BackOfficeStarts([a \in Ads |-> "DRAFT"])
  /\ SeedsInit
  /\ IF part = "migrations" THEN MigrationsInit
     ELSE MigrationsStart(CHOOSE t \in OldTrims : TRUE, CHOOSE v \in OldVehicles : TRUE)

OperationsNext ==
  /\ UNCHANGED part
  /\ \/ part = "backOffice" /\ BackOfficeNext /\ UNCHANGED <<seedVars, migrationVars>>
     \/ part = "catalog" /\ SeedsNext /\ UNCHANGED <<backOfficeVars, migrationVars>>
     \/ part = "migrations" /\ MigrationsNext /\ UNCHANGED <<backOfficeVars, seedVars>>

OperationsSpec == OperationsInit /\ [][OperationsNext]_operationsVars
=============================================================================
