---------------------------- MODULE MCOperations ----------------------------
(* Two ads for the back office; three spellings too many for the catalog; four
   cars for the migrations, an old and a new one of a finition and of none. *)
EXTENDS Operations

CONSTANTS t1, f1, f2, x1, c1, c2, c3, c4

MCNames == {"Audi", "AUDI", "A3", "Standard", "SPORT", "Sport", "DIESEL"}
MCWord == [n \in MCNames |-> CASE n = "AUDI" -> "Audi" [] n = "SPORT" -> "Sport" [] OTHER -> n]
MCEntries ==
  [s \in Scripts |->
     CASE s = "seed:catalog" -> <<[make |-> "Audi", model |-> "A3", fuel |-> "DIESEL"]>>
       [] s = "seed:vehicle-catalog" ->
            <<[make |-> "AUDI", model |-> "A3", trims |-> {"Sport", "Standard"}]>>
       [] s = "seed:powertrains" ->
            <<[make |-> "Audi", model |-> "A3", trim |-> "SPORT", fuel |-> "DIESEL"]>>]

MCFinitionOf == [c \in Cars |-> IF c \in {c1, c2} THEN t1 ELSE Missing]
MCOldPapers == {[condition |-> "FAIR", paint |-> <<>>], [condition |-> "POOR", paint |-> <<"RED", "BLACK">>]}
MCPapers ==
  {[condition |-> "NOT_DAMAGED", paint |-> "IVORY", fiscal |-> 9, extras |-> Missing],
   [condition |-> "MINOR_REPAIRS_NEEDED", paint |-> "RED", fiscal |-> 6, extras |-> x1]}
=============================================================================
