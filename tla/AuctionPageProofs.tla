------------------------- MODULE AuctionPageProofs --------------------------
(***************************************************************************)
(* Proofs about the auction page of FrontPages, for any auctions, users,   *)
(* amounts, loads and faults.                                              *)
(*                                                                         *)
(* The page is behind the server by what is in flight: an answer it has    *)
(* not read, an event not delivered, a reload not run. Follows says which  *)
(* of these must be there whenever the page and the ledger differ,         *)
(* WinnerInv what a load that may announce a winner read, and PanelInv     *)
(* what the bid panel sent and when.                                       *)
(***************************************************************************)
EXTENDS FrontPages, SequenceTheorems, TLAPS

RowSet == [open : BOOLEAN, highest : Amounts \union {NoPrice}]
BidSet == [bidder : Users, amount : Amounts]
DetailSet == [auction : Auctions, open : BOOLEAN, price : Amounts,
              bidder : Users \union {Undefined}, count : Nat]
EventSet == [type : {"bidPlaced", "auctionClosed"}, auction : Auctions]
LoadSet == [pc : {"new", "asked", "live", "done"}, auction : Auctions \union {Undefined},
            row : RowSet \union {Undefined}, list : Seq(BidSet) \union {Undefined},
            announce : BOOLEAN]
PanelSet == [pc : {"idle", "sent", "placed", "refused"}, auction : Auctions \union {Undefined},
             amount : Amounts \union {NoPrice, 0}, shown : DetailSet \union {Undefined}]

UnderWay(n) == load[n].pc \in {"asked", "live"}

PageTyped ==
  /\ phase \in [Auctions -> {"open", "closed"}] /\ price = BuyNow
  /\ ledger \in [Auctions -> Seq(BidSet)]
  /\ owed \subseteq EventSet /\ down \in Seq(EventSet)
  /\ id \in Auctions \union {Undefined}
  /\ load \in [Loads -> LoadSet]
  /\ detail \in DetailSet \union {Undefined} /\ newest \in 0..MaxLoads
  /\ bid \in PanelSet
  /\ \A n \in Loads : UnderWay(n) => load[n].auction \in Auctions /\ id # Undefined
  /\ detail # Undefined \/ bid.pc # "idle" => id # Undefined

\* Reloads are numbered as they are asked for.
InOrder == \E last \in 0..MaxLoads : \A n \in Loads : Asked(n) <=> n <= last

-----------------------------------------------------------------------------

\* A change of the auction on the page that the page is still to hear of.
Coming == \/ \E e \in owed : e.auction = id
          \/ \E i \in DOMAIN down : down[i].auction = id

\* What a reload has read so far is what the server has.
Fresh(n) == load[n].row \in {Undefined, RowOf(id)} /\ load[n].list \in {Undefined, ledger[id]}

Latest(n) == Asked(n) /\ \A k \in Loads : k > n => ~Asked(k)

\* The last reload asked for brings the page up to date, or has done so.
Follows ==
  id # Undefined /\ excuse = "none" =>
    \E n \in Loads :
      /\ Latest(n)
      /\ load[n].pc = "asked" => load[n].auction = id
      /\ load[n].pc # "asked" => newest = n
      /\ Coming \/ IF load[n].pc = "asked" THEN Fresh(n) ELSE detail = Current(id)

-----------------------------------------------------------------------------

Ended(e) == e.type = "auctionClosed" => phase[e.auction] = "closed"

\* A reload for an announcement, and those after it, read the auction's last bids.
Announcing(n) ==
  UnderWay(n) /\ load[n].announce =>
    /\ phase[load[n].auction] = "closed"
    /\ \A k \in Loads : k >= n /\ load[k].pc = "asked" /\ load[k].auction = load[n].auction
         => load[k].list \in {Undefined, ledger[load[n].auction]}

WinnerShown(n) ==
  LET a == load[n].auction IN
  excuse = "none" /\ Announces(n) /\ detail.auction = a
    => (ledger[a] # <<>> => detail.bidder = Last(ledger[a]).bidder)

WinnerInv ==
  /\ \A e \in owed : Ended(e)
  /\ \A i \in DOMAIN down : Ended(down[i])
  /\ \A n \in Loads : Announcing(n) /\ WinnerShown(n)
  /\ excuse = "none" => \A n \in Loads : load[n].pc = "live" => n <= newest

-----------------------------------------------------------------------------

\* While an auction is open its last bid is its highest.
LastIsHighest ==
  \A a \in Auctions : phase[a] = "open" =>
    \A i \in DOMAIN ledger[a] : ledger[a][i].amount <= Last(ledger[a]).amount

\* What was read was there.
Behind ==
  /\ \A n \in Loads : UnderWay(n) /\ load[n].list # Undefined
                        => Len(load[n].list) <= Len(ledger[load[n].auction])
  /\ detail # Undefined => detail.count <= Len(ledger[detail.auction])

PanelAsked ==
  bid.pc # "idle" =>
    /\ bid.auction \in Auctions /\ bid.shown \in DetailSet
    /\ bid.shown.auction = bid.auction /\ bid.shown.open
    /\ bid.shown.count <= Len(ledger[bid.auction])
    /\ Viewer # Seller[bid.auction]
    /\ bid.amount = NoPrice => BuyNow[bid.auction] # NoPrice
    /\ bid.amount # NoPrice => bid.amount \in Amounts /\ bid.amount >= bid.shown.price + Step

PanelInv == LastIsHighest /\ Behind /\ PanelAsked /\ RefusalsMeanStalePages

PageInv == PageTyped /\ InOrder /\ Follows /\ WinnerInv /\ PanelInv

-----------------------------------------------------------------------------
(* Reading and recording the reloads                                        *)

\* Reloads are numbered from one.
LEMMA LoadsAreNumbers == Loads \subseteq Nat \ {0} /\ MaxLoads \in Nat
  BY PageAssumption DEF Loads

\* A reload is asked for after all those before it, and has read nothing.
LEMMA LoadIsAsked ==
  ASSUME PageTyped, InOrder, NEW a \in Auctions, NEW announce \in BOOLEAN, LoadAuction(a, announce)
  PROVE  \E m \in Loads :
           /\ \A k \in Loads : Asked(k) <=> k < m
           /\ load' \in [Loads -> LoadSet] /\ \A k \in Loads \ {m} : load'[k] = load[k]
           /\ load'[m].pc = "asked" /\ load'[m].auction = a /\ load'[m].announce = announce
           /\ load'[m].row = Undefined /\ load'[m].list = Undefined
<1>1. PICK last \in 0..MaxLoads : \A n \in Loads : Asked(n) <=> n <= last
  BY DEF InOrder
<1> DEFINE m == last + 1
           new == [NoLoad EXCEPT !.pc = "asked", !.auction = a, !.announce = announce]
<1>2. m \in Loads
  <2>1. PICK n \in Loads : ~Asked(n)
    BY DEF LoadAuction, LoadsLeft
  <2>2. n \in 1..MaxLoads /\ n > last
    BY <1>1, <2>1 DEF Loads
  <2> QED
    BY <2>2, PageAssumption DEF Loads
<1>3. \A k \in Loads : Asked(k) <=> k < m
  BY <1>1, LoadsAreNumbers
<1>4. NextLoad = m
  <2>1. ~Asked(m) /\ \A k \in Loads : k < m => Asked(k)
    BY <1>2, <1>3, LoadsAreNumbers
  <2>2. ASSUME NEW n \in Loads, ~Asked(n), \A k \in Loads : k < n => Asked(k)
        PROVE  n = m
    BY <1>2, <1>3, <2>1, <2>2, LoadsAreNumbers
  <2> QED
    BY <1>2, <2>1, <2>2 DEF NextLoad
<1>5. NoLoad \in LoadSet /\ NoLoad.row = Undefined /\ NoLoad.list = Undefined
  BY DEF NoLoad, LoadSet
<1>6. /\ new \in LoadSet /\ new.pc = "asked" /\ new.auction = a /\ new.announce = announce
      /\ new.row = Undefined /\ new.list = Undefined
  BY <1>5 DEF LoadSet
<1>7. load' = [load EXCEPT ![m] = new]
  BY <1>4 DEF LoadAuction
<1> HIDE DEF m, new
<1> QED
  BY <1>2, <1>3, <1>6, <1>7 DEF PageTyped

\* Recording the progress of a reload changes no other, nor their order.
LEMMA LoadMovesOn ==
  ASSUME PageTyped, InOrder, NEW n \in Loads, Asked(n),
         load' = [load EXCEPT ![n] = load'[n]], load'[n] \in LoadSet, load'[n].pc # "new"
  PROVE  /\ load' \in [Loads -> LoadSet] /\ \A k \in Loads \ {n} : load'[k] = load[k]
         /\ \A k \in Loads : Asked(k)' <=> Asked(k)
         /\ InOrder'
<1>1. load' \in [Loads -> LoadSet] /\ \A k \in Loads \ {n} : load'[k] = load[k]
  BY DEF PageTyped
<1>2. \A k \in Loads : Asked(k)' <=> Asked(k)
  BY <1>1 DEF Asked
<1>3. PICK last \in 0..MaxLoads : \A k \in Loads : Asked(k) <=> k <= last
  BY DEF InOrder
<1>4. InOrder'
  BY <1>2, <1>3 DEF InOrder, Asked
<1> QED
  BY <1>1, <1>2, <1>4

\* What is read of an auction is well typed.
LEMMA ReadsTyped ==
  ASSUME PageTyped, NEW a \in Auctions
  PROVE  /\ RowOf(a) \in RowSet /\ ledger[a] \in Seq(BidSet) /\ Len(ledger[a]) \in Nat
         /\ ledger[a] # <<>> => Last(ledger[a]) \in BidSet
<1>1. ledger[a] \in Seq(BidSet)
  BY DEF PageTyped
<1>2. Len(ledger[a]) \in Nat
  BY <1>1, LenProperties
<1>3. ASSUME ledger[a] # <<>> PROVE Last(ledger[a]) \in BidSet
  <2>1. Len(ledger[a]) \in 1..Len(ledger[a])
    BY <1>1, <1>2, <1>3, EmptySeq
  <2> QED
    BY <1>1, <2>1, ElementOfSeq DEF Last
<1>4. RowOf(a) \in RowSet
  BY <1>3 DEF RowOf, RowSet, BidSet
<1> QED
  BY <1>1, <1>2, <1>3, <1>4

\* What is shown of an answer is well typed, and never nothing.
LEMMA DetailTyped ==
  ASSUME NEW a \in Auctions, NEW r \in RowSet, NEW list \in Seq(BidSet)
  PROVE  LET d == ToDetail(a, r, list) IN
         /\ d \in DetailSet /\ d.auction = a /\ d.open = r.open /\ d.count = Len(list)
         /\ d.price = (IF r.highest = NoPrice THEN Reserve ELSE r.highest)
         /\ list # <<>> => d.bidder = Last(list).bidder
<1>1. Len(list) \in Nat
  BY LenProperties
<1>2. ASSUME list # <<>> PROVE Last(list) \in BidSet
  <2>1. Len(list) \in 1..Len(list)
    BY <1>1, <1>2, EmptySeq
  <2> QED
    BY <2>1, ElementOfSeq DEF Last
<1>3. (IF list = <<>> THEN Undefined ELSE TopBidder(list)) \in Users \union {Undefined}
  BY <1>2 DEF TopBidder, BidSet
<1>4. (IF r.highest = NoPrice THEN Reserve ELSE r.highest) \in Amounts
  BY PageAssumption DEF RowSet
<1> QED
  BY <1>1, <1>3, <1>4 DEF ToDetail, DetailSet, RowSet, TopBidder

-----------------------------------------------------------------------------
(* The server's steps                                                       *)

\* One auction changes, and only events of it are owed.
ServerMoves(a) ==
  /\ phase[a] = "open" /\ phase' \in [Auctions -> {"open", "closed"}] /\ UNCHANGED price
  /\ ledger' \in [Auctions -> Seq(BidSet)]
  /\ \A c \in Auctions \ {a} : phase'[c] = phase[c] /\ ledger'[c] = ledger[c]
  /\ \/ ledger'[a] = ledger[a]
     \/ \E b \in BidSet :
          /\ ledger'[a] = Append(ledger[a], b)
          /\ phase'[a] = "open" => \A i \in DOMAIN ledger[a] : ledger[a][i].amount < b.amount
  /\ owed' \subseteq EventSet /\ owed' # {}
  /\ \A e \in owed' : e.auction = a /\ (e.type = "auctionClosed" => phase'[a] = "closed")

\* A bid committed on the server moves its auction on and owes the room a bidPlaced.
LEMMA BidMoves ==
  ASSUME PageTyped, NEW a \in Auctions, NEW u \in Users, NEW m \in Amounts,
         BidOn(a, u, m), owed' = {Placed(a)}
  PROVE  ServerMoves(a)
<1> DEFINE b == [bidder |-> u, amount |-> m]
<1>1. b \in BidSet /\ b.amount = m
  BY DEF BidSet
<1>2. ledger' = [ledger EXCEPT ![a] = Append(@, b)] /\ UNCHANGED <<phase, price>> /\ phase[a] = "open"
      /\ \A i \in DOMAIN ledger[a] : ledger[a][i].amount < m
  BY DEF BidOn, MayBid, Record
<1> HIDE DEF b
<1>3. Append(ledger[a], b) \in Seq(BidSet)
  BY <1>1, AppendProperties DEF PageTyped
<1>4. Placed(a) \in EventSet /\ Placed(a).auction = a /\ Placed(a).type # "auctionClosed"
  BY DEF Placed, EventSet
<1> QED
  BY <1>1, <1>2, <1>3, <1>4 DEF ServerMoves, PageTyped

\* A purchase closes its auction and owes the room both events (BidService.buyNow).
LEMMA BuyMoves ==
  ASSUME PageTyped, NEW a \in Auctions, NEW u \in Users, Buy(a, u), owed' = {Placed(a), Closed(a)}
  PROVE  ServerMoves(a)
<1> DEFINE b == [bidder |-> u, amount |-> price[a]]
<1>1. b \in BidSet
  BY PageAssumption DEF BidSet, Buy, MayBuy, PageTyped
<1>2. ledger' = [ledger EXCEPT ![a] = Append(@, b)] /\ phase' = [phase EXCEPT ![a] = "closed"]
      /\ UNCHANGED price /\ phase[a] = "open"
  BY DEF Buy, MayBuy, Record
<1> HIDE DEF b
<1>3. Append(ledger[a], b) \in Seq(BidSet)
  BY <1>1, AppendProperties DEF PageTyped
<1>4. /\ {Placed(a), Closed(a)} \subseteq EventSet
      /\ \A e \in {Placed(a), Closed(a)} : e.auction = a
  BY DEF Placed, Closed, EventSet
<1> QED
  BY <1>1, <1>2, <1>3, <1>4 DEF ServerMoves, PageTyped

\* A close without a bid owes the room an auctionClosed.
LEMMA CloseMoves ==
  ASSUME PageTyped, NEW a \in Auctions, Close(a), owed' = {Closed(a)}
  PROVE  ServerMoves(a)
<1>1. Closed(a) \in EventSet /\ Closed(a).auction = a
  BY DEF Closed, EventSet
<1> QED
  BY <1>1 DEF Close, ServerMoves, PageTyped

\* Whatever the server commits moves one auction on, and owes its room the events.
LEMMA ServerActsMoves ==
  ASSUME PageTyped, ServerActs
  PROVE  \E a \in Auctions : ServerMoves(a)
<1>1. PICK a \in Busy :
        \/ \E u \in Users \ {Viewer}, m \in Amounts : BidOn(a, u, m) /\ owed' = {Placed(a)}
        \/ \E u \in Users \ {Viewer} : Buy(a, u) /\ owed' = {Placed(a), Closed(a)}
        \/ Close(a) /\ owed' = {Closed(a)}
  BY DEF ServerActs
<1>2. a \in Auctions
  BY <1>1, PageAssumption
<1> QED
  BY <1>1, <1>2, BidMoves, BuyMoves, CloseMoves

\* The panel's call is served, and changes its auction, or it is refused.
LEMMA PanelServedMoves ==
  ASSUME PageTyped, PanelAsked, PanelServed
  PROVE  \/ bid' = [bid EXCEPT !.pc = "placed"] /\ ServerMoves(bid.auction)
         \/ bid' = [bid EXCEPT !.pc = "refused"] /\ Refused(bid.auction, bid.amount)
            /\ UNCHANGED <<ledgerVars, owed>>
<1>1. bid.auction \in Auctions /\ (bid.amount # NoPrice => bid.amount \in Amounts) /\ Viewer \in Users
  BY PageAssumption DEF PanelServed, PanelAsked
<1>2. PICK a \in Auctions : a = bid.auction
  BY <1>1
<1>3. CASE /\ Served(bid.auction, bid.amount) /\ bid' = [bid EXCEPT !.pc = "placed"]
           /\ owed' = {Placed(bid.auction)} \union
                      (IF bid.amount = NoPrice THEN {Closed(bid.auction)} ELSE {})
  <2>1. CASE bid.amount = NoPrice
    <3>1. Buy(a, Viewer) /\ owed' = {Placed(a), Closed(a)}
      BY <1>2, <1>3, <2>1 DEF Served
    <3> QED
      BY <1>1, <1>2, <1>3, <3>1, BuyMoves
  <2>2. CASE bid.amount # NoPrice
    <3>1. PICK m \in Amounts : m = bid.amount
      BY <1>1, <2>2
    <3>2. BidOn(a, Viewer, m) /\ owed' = {Placed(a)}
      BY <1>2, <1>3, <2>2, <3>1 DEF Served
    <3> QED
      BY <1>1, <1>2, <1>3, <3>2, BidMoves
  <2> QED
    BY <2>1, <2>2
<1> QED
  BY <1>3 DEF PanelServed

-----------------------------------------------------------------------------
(* Types and the order of the reloads                                       *)

PageBase == PageTyped /\ InOrder

\* A step that only changes the auctions and what is owed.
LEMMA ServerBase ==
  ASSUME PageBase, NEW a \in Auctions, ServerMoves(a), bid' \in PanelSet,
         bid'.pc # "idle" => bid.pc # "idle", UNCHANGED <<down, id, load, detail, newest>>
  PROVE  PageBase'
<1>1. PageTyped'
  BY DEF PageBase, PageTyped, ServerMoves, UnderWay
<1>2. InOrder'
  BY DEF PageBase, InOrder, Asked
<1> QED
  BY <1>1, <1>2 DEF PageBase

\* A step that asks for a reload of the page's auction.
LEMMA LoadAskedBase ==
  ASSUME PageBase, NEW a \in Auctions, NEW announce \in BOOLEAN, LoadAuction(a, announce), id' = a,
         UNCHANGED <<ledgerVars, owed, newest>>, down' \in Seq(EventSet),
         detail' \in {detail, Undefined}, bid' \in {bid, NoBid}
  PROVE  PageBase'
<1>1. PICK m \in Loads :
         /\ \A k \in Loads : Asked(k) <=> k < m
         /\ load' \in [Loads -> LoadSet] /\ \A k \in Loads \ {m} : load'[k] = load[k]
         /\ load'[m].pc = "asked" /\ load'[m].auction = a /\ load'[m].announce = announce
         /\ load'[m].row = Undefined /\ load'[m].list = Undefined
  BY LoadIsAsked DEF PageBase
<1>2. \A n \in Loads : UnderWay(n)' => load'[n].auction \in Auctions
  BY <1>1 DEF PageBase, PageTyped, UnderWay
<1>3. bid' \in PanelSet
  BY DEF PageBase, PageTyped, NoBid, PanelSet
<1>4. a # Undefined
  BY PageAssumption
<1>5. PageTyped'
  BY <1>1, <1>2, <1>3, <1>4 DEF PageBase, PageTyped, ledgerVars
<1>6. InOrder'
  <2>1. \A k \in Loads : Asked(k)' <=> k <= m
    <3>1. \A k \in Loads \ {m} : Asked(k)' <=> Asked(k)
      BY <1>1 DEF Asked
    <3>2. Asked(m)'
      BY <1>1 DEF Asked
    <3> QED
      BY <1>1, <3>1, <3>2, LoadsAreNumbers
  <2>2. m \in 0..MaxLoads
    BY DEF Loads
  <2> QED
    BY <2>1, <2>2 DEF InOrder
<1> QED
  BY <1>5, <1>6 DEF PageBase

\* A step of a reload that was asked for.
LEMMA LoadMovedBase ==
  ASSUME PageBase, NEW n \in Loads, UnderWay(n),
         load' = [load EXCEPT ![n] = load'[n]], load'[n] \in LoadSet, load'[n].pc # "new",
         UnderWay(n)' => load'[n].auction = load[n].auction,
         detail' \in DetailSet \union {Undefined}, newest' \in {newest, n},
         UNCHANGED <<ledgerVars, owed, down, id, bid>>
  PROVE  PageBase'
<1>1. Asked(n)
  BY DEF UnderWay, Asked
<1>2. /\ load' \in [Loads -> LoadSet] /\ \A k \in Loads \ {n} : load'[k] = load[k]
      /\ InOrder'
  BY <1>1, LoadMovesOn DEF PageBase
<1>3. \A k \in Loads : UnderWay(k)' => load'[k].auction \in Auctions /\ id # Undefined
  BY <1>2 DEF PageBase, PageTyped, UnderWay
<1>4. newest' \in 0..MaxLoads
  BY DEF PageBase, PageTyped, Loads
<1>5. id # Undefined
  BY DEF PageBase, PageTyped
<1> QED
  BY <1>2, <1>3, <1>4, <1>5 DEF PageBase, PageTyped, ledgerVars

\* What the steps of a reload make of it.
LEMMA LoadSteps ==
  ASSUME PageBase, NEW n \in Loads,
         ReadRow(n) \/ ReadBids(n) \/ LoadAnswered(n) \/ LiveAnswered(n) \/ LoadFails(n)
  PROVE  /\ UnderWay(n) /\ load' = [load EXCEPT ![n] = load'[n]] /\ load'[n] \in LoadSet
         /\ load'[n].pc # "new" /\ \A k \in Loads \ {n} : load'[k] = load[k]
         /\ UnderWay(n)' => /\ load'[n].auction = load[n].auction
                            /\ load'[n].announce = load[n].announce
         /\ detail' \in DetailSet \union {Undefined} /\ newest' \in {newest, n}
         /\ UNCHANGED <<ledgerVars, owed, room, up, down, id, bid>>
<1>1. load \in [Loads -> LoadSet] /\ load[n] \in LoadSet
  BY DEF PageBase, PageTyped
<1>2. NoLoad \in LoadSet
  BY DEF NoLoad, LoadSet
<1> DEFINE done == [NoLoad EXCEPT !.pc = "done"]
<1>3. done \in LoadSet /\ done.pc = "done"
  BY <1>2 DEF LoadSet
<1> HIDE DEF done
<1>4. CASE ReadRow(n)
  <2>1. load[n].auction \in Auctions /\ load[n].pc = "asked"
    BY <1>4 DEF ReadRow, PageBase, PageTyped, UnderWay
  <2>2. RowOf(load[n].auction) \in RowSet
    BY <2>1, ReadsTyped DEF PageBase
  <2>3. load'[n] = [load[n] EXCEPT !.row = RowOf(load[n].auction)]
        /\ load' = [load EXCEPT ![n] = load'[n]]
    BY <1>1, <1>4 DEF ReadRow
  <2>4. load'[n] \in LoadSet /\ load'[n].pc = "asked" /\ load'[n].auction = load[n].auction
        /\ load'[n].announce = load[n].announce
    BY <1>1, <2>1, <2>2, <2>3 DEF LoadSet
  <2> QED
    BY <1>1, <1>4, <2>1, <2>3, <2>4 DEF ReadRow, UnderWay, PageBase, PageTyped, netVars
<1>5. CASE ReadBids(n)
  <2>1. load[n].auction \in Auctions /\ load[n].pc = "asked"
    BY <1>5 DEF ReadBids, PageBase, PageTyped, UnderWay
  <2>2. ledger[load[n].auction] \in Seq(BidSet)
    BY <2>1, ReadsTyped DEF PageBase
  <2>3. load'[n] = [load[n] EXCEPT !.list = ledger[load[n].auction]]
        /\ load' = [load EXCEPT ![n] = load'[n]]
    BY <1>1, <1>5 DEF ReadBids
  <2>4. load'[n] \in LoadSet /\ load'[n].pc = "asked" /\ load'[n].auction = load[n].auction
        /\ load'[n].announce = load[n].announce
    BY <1>1, <2>1, <2>2, <2>3 DEF LoadSet
  <2> QED
    BY <1>1, <1>5, <2>1, <2>3, <2>4 DEF ReadBids, UnderWay, PageBase, PageTyped, netVars
<1>6. CASE LoadAnswered(n)
  <2>1. /\ load[n].auction \in Auctions /\ load[n].pc = "asked"
        /\ load[n].row \in RowSet /\ load[n].list \in Seq(BidSet)
    BY <1>1, <1>6 DEF LoadAnswered, PageBase, PageTyped, UnderWay, LoadSet
  <2>2. detail' \in DetailSet
    BY <1>6, <2>1, DetailTyped DEF LoadAnswered
  <2>3. /\ load'[n] = (IF load[n].announce
                       THEN [load[n] EXCEPT !.pc = "live", !.row = Undefined, !.list = Undefined]
                       ELSE done)
        /\ load' = [load EXCEPT ![n] = load'[n]]
    BY <1>1, <1>6 DEF LoadAnswered, done
  <2>4. /\ load'[n] \in LoadSet /\ load'[n].pc \in {"live", "done"}
        /\ load'[n].pc = "live" => /\ load'[n].auction = load[n].auction
                                   /\ load'[n].announce = load[n].announce
    <3>1. CASE load[n].announce
      BY <1>1, <2>3, <3>1 DEF LoadSet
    <3>2. CASE ~load[n].announce
      BY <1>3, <2>3, <3>2
    <3> QED
      BY <3>1, <3>2
  <2> QED
    BY <1>1, <1>6, <2>1, <2>2, <2>3, <2>4 DEF LoadAnswered, UnderWay, netVars
<1>7. CASE LiveAnswered(n) \/ LoadFails(n)
  <2>1. load' = [load EXCEPT ![n] = done]
    BY <1>7 DEF LiveAnswered, LoadFails, done
  <2>2. load'[n] = done /\ load' = [load EXCEPT ![n] = load'[n]] /\ \A k \in Loads \ {n} : load'[k] = load[k]
    BY <1>1, <2>1
  <2>3. ~UnderWay(n)'
    BY <1>3, <2>2 DEF UnderWay
  <2>4. detail \in DetailSet \union {Undefined}
    BY DEF PageBase, PageTyped
  <2> QED
    BY <1>3, <1>7, <2>2, <2>3, <2>4 DEF LiveAnswered, LoadFails, UnderWay, netVars
<1> QED
  BY <1>4, <1>5, <1>6, <1>7

\* Every step of the auction page keeps the types and the order of the reloads.
LEMMA PageBaseStep ==
  ASSUME PageBase, PanelAsked, AuctionPageNext
  PROVE  PageBase'
<1>1. CASE ServerActs
  <2>1. PICK a \in Auctions : ServerMoves(a)
    BY <1>1, ServerActsMoves DEF PageBase
  <2>2. bid' \in PanelSet /\ UNCHANGED <<down, id, load, detail, newest, bid>>
    BY <1>1 DEF ServerActs, pageVars, PageBase, PageTyped
  <2> QED
    BY <2>1, <2>2, ServerBase
<1>2. CASE PanelServed
  <2>1. UNCHANGED <<room, up, down, id, load, detail, newest, excuse>> /\ bid.pc = "sent"
        /\ bid \in PanelSet /\ bid.auction \in Auctions
    BY <1>2 DEF PanelServed, PageBase, PageTyped, PanelAsked
  <2>2. CASE bid' = [bid EXCEPT !.pc = "placed"] /\ ServerMoves(bid.auction)
    <3>1. bid' \in PanelSet
      BY <2>1, <2>2 DEF PanelSet
    <3>2. PICK a \in Auctions : a = bid.auction
      BY <2>1
    <3> QED
      BY <2>1, <2>2, <3>1, <3>2, ServerBase
  <2>3. CASE bid' = [bid EXCEPT !.pc = "refused"] /\ UNCHANGED <<ledgerVars, owed>>
    <3>1. bid' \in PanelSet
      BY <2>1, <2>3 DEF PanelSet
    <3>2. PageTyped'
      BY <2>1, <2>3, <3>1 DEF PageBase, PageTyped, ledgerVars, UnderWay
    <3> QED
      BY <2>1, <3>2 DEF PageBase, InOrder, Asked
  <2> QED
    BY <1>2, <2>2, <2>3, PanelServedMoves DEF PageBase
<1>3. CASE \E e \in owed : Emit(e)
  <2>1. PICK e \in owed : Emit(e)
    BY <1>3
  <2>2. e \in EventSet /\ down \in Seq(EventSet)
    BY DEF PageBase, PageTyped
  <2>3. owed' \subseteq EventSet /\ down' \in Seq(EventSet)
    BY <2>1, <2>2, AppendProperties DEF Emit, PageBase, PageTyped
  <2>4. UNCHANGED <<ledgerVars, id, load, detail, newest, bid>>
    BY <2>1 DEF Emit
  <2>5. PageTyped'
    BY <2>3, <2>4 DEF PageBase, PageTyped, ledgerVars, UnderWay
  <2> QED
    BY <2>4, <2>5 DEF PageBase, InOrder, Asked
<1>4. CASE RoomHandler \/ Reconnect
  <2>1. down' \in {down, <<>>} /\ UNCHANGED <<ledgerVars, owed, id, load, detail, newest, bid>>
    BY <1>4 DEF RoomHandler, Reconnect, pageVars
  <2>2. down' \in Seq(EventSet)
    BY <2>1, EmptySeq DEF PageBase, PageTyped
  <2>3. PageTyped'
    BY <2>1, <2>2 DEF PageBase, PageTyped, ledgerVars, UnderWay
  <2> QED
    BY <2>1, <2>3 DEF PageBase, InOrder, Asked
<1>5. CASE SocketEvent
  <2>1. down # <<>> /\ down' = Tail(down) /\ down \in Seq(EventSet)
    BY <1>5 DEF SocketEvent, PageBase, PageTyped
  <2>2. down' \in Seq(EventSet) /\ Head(down) \in EventSet
    BY <2>1, HeadTailProperties
  <2>3. UNCHANGED <<ledgerVars, owed, room, up, id, detail, newest, bid, excuse>>
    BY <1>5 DEF SocketEvent
  <2>4. CASE Concerns(Head(down))
    <3>1. PICK a \in Auctions : a = id
      BY <2>2, <2>4 DEF Concerns, EventSet
    <3>2. PICK announce \in BOOLEAN : announce = (Head(down).type = "auctionClosed")
      OBVIOUS
    <3>3. LoadAuction(a, announce)
      BY <1>5, <2>4, <3>1, <3>2 DEF SocketEvent
    <3>4. id' = a
      BY <2>3, <3>1
    <3> QED
      BY <2>2, <2>3, <3>3, <3>4, LoadAskedBase
  <2>5. CASE ~Concerns(Head(down))
    <3>1. UNCHANGED load
      BY <1>5, <2>5 DEF SocketEvent
    <3>2. PageTyped'
      BY <2>2, <2>3, <3>1 DEF PageBase, PageTyped, ledgerVars, UnderWay
    <3> QED
      BY <3>1, <3>2 DEF PageBase, InOrder, Asked
  <2> QED
    BY <2>4, <2>5
<1>6. CASE AnswerStep \/ \E n \in Loads : LoadFails(n)
  <2>1. PICK n \in Loads : ReadRow(n) \/ ReadBids(n) \/ LoadAnswered(n) \/ LiveAnswered(n) \/ LoadFails(n)
    BY <1>6 DEF AnswerStep
  <2> QED
    BY <2>1, LoadSteps, LoadMovedBase
<1>7. CASE \E a \in Auctions : Navigate(a)
  <2>1. PICK a \in Auctions : Navigate(a)
    BY <1>7
  <2>2. /\ LoadAuction(a, FALSE) /\ id' = a /\ detail' = Undefined
        /\ UNCHANGED <<ledgerVars, owed, down, newest, bid>>
    BY <2>1 DEF Navigate
  <2> QED
    BY <2>2, LoadAskedBase DEF PageBase, PageTyped
<1>8. CASE Leave
  <2>1. /\ id' = Undefined /\ detail' = Undefined /\ newest' = 0 /\ bid' = NoBid
        /\ UNCHANGED <<ledgerVars, owed, room, down, excuse>>
    BY <1>8 DEF Leave
  <2>2. NoLoad \in LoadSet
    BY DEF NoLoad, LoadSet
  <2> DEFINE done == [NoLoad EXCEPT !.pc = "done"]
  <2>3. done \in LoadSet /\ done.pc = "done" /\ NoLoad.pc = "new"
    BY <2>2 DEF LoadSet, NoLoad
  <2>4. load' = [n \in Loads |-> IF Asked(n) THEN done ELSE NoLoad]
    BY <1>8 DEF Leave
  <2> HIDE DEF done
  <2>5. load' \in [Loads -> LoadSet] /\ (\A n \in Loads : ~UnderWay(n)')
        /\ \A n \in Loads : Asked(n)' <=> Asked(n)
    BY <2>2, <2>3, <2>4 DEF UnderWay, Asked
  <2>6. NoBid \in PanelSet /\ NoBid.pc = "idle"
    BY DEF NoBid, PanelSet
  <2>7. PageTyped'
    BY <2>1, <2>5, <2>6, LoadsAreNumbers DEF PageBase, PageTyped, ledgerVars
  <2>8. PICK last \in 0..MaxLoads : \A n \in Loads : Asked(n) <=> n <= last
    BY DEF PageBase, InOrder
  <2>9. InOrder'
    BY <2>5, <2>8 DEF InOrder, Asked
  <2> QED
    BY <2>7, <2>9 DEF PageBase
<1>9. CASE \E m \in Amounts \union {NoPrice} : PanelBids(m)
  <2>1. PICK m \in Amounts \union {NoPrice} : PanelBids(m)
    BY <1>9
  <2>2. /\ UNCHANGED <<ledgerVars, netVars, id, load, detail, newest, excuse>> /\ detail # Undefined
        /\ bid' = [pc |-> "sent", auction |-> detail.auction, amount |-> m, shown |-> detail]
    BY <2>1 DEF PanelBids, CanBid
  <2>3. detail \in DetailSet /\ detail.auction \in Auctions /\ id # Undefined
    BY <2>2 DEF PageBase, PageTyped, DetailSet
  <2>4. bid' \in PanelSet
    BY <2>2, <2>3 DEF PanelSet
  <2>5. PageTyped'
    BY <2>2, <2>3, <2>4 DEF PageBase, PageTyped, ledgerVars, netVars, UnderWay
  <2> QED
    BY <2>2, <2>5 DEF PageBase, InOrder, Asked
<1>10. CASE PanelAnswered
  <2>1. bid' = NoBid /\ UNCHANGED <<ledgerVars, netVars, id, detail, newest, excuse>>
    BY <1>10 DEF PanelAnswered
  <2>2. CASE LoadAuction(id, FALSE)
    <3>1. PICK a \in Auctions : a = id
      BY <1>10 DEF PanelAnswered, PageBase, PageTyped
    <3>2. LoadAuction(a, FALSE) /\ id' = a /\ down' \in Seq(EventSet)
      BY <2>1, <2>2, <3>1 DEF PageBase, PageTyped, netVars
    <3> QED
      BY <2>1, <3>2, LoadAskedBase DEF netVars
  <2>3. CASE UNCHANGED load
    <3>1. NoBid \in PanelSet /\ NoBid.pc = "idle"
      BY DEF NoBid, PanelSet
    <3>2. PageTyped'
      BY <2>1, <2>3, <3>1 DEF PageBase, PageTyped, ledgerVars, netVars, UnderWay
    <3> QED
      BY <2>3, <3>2 DEF PageBase, InOrder, Asked
  <2> QED
    BY <1>10, <2>2, <2>3 DEF PanelAnswered
<1> QED
  BY <1>1, <1>2, <1>3, <1>4, <1>5, <1>6, <1>7, <1>8, <1>9, <1>10 DEF AuctionPageNext, NetStep

-----------------------------------------------------------------------------
(* The page follows its auction                                             *)

\* A reload that was just asked for is the latest, and has read nothing yet.
LEMMA FollowsAnew ==
  ASSUME PageBase, NEW a \in Auctions, NEW announce \in BOOLEAN, LoadAuction(a, announce), id' = a
  PROVE  Follows'
<1>1. PICK m \in Loads :
         /\ \A k \in Loads : Asked(k) <=> k < m
         /\ load' \in [Loads -> LoadSet] /\ \A k \in Loads \ {m} : load'[k] = load[k]
         /\ load'[m].pc = "asked" /\ load'[m].auction = a
         /\ load'[m].row = Undefined /\ load'[m].list = Undefined
  BY LoadIsAsked DEF PageBase
<1>2. Latest(m)'
  <2>1. \A k \in Loads : k > m => k # m /\ ~(k < m)
    BY <1>1, LoadsAreNumbers
  <2>2. \A k \in Loads : k > m => load'[k].pc = "new"
    BY <1>1, <2>1 DEF Asked
  <2> QED
    BY <1>1, <2>2 DEF Latest, Asked
<1>3. Fresh(m)'
  BY <1>1 DEF Fresh
<1> QED
  BY <1>1, <1>2, <1>3 DEF Follows

\* A step that leaves the page, its reloads and its auction alone, and takes no
\* news of it away.
LEMMA FollowsKept ==
  ASSUME Follows, excuse = "none", UNCHANGED <<id, load, detail, newest>>,
         id # Undefined => \/ UNCHANGED <<RowOf(id), ledger[id], Current(id)>> /\ (Coming => Coming')
                           \/ Coming'
  PROVE  Follows'
<1> SUFFICES ASSUME id # Undefined PROVE Follows'
  BY DEF Follows
<1>1. PICK n \in Loads :
        /\ Latest(n)
        /\ load[n].pc = "asked" => load[n].auction = id
        /\ load[n].pc # "asked" => newest = n
        /\ Coming \/ IF load[n].pc = "asked" THEN Fresh(n) ELSE detail = Current(id)
  BY DEF Follows
<1>2. Latest(n)'
  BY <1>1 DEF Latest, Asked
<1>3. Coming' \/ IF load'[n].pc = "asked" THEN Fresh(n)' ELSE detail' = Current(id)'
  <2>1. CASE Coming'
    BY <2>1
  <2>2. CASE ~Coming'
    <3>1. /\ UNCHANGED <<RowOf(id), ledger[id], Current(id)>>
          /\ IF load[n].pc = "asked" THEN Fresh(n) ELSE detail = Current(id)
      BY <1>1, <2>2
    <3>2. Fresh(n) => Fresh(n)'
      BY <3>1 DEF Fresh
    <3> QED
      BY <3>1, <3>2
  <2> QED
    BY <2>1, <2>2
<1> QED
  BY <1>1, <1>2, <1>3 DEF Follows

\* A change of an auction is to come for it, and changes no other.
LEMMA FollowsServer ==
  ASSUME PageBase, Follows, excuse = "none", owed = {}, NEW a \in Auctions, ServerMoves(a),
         UNCHANGED <<down, id, load, detail, newest>>
  PROVE  Follows'
<1>1. CASE a = id
  <2>1. Coming'
    BY <1>1 DEF ServerMoves, Coming
  <2> QED
    BY <2>1, FollowsKept
<1>2. CASE a # id
  <2> SUFFICES ASSUME id # Undefined
               PROVE  UNCHANGED <<RowOf(id), ledger[id], Current(id)>> /\ (Coming => Coming')
    BY FollowsKept
  <2>1. id \in Auctions \ {a}
    BY <1>2 DEF PageBase, PageTyped
  <2>2. phase'[id] = phase[id] /\ ledger'[id] = ledger[id] /\ id' = id
    BY <2>1 DEF ServerMoves
  <2>3. UNCHANGED <<RowOf(id), ledger[id], Current(id)>>
    BY <2>2 DEF RowOf, Current, ToDetail, TopBidder
  <2>4. Coming => Coming'
    BY DEF Coming
  <2> QED
    BY <2>3, <2>4
<1> QED
  BY <1>1, <1>2

\* The answer of the latest reload brings the page up to date; that of an
\* earlier one comes before it, or is known to have been overtaken.
LEMMA FollowsLoads ==
  ASSUME PageBase, Follows, excuse = "none", NEW k \in Loads,
         ReadRow(k) \/ ReadBids(k) \/ LoadAnswered(k) \/ LiveAnswered(k) \/ LoadFails(k)
  PROVE  Follows'
<1>1. /\ UnderWay(k) /\ load' = [load EXCEPT ![k] = load'[k]] /\ load'[k] \in LoadSet
      /\ load'[k].pc # "new" /\ \A i \in Loads \ {k} : load'[i] = load[i]
      /\ UnderWay(k)' => load'[k].auction = load[k].auction
      /\ UNCHANGED <<ledgerVars, owed, room, up, down, id, bid>>
  BY LoadSteps
<1>2. id \in Auctions /\ load[k].auction \in Auctions
  BY <1>1 DEF PageBase, PageTyped
<1> SUFFICES ASSUME excuse' = "none" PROVE Follows'
  BY DEF Follows
<1>3. PICK n \in Loads :
        /\ Latest(n)
        /\ load[n].pc = "asked" => load[n].auction = id
        /\ load[n].pc # "asked" => newest = n
        /\ Coming \/ IF load[n].pc = "asked" THEN Fresh(n) ELSE detail = Current(id)
  BY <1>2, PageAssumption DEF Follows
<1>4. Asked(k)
  BY <1>1 DEF UnderWay, Asked
<1>5. Latest(n)'
  <2>1. Asked(n)'
    BY <1>1, <1>3 DEF Latest, Asked
  <2>2. \A i \in Loads : i > n => i # k
    BY <1>3, <1>4 DEF Latest
  <2>3. \A i \in Loads : i > n => ~Asked(i)'
    BY <1>1, <1>3, <2>2 DEF Latest, Asked
  <2> QED
    BY <2>1, <2>3 DEF Latest
<1>6. UNCHANGED <<RowOf(id), ledger[id], Current(id)>> /\ (Coming => Coming') /\ id' = id
  BY <1>1 DEF RowOf, Current, ToDetail, TopBidder, Coming, ledgerVars
<1> SUFFICES /\ load'[n].pc = "asked" => load'[n].auction = id
             /\ load'[n].pc # "asked" => newest' = n
             /\ Coming \/ IF load'[n].pc = "asked" THEN Fresh(n)' ELSE detail' = Current(id)
  BY <1>5, <1>6 DEF Follows
<1>7. CASE ReadRow(k) \/ ReadBids(k)
  <2>1. /\ load[k].pc = "asked" /\ UNCHANGED <<detail, newest>> /\ load[k] \in LoadSet
        /\ \/ load' = [load EXCEPT ![k].row = RowOf(load[k].auction)]
           \/ load' = [load EXCEPT ![k].list = ledger[load[k].auction]]
    BY <1>7 DEF ReadRow, ReadBids, PageBase, PageTyped
  <2>2. CASE n # k
    BY <1>1, <1>3, <1>6, <2>1, <2>2 DEF Fresh
  <2>3. CASE n = k
    <3>1. \/ load'[k] = [load[k] EXCEPT !.row = RowOf(id)]
          \/ load'[k] = [load[k] EXCEPT !.list = ledger[id]]
      BY <1>3, <2>1, <2>3 DEF PageBase, PageTyped
    <3>2. /\ load'[k].pc = "asked" /\ load'[k].auction = id
          /\ load'[k].row \in {load[k].row, RowOf(id)} /\ load'[k].list \in {load[k].list, ledger[id]}
      BY <1>3, <2>1, <2>3, <3>1 DEF LoadSet
    <3>3. Fresh(n) => Fresh(n)'
      BY <1>6, <2>3, <3>2 DEF Fresh
    <3> QED
      BY <1>3, <2>1, <2>3, <3>2, <3>3
  <2> QED
    BY <2>2, <2>3
<1>8. CASE LoadAnswered(k)
  <2>1. /\ load[k].pc = "asked" /\ load[k].row # Undefined /\ load[k].list # Undefined
        /\ newest' = k /\ detail' = ToDetail(load[k].auction, load[k].row, load[k].list)
        /\ ~(k < newest) /\ load'[k].pc # "asked"
    <3>1. excuse' # "none" \/ ~(k < newest)
      BY <1>8 DEF LoadAnswered, First
    <3>2. load'[k] = IF load[k].announce
                     THEN [load[k] EXCEPT !.pc = "live", !.row = Undefined, !.list = Undefined]
                     ELSE [NoLoad EXCEPT !.pc = "done"]
      BY <1>8 DEF LoadAnswered, PageBase, PageTyped
    <3>3. load[k] \in LoadSet /\ NoLoad \in LoadSet
      BY DEF PageBase, PageTyped, NoLoad, LoadSet
    <3>4. load'[k].pc \in {"live", "done"}
      BY <3>2, <3>3 DEF LoadSet
    <3> QED
      BY <1>8, <3>1, <3>4 DEF LoadAnswered
  <2>2. CASE n = k
    <3>1. Coming \/ detail' = Current(id)
      BY <1>3, <2>1, <2>2 DEF Fresh, Current
    <3> QED
      BY <2>1, <2>2, <3>1
  <2>3. CASE n # k
    <3>1. k < n
      BY <1>3, <1>4, <2>3, LoadsAreNumbers DEF Latest
    <3>2. load[n].pc = "asked"
      BY <1>3, <2>1, <3>1
    <3>3. load'[n] = load[n]
      BY <1>1, <2>3
    <3>4. Fresh(n) => Fresh(n)'
      BY <1>6, <3>3 DEF Fresh
    <3> QED
      BY <1>3, <3>2, <3>3, <3>4
  <2> QED
    BY <2>2, <2>3
<1>9. CASE LiveAnswered(k)
  <2>1. load[k].pc = "live" /\ UNCHANGED <<detail, newest>> /\ load'[k] = [NoLoad EXCEPT !.pc = "done"]
    BY <1>9 DEF LiveAnswered, PageBase, PageTyped
  <2>2. load'[k].pc = "done"
    BY <2>1 DEF NoLoad
  <2>3. CASE n = k
    BY <1>3, <2>1, <2>2, <2>3
  <2>4. CASE n # k
    BY <1>1, <1>3, <1>6, <2>1, <2>4 DEF Fresh
  <2> QED
    BY <2>3, <2>4
<1>10. CASE LoadFails(k)
  BY <1>10 DEF LoadFails, First
<1> QED
  BY <1>7, <1>8, <1>9, <1>10

\* Every step of the auction page keeps what must be on its way when the page is behind.
LEMMA FollowsStep ==
  ASSUME PageBase, Follows, PanelAsked, AuctionPageNext
  PROVE  Follows'
<1>0. excuse = "none"
  BY DEF AuctionPageNext
<1>1. CASE ServerActs
  <2>1. PICK a \in Auctions : ServerMoves(a)
    BY <1>1, ServerActsMoves DEF PageBase
  <2>2. owed = {} /\ UNCHANGED <<down, id, load, detail, newest>>
    BY <1>1 DEF ServerActs, pageVars
  <2> QED
    BY <1>0, <2>1, <2>2, FollowsServer
<1>2. CASE PanelServed
  <2>1. owed = {} /\ UNCHANGED <<down, id, load, detail, newest>> /\ bid.auction \in Auctions
    BY <1>2 DEF PanelServed, PanelAsked
  <2>2. CASE ServerMoves(bid.auction)
    <3>1. PICK a \in Auctions : a = bid.auction
      BY <2>1
    <3> QED
      BY <1>0, <2>1, <2>2, <3>1, FollowsServer
  <2>3. CASE UNCHANGED <<ledgerVars, owed>>
    <3>1. UNCHANGED <<RowOf(id), ledger[id], Current(id)>> /\ (Coming => Coming')
      BY <2>1, <2>3 DEF ledgerVars, RowOf, Current, ToDetail, TopBidder, Coming
    <3> QED
      BY <1>0, <2>1, <3>1, FollowsKept
  <2> QED
    BY <1>2, <2>2, <2>3, PanelServedMoves DEF PageBase
<1>3. ASSUME NEW e \in owed, Emit(e) PROVE Follows'
  <2>1. /\ UNCHANGED <<ledgerVars, id, load, detail, newest>> /\ owed' = owed \ {e}
        /\ down' = (IF e.auction \in room THEN Append(down, e) ELSE down)
        /\ e \in EventSet /\ down \in Seq(EventSet)
    BY <1>3 DEF Emit, PageBase, PageTyped
  <2>2. Append(down, e) \in Seq(EventSet) /\ Len(Append(down, e)) = Len(down) + 1
        /\ (\A i \in 1..Len(down) : Append(down, e)[i] = down[i]) /\ Append(down, e)[Len(down) + 1] = e
    BY <2>1, AppendProperties
  <2>3. Len(down) \in Nat /\ DOMAIN down = 1..Len(down) /\ DOMAIN Append(down, e) = 1..Len(Append(down, e))
    BY <2>1, <2>2, LenProperties
  <2>4. UNCHANGED <<RowOf(id), ledger[id], Current(id)>>
    BY <2>1 DEF ledgerVars, RowOf, Current, ToDetail, TopBidder
  <2>5. \A i \in DOMAIN down : i \in DOMAIN down' /\ down'[i] = down[i]
    BY <2>1, <2>2, <2>3
  <2>6. CASE e.auction # id
    <3>1. Coming => Coming'
      BY <2>1, <2>5, <2>6 DEF Coming
    <3> QED
      BY <1>0, <2>1, <2>4, <3>1, FollowsKept
  <2>7. CASE e.auction = id /\ e.auction \in room
    <3>1. Len(down) + 1 \in DOMAIN down' /\ down'[Len(down) + 1] = e
      BY <2>1, <2>2, <2>3, <2>7
    <3>2. Coming'
      BY <2>1, <2>7, <3>1 DEF Coming
    <3> QED
      BY <1>0, <2>1, <3>2, FollowsKept
  <2>8. CASE e.auction = id /\ e.auction \notin room
    <3>1. excuse' = "notInRoom"
      BY <1>0, <1>3, <2>8 DEF Emit, First
    <3> QED
      BY <3>1 DEF Follows
  <2> QED
    BY <2>6, <2>7, <2>8
<1>4. CASE RoomHandler
  <2>1. UNCHANGED <<ledgerVars, owed, down, id, load, detail, newest>>
    BY <1>4 DEF RoomHandler, pageVars
  <2>2. UNCHANGED <<RowOf(id), ledger[id], Current(id)>> /\ (Coming => Coming')
    BY <2>1 DEF ledgerVars, RowOf, Current, ToDetail, TopBidder, Coming
  <2> QED
    BY <1>0, <2>1, <2>2, FollowsKept
<1>5. CASE Reconnect
  <2>1. excuse' = "reconnected"
    BY <1>0, <1>5 DEF Reconnect, First
  <2> QED
    BY <2>1 DEF Follows
<1>6. CASE SocketEvent
  <2>1. /\ down # <<>> /\ down' = Tail(down) /\ down \in Seq(EventSet)
        /\ UNCHANGED <<ledgerVars, owed, id, detail, newest>>
    BY <1>6 DEF SocketEvent, PageBase, PageTyped
  <2>2. /\ Head(down) \in EventSet /\ Tail(down) \in Seq(EventSet) /\ Len(Tail(down)) = Len(down) - 1
        /\ \A i \in 1..Len(Tail(down)) : Tail(down)[i] = down[i + 1]
    BY <2>1, HeadTailProperties
  <2>3. CASE Concerns(Head(down))
    <3>1. PICK a \in Auctions : a = id
      BY <2>2, <2>3 DEF Concerns, EventSet
    <3>2. PICK announce \in BOOLEAN : announce = (Head(down).type = "auctionClosed")
      OBVIOUS
    <3>3. LoadAuction(a, announce) /\ id' = a
      BY <1>6, <2>1, <2>3, <3>1, <3>2 DEF SocketEvent
    <3> QED
      BY <3>3, FollowsAnew
  <2>4. CASE ~Concerns(Head(down))
    <3>1. UNCHANGED load /\ Head(down).auction # id
      BY <1>6, <2>4 DEF SocketEvent, Concerns
    <3>2. UNCHANGED <<RowOf(id), ledger[id], Current(id)>>
      BY <2>1 DEF ledgerVars, RowOf, Current, ToDetail, TopBidder
    <3>3. ASSUME NEW i \in DOMAIN down, down[i].auction = id
          PROVE  \E j \in DOMAIN down' : down'[j].auction = id
      <4>1. Len(down) \in Nat /\ DOMAIN down = 1..Len(down) /\ DOMAIN down' = 1..Len(Tail(down))
        BY <2>1, <2>2, LenProperties
      <4>2. i # 1
        BY <3>1, <3>3
      <4>3. i - 1 \in 1..Len(Tail(down)) /\ (i - 1) + 1 = i
        BY <2>2, <3>3, <4>1, <4>2
      <4>4. down'[i - 1] = down[i]
        BY <2>1, <2>2, <4>3
      <4> QED
        BY <3>3, <4>1, <4>3, <4>4
    <3>4. Coming => Coming'
      BY <2>1, <3>3 DEF Coming
    <3> QED
      BY <1>0, <2>1, <3>1, <3>2, <3>4, FollowsKept
  <2> QED
    BY <2>3, <2>4
<1>7. CASE AnswerStep \/ \E n \in Loads : LoadFails(n)
  <2>1. PICK n \in Loads : ReadRow(n) \/ ReadBids(n) \/ LoadAnswered(n) \/ LiveAnswered(n) \/ LoadFails(n)
    BY <1>7 DEF AnswerStep
  <2> QED
    BY <1>0, <2>1, FollowsLoads
<1>8. CASE \E a \in Auctions : Navigate(a)
  <2>1. PICK a \in Auctions : Navigate(a)
    BY <1>8
  <2> QED
    BY <2>1, FollowsAnew DEF Navigate
<1>9. CASE Leave
  BY <1>9 DEF Leave, Follows
<1>10. CASE \E m \in Amounts \union {NoPrice} : PanelBids(m)
  <2>1. UNCHANGED <<ledgerVars, owed, down, id, load, detail, newest>>
    BY <1>10 DEF PanelBids, netVars
  <2>2. UNCHANGED <<RowOf(id), ledger[id], Current(id)>> /\ (Coming => Coming')
    BY <2>1 DEF ledgerVars, RowOf, Current, ToDetail, TopBidder, Coming
  <2> QED
    BY <1>0, <2>1, <2>2, FollowsKept
<1>11. CASE PanelAnswered
  <2>1. UNCHANGED <<ledgerVars, owed, down, id, detail, newest>>
    BY <1>11 DEF PanelAnswered, netVars
  <2>2. CASE LoadAuction(id, FALSE)
    <3>1. PICK a \in Auctions : a = id
      BY <1>11 DEF PanelAnswered, PageBase, PageTyped
    <3> QED
      BY <2>1, <2>2, <3>1, FollowsAnew
  <2>3. CASE UNCHANGED load
    <3>1. UNCHANGED <<RowOf(id), ledger[id], Current(id)>> /\ (Coming => Coming')
      BY <2>1 DEF ledgerVars, RowOf, Current, ToDetail, TopBidder, Coming
    <3> QED
      BY <1>0, <2>1, <2>3, <3>1, FollowsKept
  <2> QED
    BY <1>11, <2>2, <2>3 DEF PanelAnswered
<1> QED
  BY <1>1, <1>2, <1>3, <1>4, <1>5, <1>6, <1>7, <1>8, <1>9, <1>10, <1>11 DEF AuctionPageNext, NetStep

-----------------------------------------------------------------------------
(* The winner is announced right                                            *)

\* A closed auction is not touched.
LEMMA WinnerServer ==
  ASSUME PageBase, WinnerInv, excuse = "none", NEW a \in Auctions, ServerMoves(a),
         UNCHANGED <<down, load, detail, newest, excuse>>
  PROVE  WinnerInv'
<1>1. \A e \in owed' : Ended(e)'
  BY DEF ServerMoves, Ended
<1>2. ASSUME NEW c \in Auctions, phase[c] = "closed"
      PROVE  c # a /\ phase'[c] = "closed" /\ ledger'[c] = ledger[c]
  <2>1. c # a
    BY <1>2 DEF ServerMoves
  <2> QED
    BY <1>2, <2>1 DEF ServerMoves
<1>3. ASSUME NEW i \in DOMAIN down' PROVE Ended(down[i])'
  <2>1. down[i] \in EventSet /\ Ended(down[i])
    BY <1>3, ElementOfSeq, LenProperties DEF PageBase, PageTyped, WinnerInv
  <2> QED
    BY <1>2, <2>1 DEF Ended, EventSet
<1>4. ASSUME NEW n \in Loads PROVE Announcing(n)' /\ WinnerShown(n)'
  <2>1. CASE UnderWay(n) /\ load[n].announce
    <3>1. load[n].auction \in Auctions /\ phase[load[n].auction] = "closed"
      BY <2>1 DEF WinnerInv, Announcing, PageBase, PageTyped
    <3>2. phase'[load[n].auction] = "closed" /\ ledger'[load[n].auction] = ledger[load[n].auction]
      BY <1>2, <3>1
    <3>3. Announcing(n)'
      BY <2>1, <3>2 DEF WinnerInv, Announcing, UnderWay
    <3>4. WinnerShown(n)'
      BY <3>2 DEF WinnerInv, WinnerShown, Announces
    <3> QED
      BY <3>3, <3>4
  <2>2. CASE ~(UnderWay(n) /\ load[n].announce)
    BY <2>2 DEF Announcing, WinnerShown, Announces, UnderWay
  <2> QED
    BY <2>1, <2>2
<1> QED
  BY <1>1, <1>3, <1>4 DEF WinnerInv

\* A step that leaves the auctions, the reloads and the page alone.
LEMMA WinnerKept ==
  ASSUME PageBase, WinnerInv, UNCHANGED <<phase, ledger, load, newest>>,
         detail' \in {detail, Undefined}, excuse' = "none" => excuse = "none",
         \A e \in owed' : Ended(e), \A i \in DOMAIN down' : Ended(down'[i])
  PROVE  WinnerInv'
<1>1. \A e \in owed' : Ended(e)'
  BY DEF Ended
<1>2. \A i \in DOMAIN down' : Ended(down[i])'
  BY DEF Ended
<1>3. ASSUME NEW n \in Loads PROVE Announcing(n)' /\ WinnerShown(n)'
  <2>1. Announcing(n)'
    BY DEF WinnerInv, Announcing, UnderWay
  <2>2. WinnerShown(n)'
    BY DEF WinnerInv, WinnerShown, Announces
  <2> QED
    BY <2>1, <2>2
<1> QED
  BY <1>1, <1>2, <1>3 DEF WinnerInv

\* A reload asked for an announcement finds the auction closed.
LEMMA WinnerAnew ==
  ASSUME PageBase, WinnerInv, NEW a \in Auctions, NEW announce \in BOOLEAN,
         LoadAuction(a, announce), announce => phase[a] = "closed",
         UNCHANGED <<phase, ledger, newest, owed, excuse>>, detail' \in {detail, Undefined},
         \A i \in DOMAIN down' : Ended(down'[i])
  PROVE  WinnerInv'
<1>1. PICK m \in Loads :
         /\ \A k \in Loads : Asked(k) <=> k < m
         /\ load' \in [Loads -> LoadSet] /\ \A k \in Loads \ {m} : load'[k] = load[k]
         /\ load'[m].pc = "asked" /\ load'[m].auction = a /\ load'[m].announce = announce
         /\ load'[m].row = Undefined /\ load'[m].list = Undefined
  BY LoadIsAsked DEF PageBase
<1>2. \A e \in owed' : Ended(e)'
  BY DEF WinnerInv, Ended
<1>3. \A i \in DOMAIN down' : Ended(down[i])'
  BY DEF Ended
<1>4. Announcing(m)' /\ WinnerShown(m)'
  <2>1. \A k \in Loads : k >= m /\ load'[k].pc = "asked" => k = m
    <3>1. \A k \in Loads \ {m} : k >= m => ~(k < m)
      BY <1>1, LoadsAreNumbers
    <3>2. \A k \in Loads \ {m} : k >= m => load'[k].pc = "new"
      BY <1>1, <3>1 DEF Asked
    <3> QED
      BY <3>2
  <2>2. Announcing(m)'
    BY <1>1, <2>1 DEF Announcing
  <2>3. WinnerShown(m)'
    BY <1>1 DEF WinnerShown, Announces
  <2> QED
    BY <2>2, <2>3
<1>5. ASSUME NEW n \in Loads \ {m} PROVE Announcing(n)' /\ WinnerShown(n)'
  <2>1. load'[n] = load[n] /\ Announcing(n) /\ WinnerShown(n)
    BY <1>1 DEF WinnerInv
  <2>2. ASSUME NEW k \in Loads, k >= n, load'[k].pc = "asked", load'[k].auction = load[n].auction,
               UnderWay(n), load[n].announce
        PROVE  load'[k].list \in {Undefined, ledger[load[n].auction]}
    <3>1. CASE k = m
      BY <1>1, <3>1
    <3>2. CASE k # m
      BY <1>1, <2>1, <2>2, <3>2 DEF Announcing
    <3> QED
      BY <3>1, <3>2
  <2>3. Announcing(n)'
    BY <2>1, <2>2 DEF Announcing, UnderWay
  <2>4. WinnerShown(n)'
    BY <2>1 DEF WinnerShown, Announces
  <2> QED
    BY <2>3, <2>4
<1>6. ASSUME excuse = "none", NEW n \in Loads, load'[n].pc = "live" PROVE n <= newest
  BY <1>1, <1>6 DEF WinnerInv
<1> QED
  BY <1>2, <1>3, <1>4, <1>5, <1>6 DEF WinnerInv

\* What an answer shows is what the last reload for an announcement has read,
\* or a later one, for nothing was overtaken.
LEMMA WinnerLoads ==
  ASSUME PageBase, WinnerInv, excuse = "none", NEW k \in Loads,
         ReadRow(k) \/ ReadBids(k) \/ LoadAnswered(k) \/ LiveAnswered(k) \/ LoadFails(k)
  PROVE  WinnerInv'
<1>1. /\ UnderWay(k) /\ load' = [load EXCEPT ![k] = load'[k]] /\ load'[k] \in LoadSet
      /\ load'[k].pc # "new" /\ \A i \in Loads \ {k} : load'[i] = load[i]
      /\ UnderWay(k)' => /\ load'[k].auction = load[k].auction
                         /\ load'[k].announce = load[k].announce
      /\ UNCHANGED <<ledgerVars, owed, room, up, down, id, bid>>
  BY LoadSteps
<1>2. UNCHANGED <<phase, ledger, owed, down>>
  BY <1>1 DEF ledgerVars
<1>3. (\A e \in owed' : Ended(e)') /\ \A i \in DOMAIN down' : Ended(down[i])'
  BY <1>2 DEF WinnerInv, Ended
<1>4. load'[k].pc = "asked" =>
        load[k].pc = "asked" /\ load'[k].list \in {load[k].list, ledger[load[k].auction]}
  <2>1. CASE ReadRow(k) \/ ReadBids(k)
    <3>1. load[k].pc = "asked" /\ load[k] \in LoadSet
      BY <2>1 DEF ReadRow, ReadBids, PageBase, PageTyped
    <3>2. load'[k] \in {[load[k] EXCEPT !.row = RowOf(load[k].auction)],
                        [load[k] EXCEPT !.list = ledger[load[k].auction]]}
      BY <2>1 DEF ReadRow, ReadBids, PageBase, PageTyped
    <3> QED
      BY <3>1, <3>2 DEF LoadSet
  <2>2. CASE LoadAnswered(k)
    <3>1. load'[k] = IF load[k].announce
                     THEN [load[k] EXCEPT !.pc = "live", !.row = Undefined, !.list = Undefined]
                     ELSE [NoLoad EXCEPT !.pc = "done"]
      BY <2>2 DEF LoadAnswered, PageBase, PageTyped
    <3>2. load[k] \in LoadSet /\ NoLoad \in LoadSet
      BY DEF PageBase, PageTyped, NoLoad, LoadSet
    <3> QED
      BY <3>1, <3>2 DEF LoadSet
  <2>3. CASE LiveAnswered(k) \/ LoadFails(k)
    <3>1. load'[k] = [NoLoad EXCEPT !.pc = "done"]
      BY <2>3 DEF LiveAnswered, LoadFails, PageBase, PageTyped
    <3>2. NoLoad \in LoadSet
      BY DEF NoLoad, LoadSet
    <3> QED
      BY <3>1, <3>2 DEF LoadSet
  <2> QED
    BY <2>1, <2>2, <2>3
<1>5. ASSUME NEW n \in Loads PROVE Announcing(n)'
  <2> SUFFICES ASSUME UnderWay(n)', load'[n].announce PROVE Announcing(n)'
    BY DEF Announcing
  <2>1. UnderWay(n) /\ load[n].announce /\ load'[n].auction = load[n].auction
    BY <1>1 DEF UnderWay
  <2>2. /\ phase[load[n].auction] = "closed"
        /\ \A i \in Loads : i >= n /\ load[i].pc = "asked" /\ load[i].auction = load[n].auction
             => load[i].list \in {Undefined, ledger[load[n].auction]}
    BY <2>1 DEF WinnerInv, Announcing
  <2>3. ASSUME NEW i \in Loads, i >= n, load'[i].pc = "asked", load'[i].auction = load[n].auction
        PROVE  load'[i].list \in {Undefined, ledger[load[n].auction]}
    <3>1. CASE i # k
      BY <1>1, <2>2, <2>3, <3>1
    <3>2. CASE i = k
      <4>1. UnderWay(k)'
        BY <2>3, <3>2 DEF UnderWay
      <4> QED
        BY <1>1, <1>4, <2>2, <2>3, <3>2, <4>1
    <3> QED
      BY <3>1, <3>2
  <2> QED
    BY <1>2, <2>1, <2>2, <2>3 DEF Announcing
<1>6. ASSUME excuse' = "none"
      PROVE  (\A n \in Loads : WinnerShown(n)') /\ \A n \in Loads : load'[n].pc = "live" => n <= newest'
  <2>1. CASE ReadRow(k) \/ ReadBids(k) \/ LiveAnswered(k)
    <3>1. UNCHANGED <<detail, newest>>
      BY <2>1 DEF ReadRow, ReadBids, LiveAnswered
    <3>2. load'[k].pc # "live"
      <4>1. CASE ReadRow(k) \/ ReadBids(k)
        <5>1. load[k].pc = "asked" /\ load[k] \in LoadSet
          BY <4>1 DEF ReadRow, ReadBids, PageBase, PageTyped
        <5>2. load'[k] \in {[load[k] EXCEPT !.row = RowOf(load[k].auction)],
                            [load[k] EXCEPT !.list = ledger[load[k].auction]]}
          BY <4>1 DEF ReadRow, ReadBids, PageBase, PageTyped
        <5> QED
          BY <5>1, <5>2 DEF LoadSet
      <4>2. CASE LiveAnswered(k)
        <5>1. load'[k] = [NoLoad EXCEPT !.pc = "done"]
          BY <4>2 DEF LiveAnswered, PageBase, PageTyped
        <5>2. NoLoad \in LoadSet
          BY DEF NoLoad, LoadSet
        <5> QED
          BY <5>1, <5>2 DEF LoadSet
      <4> QED
        BY <2>1, <4>1, <4>2
    <3>3. ASSUME NEW n \in Loads PROVE WinnerShown(n)' /\ (load'[n].pc = "live" => n <= newest')
      <4>1. CASE n = k
        BY <3>2, <4>1 DEF WinnerShown, Announces
      <4>2. CASE n # k
        BY <1>1, <1>2, <3>1, <4>2 DEF WinnerInv, WinnerShown, Announces
      <4> QED
        BY <4>1, <4>2
    <3> QED
      BY <3>3
  <2>2. CASE LoadAnswered(k)
    <3>1. /\ load[k].pc = "asked" /\ load[k].row # Undefined /\ load[k].list # Undefined
          /\ newest' = k /\ detail' = ToDetail(load[k].auction, load[k].row, load[k].list)
      BY <2>2 DEF LoadAnswered
    <3>2. ~(k < newest)
      BY <1>6, <2>2 DEF LoadAnswered, First
    <3>3. newest \in Nat /\ k \in Nat
      BY LoadsAreNumbers DEF PageBase, PageTyped
    <3>4. \A n \in Loads : load'[n].pc = "live" => n <= k
      <4>1. \A n \in Loads \ {k} : load'[n].pc = "live" => n <= newest
        BY <1>1 DEF WinnerInv
      <4> QED
        BY <3>2, <3>3, <4>1, LoadsAreNumbers
    <3>5. /\ load[k].auction \in Auctions /\ load[k].row \in RowSet /\ load[k].list \in Seq(BidSet)
      BY <1>1, <3>1 DEF PageBase, PageTyped, LoadSet
    <3>6. /\ detail'.auction = load[k].auction
          /\ load[k].list # <<>> => detail'.bidder = Last(load[k].list).bidder
      BY <3>1, <3>5, DetailTyped
    <3>7. ASSUME NEW n \in Loads PROVE WinnerShown(n)'
      <4> SUFFICES ASSUME load'[n].pc = "live", load'[n].announce, detail'.auction = load'[n].auction,
                          ledger[load'[n].auction] # <<>>
                   PROVE  detail'.bidder = Last(ledger[load'[n].auction]).bidder
        BY <1>2 DEF WinnerShown, Announces
      <4>1. UnderWay(n)'
        BY DEF UnderWay
      <4>2. load'[n].auction = load[n].auction /\ load[n].announce /\ UnderWay(n)
        <5>1. CASE n = k
          BY <1>1, <4>1, <5>1
        <5>2. CASE n # k
          BY <1>1, <4>1, <5>2 DEF UnderWay
        <5> QED
          BY <5>1, <5>2
      <4>3. load[k].auction = load[n].auction /\ k >= n
        BY <3>3, <3>4, <3>6, <4>2, LoadsAreNumbers
      <4>4. load[k].list = ledger[load[n].auction]
        BY <3>1, <4>2, <4>3 DEF WinnerInv, Announcing
      <4> QED
        BY <3>6, <4>2, <4>4
    <3> QED
      BY <3>1, <3>4, <3>7
  <2>3. CASE LoadFails(k)
    BY <1>6, <2>3 DEF LoadFails, First
  <2> QED
    BY <2>1, <2>2, <2>3
<1>7. \A n \in Loads : WinnerShown(n)'
  BY <1>6 DEF WinnerShown
<1> QED
  BY <1>3, <1>5, <1>6, <1>7 DEF WinnerInv

\* Every step of the auction page keeps what a reload that may announce a winner has read.
LEMMA WinnerStep ==
  ASSUME PageBase, WinnerInv, PanelAsked, AuctionPageNext
  PROVE  WinnerInv'
<1>0. excuse = "none"
  BY DEF AuctionPageNext
<1>1. CASE ServerActs
  <2>1. PICK a \in Auctions : ServerMoves(a)
    BY <1>1, ServerActsMoves DEF PageBase
  <2>2. UNCHANGED <<down, load, detail, newest, excuse>>
    BY <1>1 DEF ServerActs, pageVars
  <2> QED
    BY <1>0, <2>1, <2>2, WinnerServer
<1>2. CASE PanelServed
  <2>1. UNCHANGED <<down, load, detail, newest, excuse>> /\ bid.auction \in Auctions
    BY <1>2 DEF PanelServed, PanelAsked
  <2>2. CASE ServerMoves(bid.auction)
    <3>1. PICK a \in Auctions : a = bid.auction
      BY <2>1
    <3> QED
      BY <1>0, <2>1, <2>2, <3>1, WinnerServer
  <2>3. CASE UNCHANGED <<ledgerVars, owed>>
    BY <2>1, <2>3, WinnerKept DEF ledgerVars, WinnerInv
  <2> QED
    BY <1>2, <2>2, <2>3, PanelServedMoves DEF PageBase
<1>3. ASSUME NEW e \in owed, Emit(e) PROVE WinnerInv'
  <2>1. /\ UNCHANGED <<phase, ledger, load, detail, newest>> /\ owed' \subseteq owed
        /\ down' \in {down, Append(down, e)} /\ e \in EventSet /\ down \in Seq(EventSet)
    BY <1>3 DEF Emit, PageBase, PageTyped, ledgerVars
  <2>2. ASSUME NEW i \in DOMAIN down' PROVE Ended(down'[i])
    <3>1. CASE down' = down
      BY <2>2, <3>1 DEF WinnerInv
    <3>2. CASE down' = Append(down, e)
      <4>1. /\ Len(down) \in Nat /\ DOMAIN down = 1..Len(down) /\ i \in 1..Len(down) + 1
            /\ down'[Len(down) + 1] = e /\ \A j \in 1..Len(down) : down'[j] = down[j]
        BY <2>1, <2>2, <3>2, AppendProperties, LenProperties
      <4>2. CASE i \in 1..Len(down)
        BY <4>1, <4>2 DEF WinnerInv
      <4>3. CASE i = Len(down) + 1
        BY <1>3, <4>1, <4>3 DEF WinnerInv
      <4> QED
        BY <4>1, <4>2, <4>3
    <3> QED
      BY <2>1, <3>1, <3>2
  <2>3. \A f \in owed' : Ended(f)
    BY <2>1 DEF WinnerInv
  <2> QED
    BY <1>0, <2>1, <2>2, <2>3, WinnerKept
<1>4. CASE RoomHandler
  <2>1. UNCHANGED <<ledgerVars, owed, down, load, detail, newest, excuse>>
    BY <1>4 DEF RoomHandler, pageVars
  <2> QED
    BY <2>1, WinnerKept DEF ledgerVars, WinnerInv
<1>5. CASE Reconnect
  <2>1. UNCHANGED <<ledgerVars, owed, load, detail, newest>> /\ down' = <<>>
    BY <1>5 DEF Reconnect
  <2>2. \A i \in DOMAIN down' : Ended(down'[i])
    BY <2>1
  <2> QED
    BY <1>0, <2>1, <2>2, WinnerKept DEF ledgerVars, WinnerInv
<1>6. CASE SocketEvent
  <2>1. /\ down # <<>> /\ down' = Tail(down) /\ down \in Seq(EventSet)
        /\ UNCHANGED <<ledgerVars, owed, detail, newest, excuse>>
    BY <1>6 DEF SocketEvent, PageBase, PageTyped
  <2>2. /\ Head(down) \in EventSet /\ Len(Tail(down)) = Len(down) - 1 /\ Tail(down) \in Seq(EventSet)
        /\ \A i \in 1..Len(Tail(down)) : Tail(down)[i] = down[i + 1]
    BY <2>1, HeadTailProperties
  <2>3. Len(down) \in Nat /\ DOMAIN down = 1..Len(down) /\ DOMAIN down' = 1..Len(Tail(down))
    BY <2>1, <2>2, LenProperties
  <2>4. ASSUME NEW i \in DOMAIN down' PROVE Ended(down'[i])
    <3>1. i + 1 \in DOMAIN down /\ down'[i] = down[i + 1]
      BY <2>1, <2>2, <2>3, <2>4
    <3> QED
      BY <3>1 DEF WinnerInv
  <2>5. Ended(Head(down))
    <3>1. 1 \in DOMAIN down /\ Head(down) = down[1]
      BY <2>1, <2>3
    <3> QED
      BY <3>1 DEF WinnerInv
  <2>6. CASE Concerns(Head(down))
    <3>1. PICK a \in Auctions : a = id
      BY <2>2, <2>6 DEF Concerns, EventSet
    <3>2. PICK announce \in BOOLEAN : announce = (Head(down).type = "auctionClosed")
      OBVIOUS
    <3>3. LoadAuction(a, announce)
      BY <1>6, <2>6, <3>1, <3>2 DEF SocketEvent
    <3>4. announce => phase[a] = "closed"
      BY <2>5, <2>6, <3>1, <3>2 DEF Ended, Concerns
    <3> QED
      BY <2>1, <2>4, <3>3, <3>4, WinnerAnew DEF ledgerVars
  <2>7. CASE ~Concerns(Head(down))
    <3>1. UNCHANGED load
      BY <1>6, <2>7 DEF SocketEvent
    <3> QED
      BY <2>1, <2>4, <3>1, WinnerKept DEF ledgerVars, WinnerInv
  <2> QED
    BY <2>6, <2>7
<1>7. CASE AnswerStep \/ \E n \in Loads : LoadFails(n)
  <2>1. PICK n \in Loads : ReadRow(n) \/ ReadBids(n) \/ LoadAnswered(n) \/ LiveAnswered(n) \/ LoadFails(n)
    BY <1>7 DEF AnswerStep
  <2> QED
    BY <1>0, <2>1, WinnerLoads
<1>8. CASE \E a \in Auctions : Navigate(a)
  <2>1. PICK a \in Auctions : Navigate(a)
    BY <1>8
  <2>2. LoadAuction(a, FALSE) /\ detail' = Undefined /\ UNCHANGED <<ledgerVars, owed, down, newest, excuse>>
    BY <2>1 DEF Navigate
  <2>3. \A i \in DOMAIN down' : Ended(down'[i])
    BY <2>2 DEF WinnerInv
  <2> QED
    BY <2>2, <2>3, WinnerAnew DEF ledgerVars
<1>9. CASE Leave
  <2>1. /\ UNCHANGED <<phase, ledger, owed, down, excuse>>
        /\ load' = [n \in Loads |-> IF Asked(n) THEN [NoLoad EXCEPT !.pc = "done"] ELSE NoLoad]
    BY <1>9 DEF Leave, ledgerVars
  <2>2. NoLoad \in LoadSet /\ NoLoad.pc = "new"
    BY DEF NoLoad, LoadSet
  <2>3. ASSUME NEW n \in Loads PROVE load'[n].pc \in {"new", "done"}
    BY <2>1, <2>2 DEF LoadSet
  <2>4. \A n \in Loads : Announcing(n)' /\ WinnerShown(n)'
    BY <2>3 DEF Announcing, WinnerShown, Announces, UnderWay
  <2>5. (\A e \in owed' : Ended(e)') /\ \A i \in DOMAIN down' : Ended(down[i])'
    BY <2>1 DEF WinnerInv, Ended
  <2> QED
    BY <2>3, <2>4, <2>5 DEF WinnerInv
<1>10. CASE \E m \in Amounts \union {NoPrice} : PanelBids(m)
  <2>1. UNCHANGED <<ledgerVars, owed, down, load, detail, newest, excuse>>
    BY <1>10 DEF PanelBids, netVars
  <2> QED
    BY <2>1, WinnerKept DEF ledgerVars, WinnerInv
<1>11. CASE PanelAnswered
  <2>1. UNCHANGED <<ledgerVars, owed, down, detail, newest, excuse>>
    BY <1>11 DEF PanelAnswered, netVars
  <2>2. CASE LoadAuction(id, FALSE)
    <3>1. PICK a \in Auctions : a = id
      BY <1>11 DEF PanelAnswered, PageBase, PageTyped
    <3>2. \A i \in DOMAIN down' : Ended(down'[i])
      BY <2>1 DEF WinnerInv
    <3> QED
      BY <2>1, <2>2, <3>1, <3>2, WinnerAnew DEF ledgerVars
  <2>3. CASE UNCHANGED load
    BY <2>1, <2>3, WinnerKept DEF ledgerVars, WinnerInv
  <2> QED
    BY <1>11, <2>2, <2>3 DEF PanelAnswered
<1> QED
  BY <1>1, <1>2, <1>3, <1>4, <1>5, <1>6, <1>7, <1>8, <1>9, <1>10, <1>11 DEF AuctionPageNext, NetStep

-----------------------------------------------------------------------------
(* The panel is refused for what the page did not know                      *)

\* The panel's call is untouched, or has been served.
PanelGoesOn == UNCHANGED bid \/ (bid.pc # "idle" /\ bid' = [bid EXCEPT !.pc = "placed"])

\* An auction that takes a bid or closes keeps its last bid the highest while it
\* is open, and what was read of it stays behind.
LEMMA PanelServer ==
  ASSUME PageBase, PanelInv, NEW a \in Auctions, ServerMoves(a),
         UNCHANGED <<load, detail>>, PanelGoesOn
  PROVE  PanelInv'
<1>1. /\ ledger \in [Auctions -> Seq(BidSet)] /\ ledger' \in [Auctions -> Seq(BidSet)]
      /\ phase' \in [Auctions -> {"open", "closed"}] /\ bid \in PanelSet
  BY DEF PageBase, PageTyped, ServerMoves
<1>2. ledger[a] \in Seq(BidSet) /\ Len(ledger[a]) \in Nat /\ DOMAIN ledger[a] = 1..Len(ledger[a])
  BY <1>1, LenProperties
<1>3. \/ ledger'[a] = ledger[a]
      \/ \E b \in BidSet :
           /\ ledger'[a] = Append(ledger[a], b) /\ Len(ledger'[a]) = Len(ledger[a]) + 1
           /\ ledger'[a][Len(ledger[a]) + 1] = b /\ DOMAIN ledger'[a] = 1..Len(ledger[a]) + 1
           /\ \A i \in 1..Len(ledger[a]) : ledger'[a][i] = ledger[a][i]
           /\ phase'[a] = "open" => \A i \in 1..Len(ledger[a]) : ledger[a][i].amount < b.amount
  <2>1. CASE ledger'[a] = ledger[a]
    BY <2>1
  <2>2. ASSUME NEW b \in BidSet, ledger'[a] = Append(ledger[a], b),
               phase'[a] = "open" => \A i \in DOMAIN ledger[a] : ledger[a][i].amount < b.amount
        PROVE  /\ Len(ledger'[a]) = Len(ledger[a]) + 1
               /\ ledger'[a][Len(ledger[a]) + 1] = b /\ DOMAIN ledger'[a] = 1..Len(ledger[a]) + 1
               /\ \A i \in 1..Len(ledger[a]) : ledger'[a][i] = ledger[a][i]
               /\ phase'[a] = "open" => \A i \in 1..Len(ledger[a]) : ledger[a][i].amount < b.amount
    <3>1. Len(ledger'[a]) = Len(ledger[a]) + 1 /\ ledger'[a] \in Seq(BidSet)
      BY <1>2, <2>2, AppendProperties
    <3>2. DOMAIN ledger'[a] = 1..Len(ledger[a]) + 1
      BY <3>1, LenProperties
    <3>3. /\ ledger'[a][Len(ledger[a]) + 1] = b
          /\ \A i \in 1..Len(ledger[a]) : ledger'[a][i] = ledger[a][i]
      BY <1>2, <2>2, AppendProperties
    <3>4. phase'[a] = "open" => \A i \in 1..Len(ledger[a]) : ledger[a][i].amount < b.amount
      BY <1>2, <2>2
    <3> QED
      BY <3>1, <3>2, <3>3, <3>4
  <2> QED
    BY <2>1, <2>2 DEF ServerMoves
<1>4. \A c \in Auctions : Len(ledger'[c]) \in Nat /\ Len(ledger[c]) <= Len(ledger'[c])
  <2>1. \A c \in Auctions : Len(ledger[c]) \in Nat /\ Len(ledger'[c]) \in Nat
    BY <1>1, LenProperties
  <2>2. \A c \in Auctions \ {a} : ledger'[c] = ledger[c]
    BY DEF ServerMoves
  <2>3. Len(ledger[a]) <= Len(ledger'[a])
    BY <1>2, <1>3
  <2> QED
    BY <2>1, <2>2, <2>3
<1>5. LastIsHighest'
  <2> SUFFICES ASSUME NEW c \in Auctions, phase'[c] = "open", NEW i \in DOMAIN ledger'[c]
               PROVE  ledger'[c][i].amount <= Last(ledger'[c]).amount
    BY DEF LastIsHighest
  <2>1. CASE c # a \/ ledger'[a] = ledger[a]
    <3>1. ledger'[c] = ledger[c] /\ phase[c] = "open"
      BY <2>1 DEF ServerMoves
    <3> QED
      BY <3>1 DEF PanelInv, LastIsHighest
  <2>2. CASE c = a /\ ledger'[a] # ledger[a]
    <3>1. PICK b \in BidSet :
            /\ Len(ledger'[a]) = Len(ledger[a]) + 1 /\ ledger'[a][Len(ledger[a]) + 1] = b
            /\ DOMAIN ledger'[a] = 1..Len(ledger[a]) + 1
            /\ \A j \in 1..Len(ledger[a]) : ledger'[a][j] = ledger[a][j]
            /\ \A j \in 1..Len(ledger[a]) : ledger[a][j].amount < b.amount
      BY <1>3, <2>2
    <3>2. Last(ledger'[a]) = b
      BY <3>1 DEF Last
    <3>3. b.amount \in Nat
      BY PageAssumption DEF BidSet
    <3>4. CASE i = Len(ledger[a]) + 1
      BY <2>2, <3>1, <3>2, <3>3, <3>4
    <3>5. CASE i # Len(ledger[a]) + 1
      <4>1. i \in 1..Len(ledger[a])
        BY <1>2, <2>2, <3>1, <3>5
      <4>2. ledger[a][i] \in BidSet
        BY <1>2, <4>1, ElementOfSeq
      <4>3. ledger[a][i].amount \in Nat
        BY <4>2, PageAssumption DEF BidSet
      <4>4. ledger'[c][i] = ledger[a][i] /\ ledger[a][i].amount < b.amount
        BY <2>2, <3>1, <4>1
      <4> QED
        BY <2>2, <3>2, <3>3, <4>3, <4>4
    <3> QED
      BY <3>4, <3>5
  <2> QED
    BY <2>1, <2>2
<1>6. Behind'
  <2>1. ASSUME NEW n \in Loads, UnderWay(n), load[n].list # Undefined
        PROVE  Len(load[n].list) <= Len(ledger'[load[n].auction])
    <3>1. load[n].auction \in Auctions /\ load[n].list \in Seq(BidSet)
      BY <2>1 DEF PageBase, PageTyped, LoadSet
    <3>2. Len(load[n].list) \in Nat /\ Len(ledger[load[n].auction]) \in Nat
      BY <1>1, <3>1, LenProperties
    <3>3. Len(load[n].list) <= Len(ledger[load[n].auction])
      BY <2>1 DEF PanelInv, Behind
    <3> QED
      BY <1>4, <3>1, <3>2, <3>3
  <2>2. ASSUME detail # Undefined PROVE detail.count <= Len(ledger'[detail.auction])
    <3>1. detail.auction \in Auctions /\ detail.count \in Nat
      BY <2>2 DEF PageBase, PageTyped, DetailSet
    <3>2. Len(ledger[detail.auction]) \in Nat
      BY <1>1, <3>1, LenProperties
    <3>3. detail.count <= Len(ledger[detail.auction])
      BY <2>2 DEF PanelInv, Behind
    <3> QED
      BY <1>4, <3>1, <3>2, <3>3
  <2> QED
    BY <2>1, <2>2 DEF Behind, UnderWay
<1>7. /\ bid'.auction = bid.auction /\ bid'.shown = bid.shown /\ bid'.amount = bid.amount
      /\ bid'.pc \in {bid.pc, "placed"}
  BY <1>1 DEF PanelSet, PanelGoesOn
<1>8. ASSUME bid.pc # "idle" PROVE PanelAsked' /\ RefusalsMeanStalePages'
  <2>1. /\ bid.auction \in Auctions /\ bid.shown \in DetailSet /\ bid.shown.open
        /\ bid.shown.count <= Len(ledger[bid.auction]) /\ bid.shown.count \in Nat
    BY <1>8 DEF PanelInv, PanelAsked, DetailSet
  <2>2. Len(ledger[bid.auction]) \in Nat
    BY <1>1, <2>1, LenProperties
  <2>3. bid.shown.count <= Len(ledger'[bid.auction])
    BY <1>4, <2>1, <2>2
  <2>4. PanelAsked'
    BY <1>7, <1>8, <2>3 DEF PanelInv, PanelAsked
  <2>5. ASSUME bid'.pc = "refused" PROVE bid'.shown # Current(bid.auction)'
    <3>1. bid.pc = "refused" /\ bid.shown # Current(bid.auction)
      BY <1>7, <2>5 DEF PanelInv, RefusalsMeanStalePages
    <3>2. /\ Current(bid.auction)'.open = (phase'[bid.auction] = "open")
          /\ Current(bid.auction)'.count = Len(ledger'[bid.auction])
      BY <1>7 DEF Current, ToDetail, RowOf
    <3>3. CASE bid.auction # a \/ (ledger'[a] = ledger[a] /\ phase'[a] = "open")
      <4>1. phase'[bid.auction] = phase[bid.auction] /\ ledger'[bid.auction] = ledger[bid.auction]
        BY <2>1, <3>3 DEF ServerMoves
      <4>2. Current(bid.auction)' = Current(bid.auction)
        BY <1>7, <4>1 DEF Current, ToDetail, RowOf, TopBidder
      <4> QED
        BY <1>7, <3>1, <4>2
    <3>4. CASE bid.auction = a /\ phase'[a] # "open"
      <4>1. ~Current(bid.auction)'.open
        BY <3>2, <3>4
      <4> QED
        BY <1>7, <2>1, <4>1
    <3>5. CASE bid.auction = a /\ ledger'[a] # ledger[a]
      <4>1. Len(ledger'[a]) = Len(ledger[a]) + 1
        BY <1>3, <3>5
      <4>2. bid.shown.count # Len(ledger'[bid.auction])
        BY <2>1, <2>2, <3>5, <4>1
      <4> QED
        BY <1>7, <3>2, <4>2
    <3> QED
      BY <3>3, <3>4, <3>5
  <2>6. RefusalsMeanStalePages'
    BY <2>5 DEF RefusalsMeanStalePages
  <2> QED
    BY <2>4, <2>6
<1>9. ASSUME bid.pc = "idle", bid' = bid PROVE PanelAsked' /\ RefusalsMeanStalePages'
  BY <1>9 DEF PanelAsked, RefusalsMeanStalePages
<1> QED
  BY <1>5, <1>6, <1>8, <1>9 DEF PanelInv, PanelGoesOn

\* A step that leaves the auctions alone and asks for nothing.
LEMMA PanelKept ==
  ASSUME PanelInv, UNCHANGED <<ledgerVars, load>>, detail' \in {detail, Undefined}, bid' \in {bid, NoBid}
  PROVE  PanelInv'
<1>1. UNCHANGED <<phase, ledger>> /\ NoBid.pc = "idle"
  BY DEF ledgerVars, NoBid
<1>2. LastIsHighest' /\ Behind'
  BY <1>1 DEF PanelInv, LastIsHighest, Behind, UnderWay
<1>3. Current(bid.auction)' = Current(bid'.auction)
  BY <1>1 DEF Current, ToDetail, RowOf, TopBidder
<1>4. PanelAsked' /\ RefusalsMeanStalePages'
  BY <1>1, <1>3 DEF PanelInv, PanelAsked, RefusalsMeanStalePages
<1> QED
  BY <1>2, <1>4 DEF PanelInv

\* A reload that was just asked for has read nothing.
LEMMA PanelAnew ==
  ASSUME PageBase, PanelInv, NEW a \in Auctions, NEW announce \in BOOLEAN, LoadAuction(a, announce),
         UNCHANGED ledgerVars, detail' \in {detail, Undefined}, bid' \in {bid, NoBid}
  PROVE  PanelInv'
<1>1. UNCHANGED <<phase, ledger>> /\ NoBid.pc = "idle"
  BY DEF ledgerVars, NoBid
<1>2. PICK m \in Loads : /\ \A k \in Loads \ {m} : load'[k] = load[k]
                       /\ load'[m].list = Undefined
  BY LoadIsAsked DEF PageBase
<1>3. LastIsHighest'
  BY <1>1 DEF PanelInv, LastIsHighest
<1>4. Behind'
  BY <1>1, <1>2 DEF PanelInv, Behind, UnderWay
<1>5. Current(bid.auction)' = Current(bid'.auction)
  BY <1>1 DEF Current, ToDetail, RowOf, TopBidder
<1>6. PanelAsked' /\ RefusalsMeanStalePages'
  BY <1>1, <1>5 DEF PanelInv, PanelAsked, RefusalsMeanStalePages
<1> QED
  BY <1>3, <1>4, <1>6 DEF PanelInv

\* A reload reads the bids as they are, and the page shows no more than it read.
LEMMA PanelLoads ==
  ASSUME PageBase, PanelInv, NEW k \in Loads,
         ReadRow(k) \/ ReadBids(k) \/ LoadAnswered(k) \/ LiveAnswered(k) \/ LoadFails(k)
  PROVE  PanelInv'
<1>1. /\ UnderWay(k) /\ \A i \in Loads \ {k} : load'[i] = load[i]
      /\ UnderWay(k)' => load'[k].auction = load[k].auction
      /\ UNCHANGED <<ledgerVars, bid>>
  BY LoadSteps
<1>2. UNCHANGED <<phase, ledger>> /\ load[k].auction \in Auctions /\ load[k] \in LoadSet
  BY <1>1 DEF ledgerVars, PageBase, PageTyped
<1>3. NoLoad \in LoadSet
  BY DEF NoLoad, LoadSet
<1>4. UnderWay(k)' /\ load'[k].list # Undefined => load'[k].list \in {load[k].list, ledger[load[k].auction]}
  <2>1. CASE ReadRow(k) \/ ReadBids(k)
    <3>1. load'[k] \in {[load[k] EXCEPT !.row = RowOf(load[k].auction)],
                        [load[k] EXCEPT !.list = ledger[load[k].auction]]}
      BY <2>1 DEF ReadRow, ReadBids, PageBase, PageTyped
    <3> QED
      BY <1>2, <3>1 DEF LoadSet
  <2>2. CASE LoadAnswered(k)
    <3>1. load'[k] = IF load[k].announce
                     THEN [load[k] EXCEPT !.pc = "live", !.row = Undefined, !.list = Undefined]
                     ELSE [NoLoad EXCEPT !.pc = "done"]
      BY <2>2 DEF LoadAnswered, PageBase, PageTyped
    <3>2. CASE load[k].announce
      BY <1>2, <3>1, <3>2 DEF LoadSet
    <3>3. CASE ~load[k].announce
      BY <1>3, <3>1, <3>3 DEF LoadSet, UnderWay
    <3> QED
      BY <3>2, <3>3
  <2>3. CASE LiveAnswered(k) \/ LoadFails(k)
    <3>1. load'[k] = [NoLoad EXCEPT !.pc = "done"]
      BY <2>3 DEF LiveAnswered, LoadFails, PageBase, PageTyped
    <3> QED
      BY <1>3, <3>1 DEF LoadSet, UnderWay
  <2> QED
    BY <2>1, <2>2, <2>3
<1>5. Len(ledger[load[k].auction]) \in Nat
  BY <1>2, ReadsTyped DEF PageBase
<1>6. load[k].list # Undefined => Len(load[k].list) <= Len(ledger[load[k].auction])
  BY <1>1 DEF PanelInv, Behind
<1>7. ASSUME NEW n \in Loads, UnderWay(n)', load'[n].list # Undefined
      PROVE  Len(load'[n].list) <= Len(ledger[load'[n].auction])
  <2>1. CASE n = k
    BY <1>1, <1>4, <1>5, <1>6, <1>7, <2>1
  <2>2. CASE n # k
    BY <1>1, <1>7, <2>2 DEF PanelInv, Behind, UnderWay
  <2> QED
    BY <2>1, <2>2
<1>8. detail' # Undefined => detail'.count <= Len(ledger[detail'.auction])
  <2>1. CASE LoadAnswered(k)
    <3>1. /\ detail' = ToDetail(load[k].auction, load[k].row, load[k].list)
          /\ load[k].row # Undefined /\ load[k].list # Undefined
      BY <2>1 DEF LoadAnswered
    <3>2. load[k].row \in RowSet /\ load[k].list \in Seq(BidSet)
      BY <1>2, <3>1 DEF LoadSet
    <3>3. detail'.auction = load[k].auction /\ detail'.count = Len(load[k].list)
      BY <1>2, <3>1, <3>2, DetailTyped
    <3> QED
      BY <1>6, <3>1, <3>3
  <2>2. CASE ~LoadAnswered(k)
    BY <2>2 DEF ReadRow, ReadBids, LiveAnswered, LoadFails, PanelInv, Behind
  <2> QED
    BY <2>1, <2>2
<1>9. Behind'
  BY <1>2, <1>7, <1>8 DEF Behind
<1>10. LastIsHighest'
  BY <1>2 DEF PanelInv, LastIsHighest
<1>11. Current(bid.auction)' = Current(bid.auction)
  BY <1>1, <1>2 DEF Current, ToDetail, RowOf, TopBidder
<1>12. PanelAsked' /\ RefusalsMeanStalePages'
  BY <1>1, <1>2, <1>11 DEF PanelInv, PanelAsked, RefusalsMeanStalePages
<1> QED
  BY <1>9, <1>10, <1>12 DEF PanelInv

\* A call that was let through on a page that is still right is not refused: the
\* auction is open, and the amount beats its last bid, which is its highest, or
\* the reserve price by a step.
LEMMA RightPagesAreServed ==
  ASSUME PageTyped, PanelInv, bid.pc # "idle", bid.shown = Current(bid.auction)
  PROVE  ~Refused(bid.auction, bid.amount)
<1>1. /\ bid.auction \in Auctions /\ bid.shown.open /\ Viewer # Seller[bid.auction]
      /\ bid.amount = NoPrice => BuyNow[bid.auction] # NoPrice
      /\ bid.amount # NoPrice => bid.amount \in Amounts /\ bid.amount >= bid.shown.price + Step
  BY DEF PanelInv, PanelAsked
<1>2. PICK a \in Auctions : a = bid.auction
  BY <1>1
<1>3. RowOf(a) \in RowSet /\ ledger[a] \in Seq(BidSet) /\ (ledger[a] # <<>> => Last(ledger[a]) \in BidSet)
  BY ReadsTyped
<1>4. /\ Current(a).open = (phase[a] = "open")
      /\ Current(a).price = (IF RowOf(a).highest = NoPrice THEN Reserve ELSE RowOf(a).highest)
  BY DEF Current, ToDetail, RowOf
<1>5. phase[a] = "open"
  BY <1>1, <1>2, <1>4
<1>6. CASE bid.amount = NoPrice
  BY <1>1, <1>2, <1>5, <1>6 DEF Refused, MayBuy, PageTyped
<1>7. CASE bid.amount # NoPrice
  <2>1. /\ bid.amount \in Nat /\ Reserve \in Nat /\ Step \in Nat \ {0} /\ MinFirstBid \in Nat
        /\ MinFirstBid <= Step /\ Amounts \subseteq Nat
    BY <1>1, <1>7, PageAssumption
  <2>2. CASE ledger[a] = <<>>
    <3>1. Current(a).price = Reserve
      BY <1>4, <2>2 DEF RowOf
    <3>2. bid.amount >= MinFirstBid
      BY <1>1, <1>2, <1>7, <2>1, <3>1
    <3>3. DOMAIN ledger[a] = {}
      BY <2>2
    <3> QED
      BY <1>1, <1>2, <1>5, <1>7, <3>2, <3>3 DEF Refused, MayBid
  <2>3. CASE ledger[a] # <<>>
    <3>1. Last(ledger[a]).amount \in Nat /\ Last(ledger[a]).amount # NoPrice
      BY <1>3, <2>1, <2>3, PageAssumption DEF BidSet
    <3>2. Current(a).price = Last(ledger[a]).amount
      BY <1>4, <2>3, <3>1 DEF RowOf
    <3>3. Last(ledger[a]).amount < bid.amount
      BY <1>1, <1>2, <1>7, <2>1, <3>1, <3>2
    <3>4. ASSUME NEW i \in DOMAIN ledger[a] PROVE ledger[a][i].amount < bid.amount
      <4>1. ledger[a][i].amount <= Last(ledger[a]).amount
        BY <1>5 DEF PanelInv, LastIsHighest
      <4>2. ledger[a][i] \in BidSet
        BY <1>3, ElementOfSeq, LenProperties
      <4>3. ledger[a][i].amount \in Nat
        BY <2>1, <4>2 DEF BidSet
      <4> QED
        BY <2>1, <3>1, <3>3, <4>1, <4>3
    <3> QED
      BY <1>1, <1>2, <1>5, <1>7, <2>3, <3>4 DEF Refused, MayBid
  <2> QED
    BY <2>2, <2>3
<1> QED
  BY <1>6, <1>7

\* Every step of the auction page keeps what the panel knew when it sent its call.
LEMMA PanelStep ==
  ASSUME PageBase, PanelInv, AuctionPageNext
  PROVE  PanelInv'
<1>1. CASE ServerActs
  <2>1. PICK a \in Auctions : ServerMoves(a)
    BY <1>1, ServerActsMoves DEF PageBase
  <2>2. UNCHANGED <<load, detail>> /\ UNCHANGED bid
    BY <1>1 DEF ServerActs, pageVars
  <2>3. PanelGoesOn
    BY <2>2 DEF PanelGoesOn
  <2> QED
    BY <2>1, <2>2, <2>3, PanelServer
<1>2. CASE PanelServed
  <2>1. UNCHANGED <<load, detail>> /\ bid.pc = "sent" /\ bid.auction \in Auctions /\ bid \in PanelSet
        /\ PanelAsked
    BY <1>2 DEF PanelServed, PanelInv, PanelAsked, PageBase, PageTyped
  <2>2. CASE bid' = [bid EXCEPT !.pc = "placed"] /\ ServerMoves(bid.auction)
    <3>1. PICK a \in Auctions : a = bid.auction
      BY <2>1
    <3> QED
      BY <2>1, <2>2, <3>1, PanelServer DEF PanelGoesOn
  <2>3. CASE /\ bid' = [bid EXCEPT !.pc = "refused"] /\ Refused(bid.auction, bid.amount)
             /\ UNCHANGED <<ledgerVars, owed>>
    <3>1. UNCHANGED <<phase, ledger>>
      BY <2>3 DEF ledgerVars
    <3>2. LastIsHighest' /\ Behind'
      BY <2>1, <3>1 DEF PanelInv, LastIsHighest, Behind, UnderWay
    <3>3. /\ bid'.auction = bid.auction /\ bid'.shown = bid.shown /\ bid'.amount = bid.amount
          /\ bid'.pc = "refused"
      BY <2>1, <2>3 DEF PanelSet
    <3>4. PanelAsked'
      BY <2>1, <3>1, <3>3 DEF PanelAsked
    <3>5. bid.shown # Current(bid.auction)
      BY <2>1, <2>3, RightPagesAreServed DEF PageBase
    <3>6. Current(bid.auction)' = Current(bid.auction)
      BY <3>1, <3>3 DEF Current, ToDetail, RowOf, TopBidder
    <3> QED
      BY <3>2, <3>3, <3>4, <3>5, <3>6 DEF PanelInv, RefusalsMeanStalePages
  <2> QED
    BY <1>2, <2>1, <2>2, <2>3, PanelServedMoves DEF PageBase
<1>3. CASE (\E e \in owed : Emit(e)) \/ RoomHandler \/ Reconnect
  <2>1. UNCHANGED <<ledgerVars, load, detail, bid>>
    BY <1>3 DEF Emit, RoomHandler, Reconnect, pageVars
  <2> QED
    BY <2>1, PanelKept
<1>4. CASE SocketEvent
  <2>1. UNCHANGED <<ledgerVars, detail, bid>> /\ down # <<>> /\ down \in Seq(EventSet)
    BY <1>4 DEF SocketEvent, PageBase, PageTyped
  <2>2. CASE Concerns(Head(down))
    <3>1. Head(down) \in EventSet
      BY <2>1, HeadTailProperties
    <3>2. PICK a \in Auctions : a = id
      BY <2>2, <3>1 DEF Concerns, EventSet
    <3>3. PICK announce \in BOOLEAN : announce = (Head(down).type = "auctionClosed")
      OBVIOUS
    <3>4. LoadAuction(a, announce)
      BY <1>4, <2>2, <3>2, <3>3 DEF SocketEvent
    <3> QED
      BY <2>1, <3>4, PanelAnew
  <2>3. CASE ~Concerns(Head(down))
    BY <1>4, <2>1, <2>3, PanelKept DEF SocketEvent
  <2> QED
    BY <2>2, <2>3
<1>5. CASE AnswerStep \/ \E n \in Loads : LoadFails(n)
  <2>1. PICK n \in Loads : ReadRow(n) \/ ReadBids(n) \/ LoadAnswered(n) \/ LiveAnswered(n) \/ LoadFails(n)
    BY <1>5 DEF AnswerStep
  <2> QED
    BY <2>1, PanelLoads
<1>6. CASE \E a \in Auctions : Navigate(a)
  <2>1. PICK a \in Auctions : Navigate(a)
    BY <1>6
  <2>2. LoadAuction(a, FALSE) /\ detail' = Undefined /\ UNCHANGED <<ledgerVars, bid>>
    BY <2>1 DEF Navigate
  <2> QED
    BY <2>2, PanelAnew
<1>7. CASE Leave
  <2>1. /\ UNCHANGED <<phase, ledger>> /\ bid' = NoBid /\ detail' = Undefined
        /\ load' = [n \in Loads |-> IF Asked(n) THEN [NoLoad EXCEPT !.pc = "done"] ELSE NoLoad]
    BY <1>7 DEF Leave, ledgerVars
  <2>2. NoLoad \in LoadSet /\ NoLoad.pc = "new" /\ NoBid.pc = "idle"
    BY DEF NoLoad, NoBid, LoadSet
  <2>3. \A n \in Loads : load'[n].pc \in {"new", "done"}
    BY <2>1, <2>2 DEF LoadSet
  <2>4. Behind' /\ LastIsHighest'
    BY <2>1, <2>3 DEF PanelInv, LastIsHighest, Behind, UnderWay
  <2> QED
    BY <2>1, <2>2, <2>4 DEF PanelInv, PanelAsked, RefusalsMeanStalePages
<1>8. CASE \E m \in Amounts \union {NoPrice} : PanelBids(m)
  <2>1. PICK m \in Amounts \union {NoPrice} : PanelBids(m)
    BY <1>8
  <2>2. /\ UNCHANGED <<ledgerVars, load, detail>> /\ detail # Undefined /\ detail.open
        /\ Viewer # Seller[detail.auction] /\ (m = NoPrice \/ m >= detail.price + Step)
        /\ m = NoPrice => BuyNow[detail.auction] # NoPrice
        /\ bid' = [pc |-> "sent", auction |-> detail.auction, amount |-> m, shown |-> detail]
    BY <2>1 DEF PanelBids, CanBid, MinNextBid
  <2>3. detail \in DetailSet /\ detail.auction \in Auctions
    BY <2>2 DEF PageBase, PageTyped, DetailSet
  <2>4. LastIsHighest' /\ Behind'
    BY <2>2 DEF PanelInv, LastIsHighest, Behind, UnderWay, ledgerVars
  <2>5. PanelAsked'
    BY <2>2, <2>3, <2>4 DEF PanelAsked, Behind, ledgerVars, PanelInv
  <2> QED
    BY <2>2, <2>4, <2>5 DEF PanelInv, RefusalsMeanStalePages
<1>9. CASE PanelAnswered
  <2>1. bid' = NoBid /\ UNCHANGED <<ledgerVars, detail>>
    BY <1>9 DEF PanelAnswered
  <2>2. CASE LoadAuction(id, FALSE)
    <3>1. PICK a \in Auctions : a = id
      BY <1>9 DEF PanelAnswered, PageBase, PageTyped
    <3> QED
      BY <2>1, <2>2, <3>1, PanelAnew
  <2>3. CASE UNCHANGED load
    BY <2>1, <2>3, PanelKept
  <2> QED
    BY <1>9, <2>2, <2>3 DEF PanelAnswered
<1> QED
  BY <1>1, <1>2, <1>3, <1>4, <1>5, <1>6, <1>7, <1>8, <1>9 DEF AuctionPageNext, NetStep

-----------------------------------------------------------------------------
(* The page is right                                                        *)

\* The invariant of the auction page is inductive.
LEMMA PageInvStep ==
  ASSUME PageInv, AuctionPageNext
  PROVE  PageInv'
<1>1. PageBase /\ PanelAsked
  BY DEF PageInv, PageBase, PanelInv
<1>2. PageBase'
  BY <1>1, PageBaseStep
<1>3. Follows'
  BY <1>1, FollowsStep DEF PageInv
<1>4. WinnerInv'
  BY <1>1, WinnerStep DEF PageInv
<1>5. PanelInv'
  BY <1>1, PanelStep DEF PageInv
<1> QED
  BY <1>2, <1>3, <1>4, <1>5 DEF PageInv, PageBase

\* The other routes have no auction page.
NoPage == id = Undefined /\ load = [n \in Loads |-> NoLoad] /\ bid = NoBid

RouteInv == IF route = "auctions/:id" THEN PageInv ELSE NoPage

\* On the route of an auction the invariant of its page holds when the route is entered.
LEMMA RouteInvInit ==
  ASSUME FrontInit
  PROVE  RouteInv
<1>1. /\ phase = [a \in Auctions |-> "open"] /\ price = BuyNow /\ ledger = [a \in Auctions |-> <<>>]
      /\ owed = {} /\ down = <<>> /\ id = Undefined /\ load = [n \in Loads |-> NoLoad]
      /\ detail = Undefined /\ newest = 0 /\ bid = NoBid
  BY DEF FrontInit, AuctionPageInit
<1>2. NoLoad \in LoadSet /\ NoLoad.pc = "new" /\ NoBid \in PanelSet /\ NoBid.pc = "idle"
  BY DEF NoLoad, LoadSet, NoBid, PanelSet
<1>3. \A n \in Loads : ~Asked(n) /\ ~UnderWay(n) /\ load[n].pc = "new"
  BY <1>1, <1>2 DEF Asked, UnderWay
<1>4. PageTyped
  <2>1. ledger \in [Auctions -> Seq(BidSet)] /\ down \in Seq(EventSet)
    BY <1>1, EmptySeq
  <2>2. newest \in 0..MaxLoads
    BY <1>1, LoadsAreNumbers
  <2>3. phase \in [Auctions -> {"open", "closed"}] /\ load \in [Loads -> LoadSet]
    BY <1>1, <1>2
  <2> QED
    BY <1>1, <1>2, <1>3, <2>1, <2>2, <2>3 DEF PageTyped
<1>5. InOrder
  <2>1. 0 \in 0..MaxLoads /\ \A n \in Loads : ~(n <= 0)
    BY LoadsAreNumbers
  <2> QED
    BY <1>3, <2>1 DEF InOrder
<1>6. Follows
  BY <1>1 DEF Follows
<1>7. WinnerInv
  <2>1. DOMAIN down = {}
    BY <1>1
  <2> QED
    BY <1>1, <1>3, <2>1 DEF WinnerInv, Announcing, WinnerShown, Announces
<1>8. PanelInv
  <2>1. LastIsHighest
    <3>1. \A a \in Auctions : ledger[a] = <<>>
      BY <1>1
    <3> QED
      BY <3>1 DEF LastIsHighest
  <2> QED
    BY <1>1, <1>2, <1>3, <2>1 DEF PanelInv, Behind, PanelAsked, RefusalsMeanStalePages
<1> QED
  BY <1>1, <1>4, <1>5, <1>6, <1>7, <1>8 DEF RouteInv, NoPage, PageInv

\* It is inductive, and the other routes leave the page alone.
LEMMA RouteInvStep ==
  ASSUME RouteInv, [FrontNext]_frontVars
  PROVE  RouteInv'
<1>1. UNCHANGED route
  BY DEF FrontNext, frontVars
<1>2. CASE route # "auctions/:id"
  <2>1. UNCHANGED pageVars
    <3>1. CASE FrontNext
      BY <1>2, <3>1 DEF FrontNext, auctionPageVars
    <3>2. CASE UNCHANGED frontVars
      BY <3>2 DEF frontVars, auctionPageVars
    <3> QED
      BY <3>1, <3>2
  <2> QED
    BY <1>1, <1>2, <2>1 DEF RouteInv, NoPage, pageVars
<1>3. CASE route = "auctions/:id"
  <2>1. PageInv
    BY <1>3 DEF RouteInv
  <2>2. CASE FrontNext
    <3>1. AuctionPageNext
      BY <1>3, <2>2 DEF FrontNext
    <3> QED
      BY <1>1, <1>3, <2>1, <3>1, PageInvStep DEF RouteInv
  <2>3. CASE UNCHANGED frontVars
    <3>1. /\ UNCHANGED <<phase, price, ledger>> /\ UNCHANGED <<owed, room, up, down>>
          /\ UNCHANGED <<id, load, detail, newest, bid, excuse>>
      BY <2>3 DEF frontVars, auctionPageVars, ledgerVars, netVars, pageVars
    <3>2. PageTyped' /\ InOrder'
      BY <2>1, <3>1 DEF PageInv, PageTyped, UnderWay, InOrder, Asked
    <3>3. Current(id)' = Current(id) /\ RowOf(id)' = RowOf(id) /\ Current(bid.auction)' = Current(bid.auction)
      BY <3>1 DEF Current, ToDetail, RowOf, TopBidder
    <3>4. Follows'
      BY <2>1, <3>1, <3>3 DEF PageInv, Follows, Latest, Asked, Coming, Fresh
    <3>5. WinnerInv'
      BY <2>1, <3>1 DEF PageInv, WinnerInv, Ended, Announcing, UnderWay, WinnerShown, Announces
    <3>6. PanelInv'
      BY <2>1, <3>1, <3>3 DEF PageInv, PanelInv, LastIsHighest, Behind, UnderWay, PanelAsked,
                            RefusalsMeanStalePages
    <3> QED
      BY <1>1, <1>3, <3>2, <3>4, <3>5, <3>6 DEF RouteInv, PageInv
  <2> QED
    BY <2>2, <2>3
<1> QED
  BY <1>2, <1>3

\* So it holds throughout.
LEMMA RouteInvariant == FrontSpec => []RouteInv
<1> QED
  BY RouteInvInit, RouteInvStep, PTL DEF FrontSpec

\* When nothing is under way the latest reload is over, nothing is to come, and
\* so the page shows its auction as the server has it.
THEOREM PageCorrect == FrontSpec => []QuietPageIsCurrent
<1>1. RouteInv => QuietPageIsCurrent
  <2> SUFFICES ASSUME RouteInv, Quiet, id # Undefined, excuse = "none" PROVE detail = Current(id)
    BY DEF QuietPageIsCurrent
  <2>1. Follows
    BY DEF RouteInv, NoPage, PageInv
  <2>2. PICK n \in Loads :
          Coming \/ IF load[n].pc = "asked" THEN Fresh(n) ELSE detail = Current(id)
    BY <2>1 DEF Follows
  <2>3. load[n].pc # "asked"
    BY DEF Quiet
  <2>4. ~Coming
    <3>1. owed = {} /\ DOMAIN down = {}
      BY DEF Quiet
    <3> QED
      BY <3>1 DEF Coming
  <2> QED
    BY <2>2, <2>3, <2>4
<1> QED
  BY <1>1, RouteInvariant, PTL

\* A bid that the panel let through and the server refused was let through on a
\* page that no longer showed the auction as it was.
THEOREM RefusalsCorrect == FrontSpec => []RefusalsMeanStalePages
<1>1. RouteInv => RefusalsMeanStalePages
  BY DEF RouteInv, PageInv, PanelInv, NoPage, NoBid, RefusalsMeanStalePages
<1> QED
  BY <1>1, RouteInvariant, PTL

\* The winner announced on a page is the last to have bid on its auction, unless an answer was
\* overtaken or the page shows another auction.
THEOREM AnnouncementCorrect == FrontSpec => AnnouncedWinnerWon
<1> DEFINE Right(n) ==
      LET a == load[n].auction IN
      Announces(n) /\ load'[n].pc = "done" /\ detail.auction = a /\ excuse = "none"
        => (ledger[a] # <<>> => detail.bidder = Last(ledger[a]).bidder)
<1>1. RouteInv => \A n \in Loads : Right(n)
  <2> SUFFICES ASSUME RouteInv, NEW n \in Loads PROVE Right(n)
    OBVIOUS
  <2>1. CASE PageInv
    BY <2>1 DEF PageInv, WinnerInv, WinnerShown
  <2>2. CASE NoPage
    BY <2>2 DEF NoPage, Announces, NoLoad
  <2> QED
    BY <2>1, <2>2 DEF RouteInv
<1>2. RouteInv => [\A n \in Loads : Right(n)]_auctionPageVars
  BY <1>1
<1> QED
  BY <1>2, RouteInvariant, PTL DEF AnnouncedWinnerWon
=============================================================================
