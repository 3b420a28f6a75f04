----------------------------- MODULE AuctionPage -----------------------------
(***************************************************************************)
(* The auction page of euro-platform-front, with its bid panel, on top of  *)
(* the atomic ledger that the services implement (AuctionHouse): the page  *)
(* joins the socket room of its auction, reloads on every event, and sets  *)
(* what it shows from answers that arrive in any order.                    *)
(***************************************************************************)
EXTENDS AuctionLedger, SequencesExt

CONSTANTS
  Viewer,       \* the user logged in on the page
  Busy,         \* a bound: the auctions anyone bids on
  BuyNow,       \* the buy-now price of each auction, or NoPrice
  Reserve,      \* the reserve price, shown while there is no bid
  Step,         \* SUGGESTED_BID_STEP
  MaxLoads,     \* a bound: reloads of a behaviour
  Undefined

\* A step more than the reserve price clears MIN_STARTING_BID: both are 500.
ASSUME PageAssumption ==
  /\ Viewer \in Users /\ Reserve \in Amounts /\ Step \in Nat \ {0} /\ MaxLoads \in Nat
  /\ Busy \subseteq Auctions /\ BuyNow \in [Auctions -> Amounts \union {NoPrice}]
  /\ Amounts \subseteq Nat /\ NoPrice \notin Amounts /\ MinFirstBid \in Nat /\ MinFirstBid <= Step
  /\ Undefined \notin Auctions \union Users

VARIABLES
  owed,        \* the events handlers are about to emit, in whatever order
  room,        \* AuctionGateway: the rooms the page's socket is in
  up, down,    \* the socket: messages to the server and events to the page
  id,          \* the route's auction, and joinedAuctionId; Undefined elsewhere
  load,        \* the reloads, in the order they were asked for
  detail,      \* what the page shows
  newest,      \* the reload detail() was set by (history)
  bid,         \* the bid panel's call
  excuse       \* what went wrong on the way (history)

netVars == <<owed, room, up, down>>
pageVars == <<id, load, detail, newest, bid, excuse>>
auctionPageVars == <<ledgerVars, netVars, pageVars>>

Loads == 1..MaxLoads

\* The first thing to go wrong is the one recorded.
First(what) == IF excuse = "none" THEN what ELSE excuse

NoLoad == [pc |-> "new", auction |-> Undefined, row |-> Undefined, list |-> Undefined,
           announce |-> FALSE]
NoBid == [pc |-> "idle", auction |-> Undefined, amount |-> 0, shown |-> Undefined]

\* Both auctions have been launched; the price is what the seller asked.
AuctionPageInit ==
  /\ phase = [a \in Auctions |-> "open"]
  /\ price = BuyNow
  /\ ledger = [a \in Auctions |-> <<>>]
  /\ owed = {} /\ room = {} /\ up = <<>> /\ down = <<>>
  /\ id = Undefined
  /\ load = [n \in Loads |-> NoLoad]
  /\ detail = Undefined /\ newest = 0
  /\ bid = NoBid
  /\ excuse = "none"

-----------------------------------------------------------------------------
(* The server                                                               *)

\* GET /auctions/:id and GET /auctions/:id/bids.
RowOf(a) == [open |-> phase[a] = "open",
             highest |-> IF ledger[a] = <<>> THEN NoPrice ELSE Last(ledger[a]).amount]

\* A bug: the list is read as if it came oldest first.
FirstOfTheList(list) == Head(list).bidder

\* bids[0]: the list comes newest first.
TopBidder(list) == Last(list).bidder

\* toAuctionDetailData: the price comes from the row, the bidder from the list.
ToDetail(a, row, list) ==
  [auction |-> a,
   open    |-> row.open,
   price   |-> IF row.highest = NoPrice THEN Reserve ELSE row.highest,
   bidder  |-> IF list = <<>> THEN Undefined ELSE TopBidder(list),
   count   |-> Len(list)]

Current(a) == ToDetail(a, RowOf(a), ledger[a])

Placed(a) == [type |-> "bidPlaced", auction |-> a]
Closed(a) == [type |-> "auctionClosed", auction |-> a]

\* A step of the services, and the events it will emit.
ServerActs ==
  \E a \in Busy :
    /\ owed = {}    \* a bound: the events of one commit at a time
    /\ \/ \E u \in Users \ {Viewer}, m \in Amounts :
            BidOn(a, u, m) /\ owed' = {Placed(a)}
       \/ \E u \in Users \ {Viewer} :
            Buy(a, u) /\ owed' = {Placed(a), Closed(a)}
       \/ Close(a) /\ owed' = {Closed(a)}
    /\ UNCHANGED <<room, up, down, pageVars>>

\* emitBidPlaced, emitAuctionClosed: only the sockets in the room hear of it.
Emit(e) ==
  /\ owed' = owed \ {e}
  /\ down' = IF e.auction \in room THEN Append(down, e) ELSE down
  /\ excuse' = IF e.auction = id /\ e.auction \notin room THEN First("notInRoom") ELSE excuse
  /\ UNCHANGED <<ledgerVars, room, up, id, load, detail, newest, bid>>

\* handleJoinAuction, handleLeaveAuction.
RoomHandler ==
  /\ up # <<>>
  /\ room' = IF Head(up).join THEN room \union {Head(up).auction} ELSE room \ {Head(up).auction}
  /\ up' = Tail(up)
  /\ UNCHANGED <<ledgerVars, owed, down, pageVars>>

\* The connection breaks and comes back.  The server has forgotten the rooms
\* of the socket, and nothing on the page joins them again.
Reconnect ==
  /\ room' = {} /\ down' = <<>> /\ up' = <<>>
  /\ excuse' = First("reconnected")
  /\ UNCHANGED <<ledgerVars, owed, id, load, detail, newest, bid>>

-----------------------------------------------------------------------------
(* Loading                                                                  *)

Asked(n) == load[n].pc # "new"
NextLoad == CHOOSE n \in Loads : ~Asked(n) /\ \A k \in Loads : k < n => Asked(k)
LoadsLeft == \E n \in Loads : ~Asked(n)

\* loadAuction(a), the second time for an announcement.
LoadAuction(a, announce) ==
  /\ LoadsLeft
  /\ load' = [load EXCEPT ![NextLoad] = [NoLoad EXCEPT !.pc = "asked", !.auction = a,
                                                       !.announce = announce]]

\* Promise.all: two reads, not one snapshot.
ReadRow(n) ==
  /\ load[n].pc = "asked" /\ load[n].row = Undefined
  /\ load' = [load EXCEPT ![n].row = RowOf(load[n].auction)]
  /\ UNCHANGED <<ledgerVars, netVars, id, detail, newest, bid, excuse>>

ReadBids(n) ==
  /\ load[n].pc = "asked" /\ load[n].list = Undefined
  /\ load' = [load EXCEPT ![n].list = ledger[load[n].auction]]
  /\ UNCHANGED <<ledgerVars, netVars, id, detail, newest, bid, excuse>>

\* Nothing compares the answer with the auction now on the page, or with the
\* answer of a later request.
LoadAnswered(n) ==
  /\ load[n].pc = "asked" /\ load[n].row # Undefined /\ load[n].list # Undefined
  /\ detail' = ToDetail(load[n].auction, load[n].row, load[n].list)
  /\ newest' = n
  /\ excuse' = IF n < newest THEN First("overtaken") ELSE excuse
  /\ load' = [load EXCEPT ![n] =
       IF @.announce THEN [@ EXCEPT !.pc = "live", !.row = Undefined, !.list = Undefined]
                     ELSE [NoLoad EXCEPT !.pc = "done"]]
  /\ UNCHANGED <<ledgerVars, netVars, id, bid>>

LoadFails(n) ==
  /\ load[n].pc = "asked"
  /\ detail' = Undefined
  /\ newest' = n
  /\ excuse' = First("failed")
  /\ load' = [load EXCEPT ![n] = [NoLoad EXCEPT !.pc = "done"]]
  /\ UNCHANGED <<ledgerVars, netVars, id, bid>>

\* announceAuctionClosed reads detail() as it is by now.
Announces(n) == load[n].pc = "live" /\ load[n].announce /\ detail # Undefined

\* listLive has answered; the other auctions it puts on the page are left out,
\* and with them the reloads that announce nothing.
LiveAnswered(n) ==
  /\ load[n].pc = "live"
  /\ load' = [load EXCEPT ![n] = [NoLoad EXCEPT !.pc = "done"]]
  /\ UNCHANGED <<ledgerVars, netVars, id, detail, newest, bid, excuse>>

-----------------------------------------------------------------------------
(* The page                                                                 *)

Message(join, a) == [join |-> join, auction |-> a]

\* leaveAuction.
Farewell(a) == <<Message(FALSE, a)>>

\* A bug: only a closing makes the page reload.
ConcernsWhenClosed(e) == e.auction = id /\ e.type = "auctionClosed"

\* onBidPlaced, onAuctionClosed: events of another auction are ignored.
Concerns(e) == e.auction = id

\* The effect on the route's id: leave the old room, join the new one, reload.
Navigate(a) ==
  /\ a # id
  /\ up = <<>>    \* a bound
  /\ id' = a
  /\ up' = up \o (IF id = Undefined THEN <<>> ELSE Farewell(id))
              \o <<Message(TRUE, a)>>
  /\ detail' = Undefined
  /\ LoadAuction(a, FALSE)
  /\ UNCHANGED <<ledgerVars, owed, room, down, newest, bid, excuse>>

\* ngOnDestroy; answers still to come go to a page nobody sees.
Leave ==
  /\ id # Undefined
  /\ up' = up \o Farewell(id)
  /\ id' = Undefined /\ detail' = Undefined /\ newest' = 0
  /\ load' = [n \in Loads |-> IF Asked(n) THEN [NoLoad EXCEPT !.pc = "done"] ELSE NoLoad]
  /\ bid' = NoBid
  /\ UNCHANGED <<ledgerVars, owed, room, down, excuse>>

\* refreshAuction, and for a closing the announcement after it.
SocketEvent ==
  /\ down # <<>>
  /\ down' = Tail(down)
  /\ IF Concerns(Head(down))
       THEN LoadAuction(id, Head(down).type = "auctionClosed")
       ELSE UNCHANGED load
  /\ UNCHANGED <<ledgerVars, owed, room, up, id, detail, newest, bid, excuse>>

\* A bug: the step is forgotten.
MinOverNothing(shown) == shown.price

MinNextBid(shown) == shown.price + Step

\* placeBid and buyNow of the bid panel: what is asked is held against what the
\* page shows.  Bounds: one call of the panel at a time, served while no event
\* is owed.
CanBid == detail # Undefined /\ detail.open /\ Viewer # Seller[detail.auction]

PanelBids(m) ==
  /\ CanBid /\ bid.pc = "idle" /\ detail.auction \in Busy
  /\ m = NoPrice \/ m >= MinNextBid(detail)
  /\ m = NoPrice => BuyNow[detail.auction] # NoPrice
  /\ bid' = [pc |-> "sent", auction |-> detail.auction, amount |-> m, shown |-> detail]
  /\ UNCHANGED <<ledgerVars, netVars, id, load, detail, newest, excuse>>

Served(a, m) == IF m = NoPrice THEN Buy(a, Viewer) ELSE BidOn(a, Viewer, m)
Refused(a, m) == IF m = NoPrice THEN ~MayBuy(a, Viewer) ELSE ~MayBid(a, Viewer, m)

PanelServed ==
  /\ bid.pc = "sent" /\ owed = {}
  /\ \/ /\ Served(bid.auction, bid.amount)
        /\ owed' = {Placed(bid.auction)} \union
                   (IF bid.amount = NoPrice THEN {Closed(bid.auction)} ELSE {})
        /\ bid' = [bid EXCEPT !.pc = "placed"]
     \/ /\ Refused(bid.auction, bid.amount)
        /\ bid' = [bid EXCEPT !.pc = "refused"]
        /\ UNCHANGED <<ledgerVars, owed>>
  /\ UNCHANGED <<room, up, down, id, load, detail, newest, excuse>>

\* A bid that was placed makes the page reload.
PanelAnswered ==
  /\ bid.pc \in {"placed", "refused"}
  /\ bid' = NoBid
  /\ IF bid.pc = "placed" THEN LoadAuction(id, FALSE) ELSE UNCHANGED load
  /\ UNCHANGED <<ledgerVars, netVars, id, detail, newest, excuse>>

-----------------------------------------------------------------------------
AnswerStep == \E n \in Loads : ReadRow(n) \/ ReadBids(n) \/ LoadAnswered(n) \/ LiveAnswered(n)
NetStep == (\E e \in owed : Emit(e)) \/ RoomHandler \/ SocketEvent

\* A bound: a behaviour is followed until the first thing goes wrong.
AuctionPageNext ==
  /\ excuse = "none"
  /\ \/ ServerActs \/ NetStep \/ AnswerStep
     \/ \E n \in Loads : LoadFails(n)
     \/ Reconnect
     \/ \E a \in Auctions : Navigate(a)
     \/ Leave
     \/ \E m \in Amounts \union {NoPrice} : PanelBids(m)
     \/ PanelServed \/ PanelAnswered

-----------------------------------------------------------------------------
(* What the page promises                                                   *)

Quiet == /\ owed = {} /\ up = <<>> /\ down = <<>>
         /\ \A n \in Loads : load[n].pc \in {"new", "done"}

\* Once nothing is under way the page shows its auction as the server has it,
\* unless an event was missed (the room not yet joined, or lost with the
\* connection), an answer was overtaken by that of a later request, or failed:
\* the two reads of a reload need not be of one moment.
QuietPageIsCurrent ==
  (Quiet /\ id # Undefined /\ excuse = "none") => detail = Current(id)

\* The winner announced for an auction that closed is the last to have bid on
\* it, unless an answer was overtaken, or the page shows another auction: it was
\* left for that one and may be back, when the answer for that one comes late.
\* detail() is read after one more await than it is set.
AnnouncedWinnerWon ==
  [][\A n \in Loads :
       LET a == load[n].auction IN
       Announces(n) /\ load'[n].pc = "done" /\ detail.auction = a /\ excuse = "none"
         => (ledger[a] # <<>> => detail.bidder = Last(ledger[a]).bidder)]_auctionPageVars

\* The server refuses a bid the panel let through only if the page was no
\* longer showing the auction as it is.
RefusalsMeanStalePages == bid.pc = "refused" => bid.shown # Current(bid.auction)
=============================================================================
