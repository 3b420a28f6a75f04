---------------------------- MODULE AuctionStore ----------------------------
(***************************************************************************)
(* The state the auction services of euro-platform-api share: the          *)
(* PostgreSQL tables `auctions` and `bids`, the notifications handed to    *)
(* NotificationService and the events pushed to an auction's socket room.  *)
(*                                                                         *)
(* An ad has at most one auction (UNIQUE "adId"), so an auction is         *)
(* identified with its ad and a row exists once its state is not ABSENT.   *)
(***************************************************************************)
EXTENDS AuctionRules, Sequences

CONSTANTS
  Auctions,    \* validated ads an auction may be launched for
  Users,       \* accounts of euro-auth, sellers included
  Admins,      \* the users with role ADMIN
  None,        \* undefined: no previous bidder, no auction
  Seller,      \* the seller of each ad
  Amounts,     \* the euro amounts bids and prices range over
  Terms        \* the reserve and buy-now prices an auction may be launched with

ASSUME StoreAssumption ==
  /\ Seller \in [Auctions -> Users]
  /\ Admins \subseteq Users
  /\ None \notin Users \union Auctions
  /\ Amounts \subseteq Nat \ {0}
  /\ Terms \subseteq [reserve : Amounts, buyNow : Amounts \union {Null}]

VARIABLES
  row,         \* auctions: the columns that change, and the row's version
  terms,       \* auctions: reserve_price and buy_now_price
  ended,       \* the auctions whose end_date is in the past
  bids,        \* bids: the rows of each auction in insertion order
  notices,     \* what NotificationService was told to send
  feed,        \* what AuctionGateway emitted to each auction's room, in order
  faults       \* process crashes and failed queries so far

storeVars == <<row, terms, ended, bids, notices, feed, faults>>

-----------------------------------------------------------------------------
\* The columns save() may have to write back; the others never change.
Columns == {"state", "highest", "closedAt"}

\* closedAt is a date in the code: all that is ever asked of it is whether it
\* is set.  `version` stands for PostgreSQL's row version: every UPDATE of the
\* row makes a new one, and a SERIALIZABLE transaction may only update the
\* version its snapshot shows.
Row == [state : AuctionStates, highest : Amounts \union {Null},
        closedAt : BOOLEAN, version : Nat]

AbsentRow == [state |-> "ABSENT", highest |-> Null, closedAt |-> FALSE, version |-> 0]

Bid == [bidder : Users, amount : Amounts]

Notice ==
  [kind : {"outbid"}, to : Users, auction : Auctions, amount : Amounts]
    \union [kind : {"closed"}, to : Users, auction : Auctions, state : TerminalStates]

Event ==
  [type : {"bidPlaced"}, amount : Amounts, count : Nat]
    \union [type : {"auctionClosed"}, state : TerminalStates]

StoreTypeOK ==
  /\ row \in [Auctions -> Row]
  /\ terms \in [Auctions -> Terms]
  /\ ended \subseteq Auctions
  /\ bids \in [Auctions -> Seq(Bid)]
  /\ notices \subseteq Notice
  /\ feed \in [Auctions -> Seq(Event)]
  /\ faults \in Nat

\* No auction yet.  The terms of an absent row are unused until launch sets them.
StoreInit ==
  /\ row = [a \in Auctions |-> AbsentRow]
  /\ terms \in [Auctions -> Terms]
  /\ ended = {}
  /\ bids = [a \in Auctions |-> <<>>]
  /\ notices = {}
  /\ feed = [a \in Auctions |-> <<>>]
  /\ faults = 0

-----------------------------------------------------------------------------
\* findOne(order amount DESC): the bidder of a bid no other bid exceeds, any
\* of them if several tie.
TopBidders(s) ==
  IF s = <<>> THEN {None}
  ELSE {s[i].bidder : i \in {k \in DOMAIN s : \A j \in DOMAIN s : s[j].amount <= s[k].amount}}

\* The row an UPDATE of the columns cols to the entity's values leaves behind.
Updated(r, e, cols) ==
  [state    |-> IF "state" \in cols THEN e.state ELSE r.state,
   highest  |-> IF "highest" \in cols THEN e.highest ELSE r.highest,
   closedAt |-> IF "closedAt" \in cols THEN e.closedAt ELSE r.closedAt,
   version  |-> r.version + 1]

EmitTo(a, event) == feed' = [feed EXCEPT ![a] = Append(@, event)]

Notify(notice) == notices' = notices \union {notice}
=============================================================================
