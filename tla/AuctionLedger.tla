---------------------------- MODULE AuctionLedger ----------------------------
(***************************************************************************)
(* What the auction side of euro-platform-api promises about bids,         *)
(* whatever the handlers interleave: each auction is opened once, takes    *)
(* bids one at a time while it is open, and is closed once, by a buy-now   *)
(* or otherwise; a bid beats every bid before it, and a closed auction's   *)
(* bids never change.  Each promise is one atomic step; there are no       *)
(* transactions, no retries and no loaded entities here.                   *)
(***************************************************************************)
EXTENDS Integers, Sequences

CONSTANTS Auctions, Users, Seller, Amounts, MinFirstBid, NoPrice

VARIABLES
  phase,       \* none, open or closed
  price,       \* the buy-now price of an opened auction, or NoPrice
  ledger       \* the bids of each auction, oldest first

ledgerVars == <<phase, price, ledger>>

LedgerInit ==
  /\ phase = [a \in Auctions |-> "none"]
  /\ price \in [Auctions -> Amounts \union {NoPrice}]
  /\ ledger = [a \in Auctions |-> <<>>]

Record(a, u, m) == ledger' = [ledger EXCEPT ![a] = Append(@, [bidder |-> u, amount |-> m])]

Open(a, p) ==
  /\ phase[a] = "none"
  /\ phase' = [phase EXCEPT ![a] = "open"]
  /\ price' = [price EXCEPT ![a] = p]
  /\ UNCHANGED ledger

MayBid(a, u, m) ==
  /\ phase[a] = "open"
  /\ u # Seller[a]
  /\ ledger[a] = <<>> => m >= MinFirstBid
  /\ \A i \in DOMAIN ledger[a] : ledger[a][i].amount < m

BidOn(a, u, m) ==
  /\ MayBid(a, u, m)
  /\ Record(a, u, m)
  /\ UNCHANGED <<phase, price>>

MayBuy(a, u) == phase[a] = "open" /\ u # Seller[a] /\ price[a] # NoPrice

Buy(a, u) ==
  /\ MayBuy(a, u)
  /\ Record(a, u, price[a])
  /\ phase' = [phase EXCEPT ![a] = "closed"]
  /\ UNCHANGED price

Close(a) ==
  /\ phase[a] = "open"
  /\ phase' = [phase EXCEPT ![a] = "closed"]
  /\ UNCHANGED <<price, ledger>>

LedgerNext ==
  \E a \in Auctions :
    \/ \E p \in Amounts \union {NoPrice} : Open(a, p)
    \/ \E u \in Users : Buy(a, u) \/ \E m \in Amounts : BidOn(a, u, m)
    \/ Close(a)

LedgerSpec == LedgerInit /\ [][LedgerNext]_ledgerVars
=============================================================================
